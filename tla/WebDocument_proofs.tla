-------------------------- MODULE WebDocument_proofs --------------------------
(***************************************************************************)
(* The web client's document, proved for every set of texts, schemas and   *)
(* files and for every bound: its types, and the six properties its run    *)
(* checks.                                                                 *)
(*                                                                         *)
(* What carries them is what each task under way still has to do with the  *)
(* document it was started on (FitTo): what leaves the tab holds the       *)
(* baseline, what a cipher works on is the working container unless the    *)
(* store has changed since, and whoever opens over changes was asked or    *)
(* came later.                                                             *)
(***************************************************************************)
EXTENDS WebDocument, SequenceTheorems, TLAPS

-----------------------------------------------------------------------------
(* Containers: what an edit leaves alone.                                  *)

\* Rest compares everything but the manifest.
LEMMA RestIs ==
  ASSUME NEW c \in Containers, NEW d \in Containers
  PROVE  Rest(c) = Rest(d) <=>
           /\ c.doc = d.doc /\ c.text = d.text /\ c.sealed = d.sealed /\ c.seal = d.seal
           /\ c.form = d.form /\ c.claim = d.claim /\ c.assets = d.assets
           /\ c.log = d.log /\ c.mark = d.mark /\ c.sig = d.sig
BY DEF Rest, Containers

LEMMA ListingIs ==
  ASSUME NEW c \in Containers
  PROVE  Listing(c) \in Listings /\ Listing(c) # None
BY WebContainers DEF Listing, Containers, Listings

LEMMA RebuiltIs ==
  ASSUME NEW c \in Containers
  PROVE  /\ Rebuilt(c) \in Containers
         /\ Rebuilt(c).manifest = Listing(c)
         /\ Rest(Rebuilt(c)) = Rest(c)
<1> DEFINE l == Listing(c)
<1>1. l \in Listings
  BY ListingIs
<1> HIDE DEF l
<1>2. [c EXCEPT !.manifest = l] \in Containers /\ [c EXCEPT !.manifest = l].manifest = l
  BY <1>1 DEF Containers
<1>3. [[c EXCEPT !.manifest = l] EXCEPT !.manifest = None] = [c EXCEPT !.manifest = None]
  BY DEF Containers
<1> QED BY <1>2, <1>3 DEF Rebuilt, Rest, l

LEMMA BoundIs ==
  ASSUME NEW f \in Forms, NEW t \in Texts
  PROVE  /\ BoundSections(f, t) \in Bound
         /\ BoundSections(Canonical[f], t) = BoundSections(f, t)
         /\ BoundSections(f, Canonical[t]) = BoundSections(f, t)
BY WebValues DEF Bound, BoundSections

\* What is sealed can be opened again, whatever it is.
LEMMA SealedIs ==
  ASSUME NEW c \in Containers, NEW n \in 0..MaxSeals
  PROVE  /\ Sealed(c, n) \in Containers
         /\ Sealed(c, n).doc = c.doc /\ Sealed(c, n).form = c.form
         /\ Sealed(c, n).text = c.text /\ Sealed(c, n).assets = c.assets
         /\ Sealed(c, n).log = c.log /\ Sealed(c, n).mark = c.mark
         /\ Sealed(c, n).sealed /\ Sealed(c, n).manifest # None
         /\ AttestationHolds(Sealed(c, n))
<1> DEFINE m == IF AttestationRequired(c) THEN BoundSections(c.form, c.text) ELSE None
           d == [c EXCEPT !.sealed = TRUE, !.seal = n, !.claim = m]
<1>1. m \in Claims /\ (m # None => m = BoundSections(c.form, c.text))
  BY BoundIs DEF AttestationRequired, Claims, Containers
<1>2. Sealed(c, n) = Rebuilt(d)
  BY DEF Sealed
<1> HIDE DEF m
<1>3. /\ d \in Containers
      /\ d.doc = c.doc /\ d.form = c.form /\ d.text = c.text /\ d.assets = c.assets
      /\ d.log = c.log /\ d.mark = c.mark /\ d.sealed /\ d.claim = m
  BY <1>1 DEF Containers
<1> HIDE DEF d
<1>4. /\ Rebuilt(d) \in Containers /\ Rebuilt(d).manifest # None
      /\ Rest(Rebuilt(d)) = Rest(d)
  BY <1>3, RebuiltIs, ListingIs
<1>5. /\ Rebuilt(d).doc = c.doc /\ Rebuilt(d).form = c.form /\ Rebuilt(d).text = c.text
      /\ Rebuilt(d).assets = c.assets /\ Rebuilt(d).log = c.log /\ Rebuilt(d).mark = c.mark
      /\ Rebuilt(d).sealed = d.sealed /\ Rebuilt(d).claim = m
  BY <1>3, <1>4, RestIs
<1> QED BY <1>1, <1>2, <1>3, <1>4, <1>5 DEF AttestationHolds

LEMMA OpenedIs ==
  ASSUME NEW c \in Containers
  PROVE  /\ Opened(c) \in Containers
         /\ Opened(c).doc = c.doc /\ Opened(c).form = c.form
         /\ Opened(c).text = c.text /\ Opened(c).assets = c.assets
         /\ Opened(c).log = c.log /\ Opened(c).mark = c.mark
         /\ ~Opened(c).sealed /\ Opened(c).manifest # None
<1> DEFINE d == [c EXCEPT !.sealed = FALSE, !.seal = 0, !.claim = None]
<1>1. Opened(c) = Rebuilt(d)
  BY DEF Opened
<1>a. 0 \in 0..MaxSeals /\ None \in Claims
  BY WebBounds DEF Claims
<1> DEFINE S == 0..MaxSeals
<1> HIDE DEF S
<1>2. /\ d \in Containers
      /\ d.doc = c.doc /\ d.form = c.form /\ d.text = c.text /\ d.assets = c.assets
      /\ d.log = c.log /\ d.mark = c.mark /\ d.sealed = FALSE
  BY <1>a DEF Containers
<1> HIDE DEF d
<1>3. /\ Rebuilt(d) \in Containers /\ Rebuilt(d).manifest # None
      /\ Rest(Rebuilt(d)) = Rest(d)
  BY <1>2, RebuiltIs, ListingIs
<1> QED BY <1>1, <1>2, <1>3, RestIs

\* The attestation depends on what the container says, not how it is spelled.
LEMMA AttestationIs ==
  ASSUME NEW c \in Containers, NEW d \in Containers,
         c.claim = d.claim,
         d.text = c.text \/ d.text = Canonical[c.text],
         d.form = c.form \/ (c.form # None /\ d.form = Canonical[c.form])
  PROVE  AttestationHolds(c) <=> AttestationHolds(d)
<1>1. c.text \in Texts /\ c.form \in Forms \union {None}
  BY DEF Containers
<1>2. c.form # None => BoundSections(d.form, d.text) = BoundSections(c.form, c.text)
  BY <1>1, WebValues DEF BoundSections
<1>3. c.form = None <=> d.form = None
  BY <1>1, WebValues
<1> QED BY <1>2, <1>3 DEF AttestationHolds

-----------------------------------------------------------------------------
(* The store.                                                              *)

Rebased(b, l) ==
  [b EXCEPT !.text = IF l.sealed THEN @ ELSE Canonical[l.text],
            !.form = IF l.form = None THEN @ ELSE Canonical[l.form]]

Risky(b, l) ==
  \/ ~l.sealed /\ Canonical[l.text] # b.text
  \/ l.form # None /\ (b.form = None \/ Canonical[l.form] # b.form)
  \/ l.unsaved

LEMMA RebasedIs ==
  ASSUME NEW b \in Containers, NEW l \in Lives
  PROVE  /\ Rebased(b, l) \in Containers
         /\ Rebased(b, l).text = (IF l.sealed THEN b.text ELSE Canonical[l.text])
         /\ Rebased(b, l).form = (IF l.form = None THEN b.form ELSE Canonical[l.form])
         /\ Rebased(b, l).doc = b.doc /\ Rebased(b, l).sealed = b.sealed
         /\ Rebased(b, l).seal = b.seal /\ Rebased(b, l).claim = b.claim
         /\ Rebased(b, l).assets = b.assets /\ Rebased(b, l).log = b.log
         /\ Rebased(b, l).mark = b.mark /\ Rebased(b, l).manifest = b.manifest
         /\ Rebased(b, l).sig = b.sig
<1> DEFINE t == IF l.sealed THEN b.text ELSE Canonical[l.text]
           f == IF l.form = None THEN b.form ELSE Canonical[l.form]
<1>1. t \in Texts /\ f \in Forms \union {None}
  BY WebValues DEF Lives, Containers
<1>2. Rebased(b, l) = [b EXCEPT !.text = t, !.form = f]
  BY DEF Rebased, Containers
<1> HIDE DEF t, f
<1>3. /\ [b EXCEPT !.text = t, !.form = f] \in Containers
      /\ [b EXCEPT !.text = t, !.form = f].text = t
      /\ [b EXCEPT !.text = t, !.form = f].form = f
  BY <1>1 DEF Containers
<1>4. LET r == [b EXCEPT !.text = t, !.form = f]
      IN  /\ r.doc = b.doc /\ r.sealed = b.sealed /\ r.seal = b.seal /\ r.claim = b.claim
          /\ r.assets = b.assets /\ r.log = b.log /\ r.mark = b.mark
          /\ r.manifest = b.manifest /\ r.sig = b.sig
  BY DEF Containers
<1> QED BY <1>2, <1>3, <1>4 DEF t, f

LEMMA BuffersAre ==
  ASSUME NEW c \in Containers, NEW u \in BOOLEAN
  PROVE  LET l == [Buffers(c) EXCEPT !.unsaved = u]
         IN  /\ l \in Lives /\ l.sealed = c.sealed /\ l.stored = c.manifest
             /\ l.form = c.form /\ l.unsaved = u
             /\ l.text = (IF c.sealed THEN Empty ELSE c.text)
BY WebValues DEF Buffers, Containers, Lives

\* A document that was replaced is as it was for whoever compares it, and what
\* attests its sections as good as before.
LEMMA FreshlyBuffered ==
  ASSUME NEW c \in Containers, NEW u \in BOOLEAN
  PROVE  AttestationHolds(Rebased(c, [Buffers(c) EXCEPT !.unsaved = u]))
           <=> AttestationHolds(c)
<1> DEFINE l == [Buffers(c) EXCEPT !.unsaved = u]
<1>1. /\ l \in Lives /\ l.sealed = c.sealed /\ l.form = c.form
      /\ l.text = (IF c.sealed THEN Empty ELSE c.text)
  BY BuffersAre
<1> HIDE DEF l
<1> DEFINE d == Rebased(c, l)
<1>2. /\ d \in Containers /\ d.claim = c.claim
      /\ d.text = (IF l.sealed THEN c.text ELSE Canonical[l.text])
      /\ d.form = (IF l.form = None THEN c.form ELSE Canonical[l.form])
  BY <1>1, RebasedIs
<1> HIDE DEF d
<1>3. d.text = c.text \/ d.text = Canonical[c.text]
  BY <1>1, <1>2
<1>4. d.form = c.form \/ (c.form # None /\ d.form = Canonical[c.form])
  BY <1>1, <1>2
<1>5. AttestationHolds(c) <=> AttestationHolds(d)
  BY <1>2, <1>3, <1>4, AttestationIs
<1> QED BY <1>5 DEF d, l

-----------------------------------------------------------------------------
(* What is awaited.                                                        *)

\* t, of a store with baseline b, working container w and history g, which has
\* changes to lose or not (risk).
FitTo(t, b, w, g, risk) ==
  /\ t.kind \in Leaving \union Ciphers \union {"drop", "convert"} => t.box # None
  /\ t.kind = "write" => t.to # None
  /\ t.kind \in Leaving \union Ciphers /\ t.here /\ ~g.crossed => t.box.doc = b.doc
  /\ t.kind \in Leaving /\ t.here /\ ~g.loose /\ ~g.overlap => Rest(t.box) = Rest(b)
  /\ t.kind \in {"open", "convert"} /\ risk => t.asked \/ t.late
  /\ t.kind \in Ciphers /\ t.here /\ ~t.late => Rest(t.box) = Rest(w)

Settled(ts) == \A i \in DOMAIN ts : ts[i].kind \notin Leaving

Less(ts, i) == SubSeq(ts, 1, i - 1) \o SubSeq(ts, i + 1, Len(ts))

LEMMA LessIs ==
  ASSUME NEW ts \in Seq(Tasks), NEW i \in DOMAIN ts
  PROVE  /\ Less(ts, i) \in Seq(Tasks) /\ Len(Less(ts, i)) = Len(ts) - 1
         /\ \A j \in DOMAIN Less(ts, i) : \E k \in DOMAIN ts \ {i} : Less(ts, i)[j] = ts[k]
         /\ \A k \in DOMAIN ts \ {i} : \E j \in DOMAIN Less(ts, i) : Less(ts, i)[j] = ts[k]
<1> DEFINE n == Len(ts)
           l == SubSeq(ts, 1, i - 1)
           r == SubSeq(ts, i + 1, n)
<1>1. n \in Nat /\ DOMAIN ts = 1..n /\ i \in 1..n
  BY LenProperties
<1>2. /\ l \in Seq(Tasks) /\ Len(l) = i - 1
      /\ \A j \in 1..(i - 1) : l[j] = ts[j]
  BY <1>1, SubSeqProperties
<1>3. /\ r \in Seq(Tasks) /\ Len(r) = n - i
      /\ \A j \in 1..(n - i) : r[j] = ts[i + j]
  BY <1>1, SubSeqProperties
<1> HIDE DEF l, r, n
<1>4. /\ l \o r \in Seq(Tasks) /\ Len(l \o r) = n - 1
      /\ \A j \in 1..(n - 1) : (l \o r)[j] = IF j < i THEN l[j] ELSE r[j - (i - 1)]
  <2>1. l \o r \in Seq(Tasks) /\ Len(l \o r) = Len(l) + Len(r)
    BY <1>2, <1>3, ConcatProperties
  <2>2. Len(l) + Len(r) = n - 1
    BY <1>1, <1>2, <1>3
  <2>3. \A j \in 1..(Len(l) + Len(r)) :
          (l \o r)[j] = IF j <= Len(l) THEN l[j] ELSE r[j - Len(l)]
    BY <1>2, <1>3, ConcatProperties
  <2>4. \A j \in 1..(n - 1) : j <= i - 1 <=> j < i
    BY <1>1
  <2>5. \A j \in 1..(n - 1) : (l \o r)[j] = IF j <= i - 1 THEN l[j] ELSE r[j - (i - 1)]
    BY <1>2, <2>2, <2>3, Zenon
  <2> QED BY <2>1, <2>2, <2>4, <2>5
<1>5. DOMAIN (l \o r) = 1..(n - 1)
  BY <1>4, LenProperties
<1>6. \A j \in 1..(n - 1) : (l \o r)[j] = IF j < i THEN ts[j] ELSE ts[j + 1]
  <2> SUFFICES ASSUME NEW j \in 1..(n - 1)
               PROVE  (l \o r)[j] = IF j < i THEN ts[j] ELSE ts[j + 1]
    OBVIOUS
  <2>1. CASE j < i
    <3>1. j \in 1..(i - 1)
      BY <1>1, <2>1
    <3> QED BY <1>2, <1>4, <2>1, <3>1
  <2>2. CASE ~(j < i)
    <3>1. j - (i - 1) \in 1..(n - i) /\ i + (j - (i - 1)) = j + 1
      BY <1>1, <2>2
    <3>2. r[j - (i - 1)] = ts[j + 1]
      BY <1>3, <3>1
    <3> QED BY <1>4, <2>2, <3>2
  <2> QED BY <2>1, <2>2
<1>7. \A j \in 1..(n - 1) : \E k \in 1..n \ {i} : (l \o r)[j] = ts[k]
  <2> SUFFICES ASSUME NEW j \in 1..(n - 1)
               PROVE  \E k \in 1..n \ {i} : (l \o r)[j] = ts[k]
    OBVIOUS
  <2>1. CASE j < i
    <3>1. j \in 1..n \ {i}
      BY <1>1, <2>1
    <3> QED BY <1>6, <2>1, <3>1
  <2>2. CASE ~(j < i)
    <3>1. j + 1 \in 1..n \ {i}
      BY <1>1, <2>2
    <3> QED BY <1>6, <2>2, <3>1
  <2> QED BY <2>1, <2>2
<1>8. \A k \in 1..n \ {i} : \E j \in 1..(n - 1) : (l \o r)[j] = ts[k]
  <2> SUFFICES ASSUME NEW k \in 1..n \ {i}
               PROVE  \E j \in 1..(n - 1) : (l \o r)[j] = ts[k]
    OBVIOUS
  <2>1. CASE k < i
    <3>1. k \in 1..(n - 1)
      BY <1>1, <2>1
    <3> QED BY <1>6, <2>1, <3>1
  <2>2. CASE ~(k < i)
    <3>1. k - 1 \in 1..(n - 1) /\ ~(k - 1 < i) /\ (k - 1) + 1 = k
      BY <1>1, <2>2
    <3> QED BY <1>6, <3>1
  <2> QED BY <2>1, <2>2
<1>9. Less(ts, i) = l \o r
  BY DEF Less, l, r, n
<1>10. Len(ts) = n
  BY DEF n
<1> DEFINE m == Less(ts, i)
<1> HIDE DEF m
<1>11. m = l \o r
  BY <1>9 DEF m
<1>12. m \in Seq(Tasks) /\ Len(m) = Len(ts) - 1 /\ DOMAIN m = 1..(n - 1)
  BY <1>4, <1>5, <1>10, <1>11
<1>13. DOMAIN ts = 1..n
  BY <1>1
<1>14. \A j \in DOMAIN m : \E k \in DOMAIN ts \ {i} : m[j] = ts[k]
  BY <1>7, <1>11, <1>12, <1>13, Zenon
<1>15. \A k \in DOMAIN ts \ {i} : \E j \in DOMAIN m : m[j] = ts[k]
  BY <1>8, <1>11, <1>12, <1>13, Zenon
<1> QED BY <1>12, <1>14, <1>15, Zenon DEF m

LEMMA LaterIs ==
  ASSUME NEW ts \in Seq(Tasks)
  PROVE  /\ Later(ts) \in Seq(Tasks) /\ Len(Later(ts)) = Len(ts)
         /\ DOMAIN Later(ts) = DOMAIN ts
         /\ \A i \in DOMAIN ts : Later(ts)[i] = [ts[i] EXCEPT !.late = TRUE]
         /\ Settled(Later(ts)) <=> Settled(ts)
<1>1. Len(ts) \in Nat /\ DOMAIN ts = 1..Len(ts) /\ \A i \in 1..Len(ts) : ts[i] \in Tasks
  BY LenProperties, ElementOfSeq
<1>2. \A i \in 1..Len(ts) : [ts[i] EXCEPT !.late = TRUE] \in Tasks
  BY <1>1 DEF Tasks
<1>3. \A i \in 1..Len(ts) : Later(ts)[i] \in Tasks
  BY <1>1, <1>2 DEF Later
<1>4. Later(ts) \in [1..Len(ts) -> Tasks]
  BY <1>1, <1>2 DEF Later
<1>5. /\ Later(ts) \in Seq(Tasks) /\ Len(Later(ts)) = Len(ts)
      /\ DOMAIN Later(ts) = DOMAIN ts
      /\ \A i \in DOMAIN ts : Later(ts)[i] = [ts[i] EXCEPT !.late = TRUE]
  BY <1>1, <1>4, SeqDef, LenProperties DEF Later
<1>6. \A t \in Tasks : [t EXCEPT !.late = TRUE].kind = t.kind
  BY DEF Tasks
<1>7. \A i \in DOMAIN ts : Later(ts)[i].kind = ts[i].kind
  BY <1>1, <1>5, <1>6
<1>8. Settled(Later(ts)) <=> Settled(ts)
  BY <1>5, <1>7 DEF Settled
<1> QED BY <1>5, <1>8

LEMMA ElsewhereIs ==
  ASSUME NEW t \in Tasks
  PROVE  Elsewhere(t) \in Tasks /\ Elsewhere(t).kind = t.kind
BY DEF Elsewhere, Tasks

\* What becomes of a task when the store changes under it, when the document is
\* replaced, and when neither happens.
LEMMA LateFits ==
  ASSUME NEW t \in Tasks, NEW b, NEW w, NEW g, NEW risk, FitTo(t, b, w, g, risk),
         NEW b2, NEW w2, NEW g2, NEW risk2,
         ~g2.crossed => ~g.crossed /\ b2.doc = b.doc,
         ~g2.loose /\ ~g2.overlap => ~g.loose /\ ~g.overlap /\ Rest(b2) = Rest(b)
  PROVE  FitTo([t EXCEPT !.late = TRUE], b2, w2, g2, risk2)
<1> DEFINE u == [t EXCEPT !.late = TRUE]
<1>1. /\ u.kind = t.kind /\ u.to = t.to /\ u.box = t.box /\ u.asked = t.asked
      /\ u.late /\ u.here = t.here
  BY DEF Tasks
<1> HIDE DEF u
<1>2. FitTo(u, b2, w2, g2, risk2)
  BY <1>1 DEF FitTo
<1> QED BY <1>2 DEF u

LEMMA ElsewhereFits ==
  ASSUME NEW t \in Tasks, NEW b, NEW w, NEW g, NEW risk, FitTo(t, b, w, g, risk),
         NEW b2, NEW w2, NEW g2, NEW risk2
  PROVE  FitTo(Elsewhere(t), b2, w2, g2, risk2)
<1> DEFINE u == Elsewhere(t)
<1>1. /\ u.kind = t.kind /\ u.to = t.to /\ u.box = t.box /\ u.asked = t.asked
      /\ u.late /\ ~u.here
  BY DEF Tasks, Elsewhere
<1> HIDE DEF u
<1>2. FitTo(u, b2, w2, g2, risk2)
  BY <1>1 DEF FitTo
<1> QED BY <1>2 DEF u

LEMMA StillFits ==
  ASSUME NEW t \in Tasks, NEW b, NEW w, NEW g, NEW risk, FitTo(t, b, w, g, risk),
         NEW b2, NEW w2, NEW g2, NEW risk2,
         ~g2.crossed => ~g.crossed /\ b2.doc = b.doc,
         t.kind \in Leaving /\ ~g2.loose /\ ~g2.overlap =>
           ~g.loose /\ ~g.overlap /\ Rest(b2) = Rest(b),
         risk2 => risk,
         Rest(w2) = Rest(w)
  PROVE  FitTo(t, b2, w2, g2, risk2)
BY DEF FitTo

-----------------------------------------------------------------------------
(* The invariant.                                                          *)

\* What is awaited fits the store.  An import whose report is shown is one more.
TasksFit ==
  /\ \A i \in DOMAIN tasks :
       FitTo(tasks[i], base, Rebased(base, live), ghost, Risky(base, live))
  /\ waiting # None =>
       /\ waiting.kind = "convert"
       /\ FitTo(waiting, base, Rebased(base, live), ghost, Risky(base, live))

\* With nothing on its way out, the baseline is what was last read or written.
OutIsBase ==
  ~ghost.loose /\ ~ghost.overlap /\ ~ghost.crossed /\ ~live.unsaved /\ Settled(tasks)
    => ghost.out # None /\ Rest(ghost.out) = Rest(base)

Inv == TypeOK /\ TasksFit /\ OutIsBase /\ HandleIsThisDocument /\ StaysOpenable

LEMMA StoreIs == Working = Rebased(base, live) /\ (AtRisk <=> Risky(base, live))
BY DEF Working, Rebased, AtRisk, Risky

LEMMA StoreWillBe == Working' = Rebased(base', live') /\ (AtRisk' <=> Risky(base', live'))
BY DEF Working, Rebased, AtRisk, Risky

\* The tasks, all of them, as the store changes under them, as the document is
\* replaced, and as one of them ends or is added.
LEMMA AllLater ==
  ASSUME NEW ts \in Seq(Tasks), NEW b, NEW w, NEW g, NEW risk,
         \A i \in DOMAIN ts : FitTo(ts[i], b, w, g, risk),
         NEW b2, NEW w2, NEW g2, NEW risk2,
         ~g2.crossed => ~g.crossed /\ b2.doc = b.doc,
         ~g2.loose /\ ~g2.overlap => ~g.loose /\ ~g.overlap /\ Rest(b2) = Rest(b)
  PROVE  \A i \in DOMAIN Later(ts) : FitTo(Later(ts)[i], b2, w2, g2, risk2)
<1> SUFFICES ASSUME NEW i \in DOMAIN Later(ts)
             PROVE  FitTo(Later(ts)[i], b2, w2, g2, risk2)
  OBVIOUS
<1>1. i \in DOMAIN ts /\ Later(ts)[i] = [ts[i] EXCEPT !.late = TRUE]
  BY LaterIs
<1>2. ts[i] \in Tasks /\ FitTo(ts[i], b, w, g, risk)
  BY <1>1, ElementOfSeq, LenProperties
<1> QED BY <1>1, <1>2, LateFits

LEMMA AllBehind ==
  ASSUME NEW ts \in Seq(Tasks), NEW b, NEW w, NEW g, NEW risk,
         \A i \in DOMAIN ts : FitTo(ts[i], b, w, g, risk),
         NEW b2, NEW w2, NEW g2, NEW risk2
  PROVE  /\ Behind(ts) \in Seq(Tasks) /\ Len(Behind(ts)) = Len(ts)
         /\ \A i \in DOMAIN Behind(ts) : FitTo(Behind(ts)[i], b2, w2, g2, risk2)
<1>1. Len(ts) \in Nat /\ DOMAIN ts = 1..Len(ts) /\ \A i \in 1..Len(ts) : ts[i] \in Tasks
  BY LenProperties, ElementOfSeq
<1>3. \A i \in 1..Len(ts) : Elsewhere(ts[i]) \in Tasks
  BY <1>1, ElsewhereIs
<1>4. /\ Behind(ts) \in [1..Len(ts) -> Tasks]
      /\ \A i \in 1..Len(ts) : Behind(ts)[i] = Elsewhere(ts[i])
  BY <1>1, <1>3 DEF Behind
<1>5. Behind(ts) \in Seq(Tasks) /\ Len(Behind(ts)) = Len(ts)
  BY <1>1, <1>4, SeqDef, LenProperties
<1>6. DOMAIN Behind(ts) = 1..Len(ts)
  BY <1>4
<1>7. \A i \in 1..Len(ts) : FitTo(Elsewhere(ts[i]), b2, w2, g2, risk2)
  BY <1>1, ElsewhereFits
<1> QED BY <1>4, <1>5, <1>6, <1>7

LEMMA AllStill ==
  ASSUME NEW ts \in Seq(Tasks), NEW b, NEW w, NEW g, NEW risk,
         \A i \in DOMAIN ts : FitTo(ts[i], b, w, g, risk),
         NEW b2, NEW w2, NEW g2, NEW risk2,
         ~g2.crossed => ~g.crossed /\ b2.doc = b.doc,
         ~Settled(ts) /\ ~g2.loose /\ ~g2.overlap =>
           ~g.loose /\ ~g.overlap /\ Rest(b2) = Rest(b),
         risk2 => risk,
         Rest(w2) = Rest(w)
  PROVE  \A i \in DOMAIN ts : FitTo(ts[i], b2, w2, g2, risk2)
<1> SUFFICES ASSUME NEW i \in DOMAIN ts
             PROVE  FitTo(ts[i], b2, w2, g2, risk2)
  OBVIOUS
<1>1. ts[i] \in Tasks /\ FitTo(ts[i], b, w, g, risk)
  BY ElementOfSeq, LenProperties
<1>2. ts[i].kind \in Leaving => ~Settled(ts)
  BY DEF Settled
<1> QED BY <1>1, <1>2, StillFits

LEMMA AllLess ==
  ASSUME NEW ts \in Seq(Tasks), NEW i \in DOMAIN ts, NEW b, NEW w, NEW g, NEW risk,
         \A j \in DOMAIN ts : FitTo(ts[j], b, w, g, risk)
  PROVE  /\ \A j \in DOMAIN Less(ts, i) : FitTo(Less(ts, i)[j], b, w, g, risk)
         /\ Settled(ts) => Settled(Less(ts, i))
         /\ Settled(Less(ts, i)) /\ ts[i].kind \notin Leaving => Settled(ts)
<1> DEFINE l == Less(ts, i)
<1>1. /\ \A j \in DOMAIN l : \E k \in DOMAIN ts \ {i} : l[j] = ts[k]
      /\ \A k \in DOMAIN ts \ {i} : \E j \in DOMAIN l : l[j] = ts[k]
  BY LessIs
<1> HIDE DEF l
<1>2. \A j \in DOMAIN l : FitTo(l[j], b, w, g, risk)
  BY <1>1, Zenon
<1>3. Settled(ts) => Settled(l)
  BY <1>1 DEF Settled
<1>4. Settled(l) /\ ts[i].kind \notin Leaving => Settled(ts)
  BY <1>1 DEF Settled
<1> QED BY <1>2, <1>3, <1>4 DEF l

LEMMA AllMore ==
  ASSUME NEW ts \in Seq(Tasks), NEW t \in Tasks, NEW b, NEW w, NEW g, NEW risk,
         \A j \in DOMAIN ts : FitTo(ts[j], b, w, g, risk),
         FitTo(t, b, w, g, risk)
  PROVE  /\ Append(ts, t) \in Seq(Tasks) /\ Len(Append(ts, t)) = Len(ts) + 1
         /\ \A j \in DOMAIN Append(ts, t) : FitTo(Append(ts, t)[j], b, w, g, risk)
         /\ Settled(Append(ts, t)) <=> Settled(ts) /\ t.kind \notin Leaving
<1> DEFINE n == Len(ts)
           a == Append(ts, t)
<1>1. n \in Nat /\ DOMAIN ts = 1..n
  BY LenProperties
<1>2. /\ a \in Seq(Tasks) /\ Len(a) = n + 1 /\ a[n + 1] = t
      /\ \A j \in 1..n : a[j] = ts[j]
  BY AppendProperties
<1>3. DOMAIN a = 1..(n + 1)
  BY <1>2, LenProperties
<1> HIDE DEF n, a
<1>4. 1..(n + 1) = (1..n) \union {n + 1}
  BY <1>1
<1>5. \A j \in DOMAIN a : FitTo(a[j], b, w, g, risk)
  BY <1>1, <1>2, <1>3, <1>4
<1>6. Settled(a) <=> Settled(ts) /\ t.kind \notin Leaving
  BY <1>1, <1>2, <1>3, <1>4 DEF Settled
<1> QED BY <1>2, <1>5, <1>6 DEF n, a

-----------------------------------------------------------------------------
(* The invariant holds at first, and every step keeps it.                  *)

LEMMA InitInv == Init => Inv
<1> SUFFICES ASSUME Init PROVE Inv
  OBVIOUS
<1> USE DEF Init
<1>0. Fresh \in Containers /\ Disk \in [Files -> Containers] /\ Fresh # None
  BY WebContainers
<1> DEFINE l == Buffers(Fresh)
<1>1. /\ l \in Lives /\ l.sealed = Fresh.sealed
      /\ l.stored = Fresh.manifest /\ l.form = Fresh.form /\ l.unsaved = FALSE
  BY <1>0, WebValues DEF Buffers, Containers, Lives
<1> HIDE DEF l
<1>c. l = [l EXCEPT !.unsaved = FALSE]
  BY <1>1 DEF Lives
<1>2. Buffers(Fresh) = [Buffers(Fresh) EXCEPT !.unsaved = FALSE]
  BY <1>c DEF l
<1>d. live = l
  BY DEF l
<1>3. ghost \in Ghosts
  BY <1>0, WebBounds DEF Ghosts
<1>a. tasks \in Seq(Tasks) /\ Len(tasks) = 0 /\ DOMAIN tasks = {}
  BY EmptySeq
<1>b. inputs \in 0..MaxInputs /\ steps \in 0..MaxSteps /\ Len(tasks) <= MaxTasks
  BY <1>a, WebBounds
<1>4. TypeOK
  BY <1>0, <1>1, <1>3, <1>a, <1>b, <1>d DEF TypeOK
<1>5. TasksFit
  BY DEF TasksFit
<1>6. OutIsBase /\ HandleIsThisDocument
  BY WebContainers DEF OutIsBase, HandleIsThisDocument
<1>7. StaysOpenable
  <2>1. AttestationHolds(Rebased(Fresh, Buffers(Fresh))) <=> AttestationHolds(Fresh)
    BY <1>2, FreshlyBuffered, WebContainers
  <2>2. ~ghost.reformed /\ base.sealed => AttestationHolds(Fresh)
    BY WebContainers
  <2> QED BY <2>1, <2>2, StoreIs DEF StaysOpenable
<1> QED BY <1>4, <1>5, <1>6, <1>7 DEF Inv

LEMMA InputKeeps ==
  ASSUME Inv, Input, live' \in Lives,
         live'.sealed = live.sealed, live'.stored = live.stored,
         live'.unsaved = live.unsaved,
         ghost' \in Ghosts, ghost'.loose = ghost.loose, ghost'.overlap = ghost.overlap,
         ghost'.crossed = ghost.crossed, ghost'.out = ghost.out,
         base.sealed => ghost'.reformed
  PROVE  Inv'
<1> USE DEF Inv
<1>1. /\ base' = base /\ handle' = handle /\ files' = files /\ waiting' = None
      /\ tasks' = Later(tasks) /\ waiting = None
      /\ inputs' = inputs + 1 /\ inputs < MaxInputs /\ steps' = steps + 1 /\ steps < MaxSteps
  BY DEF Input, Step
<1>2. /\ tasks \in Seq(Tasks) /\ tasks' \in Seq(Tasks) /\ Len(tasks') = Len(tasks)
      /\ DOMAIN tasks' = DOMAIN tasks
      /\ \A i \in DOMAIN tasks : tasks'[i] = [tasks[i] EXCEPT !.late = TRUE]
  BY <1>1, LaterIs DEF TypeOK
<1>3. inputs' \in 0..MaxInputs /\ steps' \in 0..MaxSteps
  BY <1>1, WebBounds DEF TypeOK
<1>4. TypeOK'
  BY <1>1, <1>2, <1>3 DEF TypeOK
<1>5. TasksFit'
  <2>1. \A i \in DOMAIN Later(tasks) :
          FitTo(Later(tasks)[i], base, Rebased(base, live'), ghost', Risky(base, live'))
    BY <1>2, AllLater DEF TasksFit
  <2> QED BY <1>1, <2>1 DEF TasksFit
<1>6. OutIsBase'
  <2>2. Settled(tasks') => Settled(tasks)
    BY <1>1, <1>2, LaterIs
  <2> QED BY <1>1, <2>2 DEF OutIsBase
<1>7. HandleIsThisDocument' /\ StaysOpenable'
  BY <1>1 DEF HandleIsThisDocument, StaysOpenable
<1> QED BY <1>4, <1>5, <1>6, <1>7

LEMMA InputInv ==
  ASSUME Inv, (\E t \in Typeable : Type(t)) \/ (\E f \in Fillable : Fill(f)) \/ AddSchema
  PROVE  Inv'
<1>1. /\ live \in Lives /\ ghost \in Ghosts /\ live.sealed = base.sealed
  BY DEF Inv, TypeOK
<1>2. CASE \E t \in Typeable : Type(t)
  <2>1. PICK t \in Typeable : Type(t)
    BY <1>2
  <2>2. /\ live' \in Lives /\ live'.sealed = live.sealed /\ live'.stored = live.stored
        /\ live'.unsaved = live.unsaved
    BY <1>1, <2>1, WebValues DEF Type, Lives
  <2>3. ghost' = ghost /\ Input /\ ~base.sealed
    BY <1>1, <2>1 DEF Type
  <2> QED BY <1>1, <2>2, <2>3, InputKeeps
<1>3. CASE (\E f \in Fillable : Fill(f)) \/ AddSchema
  <2>1. PICK f \in Forms : /\ Input /\ live' = [live EXCEPT !.form = f]
                            /\ ghost' = [ghost EXCEPT !.reformed = @ \/ live.sealed]
    BY <1>3, WebValues DEF Fill, AddSchema
  <2>2. /\ live' \in Lives /\ live'.sealed = live.sealed /\ live'.stored = live.stored
        /\ live'.unsaved = live.unsaved
    BY <1>1, <2>1 DEF Lives
  <2> DEFINE r == ghost.reformed \/ live.sealed
  <2>3. r \in BOOLEAN
    OBVIOUS
  <2>4. ghost' = [ghost EXCEPT !.reformed = r]
    BY <2>1, <1>1 DEF Ghosts
  <2>5. live.sealed => r = TRUE
    BY <1>1 DEF Lives
  <2> HIDE DEF r
  <2>6. /\ ghost' \in Ghosts /\ ghost'.loose = ghost.loose /\ ghost'.overlap = ghost.overlap
        /\ ghost'.crossed = ghost.crossed /\ ghost'.out = ghost.out
        /\ ghost'.reformed = r
    BY <1>1, <2>3, <2>4 DEF Ghosts
  <2> QED BY <1>1, <2>1, <2>2, <2>5, <2>6, InputKeeps
<1> QED BY <1>2, <1>3

\* The document is replaced by c, and of what was awaited ts goes on.
LEMMA ReplaceKeeps ==
  ASSUME Inv, NEW c \in Containers, NEW u \in BOOLEAN, NEW asked \in BOOLEAN,
         NEW out \in Containers \union {None}, ~u => out = c,
         Replace(c, u, asked, out),
         NEW ts \in Seq(Tasks), Len(ts) <= MaxTasks,
         \A i \in DOMAIN ts :
           FitTo(ts[i], base, Rebased(base, live), ghost, Risky(base, live)),
         tasks' = Behind(ts),
         waiting' = None \/ (waiting # None /\ waiting' = Elsewhere(waiting)),
         files' = files,
         handle' = None \/ (handle' \in Files /\ files[handle'] = c),
         inputs' = inputs, steps' \in 0..MaxSteps
  PROVE  Inv'
<1> USE DEF Inv
<1> DEFINE l == [Buffers(c) EXCEPT !.unsaved = u]
           r == ~AttestationHolds(c)
<1>1. /\ base' = c /\ live' = l
      /\ ghost' = [ghost EXCEPT !.turn = ~@, !.consent = asked, !.out = out, !.loose = FALSE,
                                !.late = FALSE, !.crossed = FALSE, !.overlap = FALSE,
                                !.reformed = r]
  BY DEF Replace
<1>2. r \in BOOLEAN
  OBVIOUS
<1>3. /\ l \in Lives /\ l.sealed = c.sealed /\ l.stored = c.manifest /\ l.unsaved = u
  BY BuffersAre
<1>4. AttestationHolds(Rebased(c, l)) <=> AttestationHolds(c)
  BY FreshlyBuffered
<1>r. r <=> ~AttestationHolds(c)
  OBVIOUS
<1> HIDE DEF l, r
<1>5. /\ ghost' \in Ghosts /\ ghost'.out = out /\ ghost'.reformed = r
  <2> DEFINE v == ~ghost.turn
  <2>1. ghost \in Ghosts /\ v \in BOOLEAN
    BY DEF TypeOK
  <2>2. ghost' = [ghost EXCEPT !.turn = v, !.consent = asked, !.out = out, !.loose = FALSE,
                              !.late = FALSE, !.crossed = FALSE, !.overlap = FALSE,
                              !.reformed = r]
    BY <1>1, <2>1 DEF Ghosts
  <2> HIDE DEF v
  <2> DEFINE g == [ghost EXCEPT !.turn = v, !.consent = asked, !.out = out, !.loose = FALSE]
             h == [g EXCEPT !.late = FALSE, !.crossed = FALSE, !.overlap = FALSE]
  <2>3. g \in Ghosts /\ g.out = out
    BY <2>1 DEF Ghosts
  <2>4. ghost' = [h EXCEPT !.reformed = r]
    BY <2>2
  <2> HIDE DEF g
  <2>5. h \in Ghosts /\ h.out = out
    BY <2>3 DEF Ghosts
  <2> HIDE DEF h
  <2> QED BY <1>2, <2>4, <2>5 DEF Ghosts
<1>6. /\ tasks' \in Seq(Tasks) /\ Len(tasks') = Len(ts)
      /\ \A i \in DOMAIN tasks' :
           FitTo(tasks'[i], base', Rebased(base', live'), ghost', Risky(base', live'))
  BY AllBehind
<1>7. /\ waiting' \in Tasks \union {None}
      /\ waiting' # None =>
           /\ waiting'.kind = "convert"
           /\ FitTo(waiting', base', Rebased(base', live'), ghost', Risky(base', live'))
  <2>1. CASE waiting' = None
    BY <2>1
  <2>2. CASE waiting # None /\ waiting' = Elsewhere(waiting)
    <3>1. waiting \in Tasks /\ waiting.kind = "convert"
          /\ FitTo(waiting, base, Rebased(base, live), ghost, Risky(base, live))
      BY <2>2 DEF TypeOK, TasksFit
    <3>2. waiting' \in Tasks /\ waiting'.kind = "convert"
      BY <2>2, <3>1, ElsewhereIs
    <3> QED BY <2>2, <3>1, <3>2, ElsewhereFits
  <2> QED BY <2>1, <2>2
<1>8. TypeOK'
  BY <1>1, <1>3, <1>5, <1>6, <1>7 DEF TypeOK
<1>9. TasksFit'
  BY <1>6, <1>7 DEF TasksFit
<1>10. OutIsBase'
  BY <1>1, <1>3, <1>5, WebContainers DEF OutIsBase
<1>11. HandleIsThisDocument'
  BY <1>1 DEF HandleIsThisDocument
<1>12. StaysOpenable'
  BY <1>1, <1>4, <1>5, <1>r, StoreWillBe DEF StaysOpenable
<1> QED BY <1>8, <1>9, <1>10, <1>11, <1>12

\* The store as it was: a task ends, or is started.
LEMMA EndKeeps ==
  ASSUME Inv, NEW i \in DOMAIN tasks, tasks[i].kind \notin Leaving,
         tasks' = Without(i),
         waiting' = waiting \/ (tasks[i].kind = "convert" /\ waiting' = tasks[i]),
         UNCHANGED <<base, live, handle, files, ghost, inputs, steps>>
  PROVE  Inv'
<1> USE DEF Inv
<1>1. /\ base' = base /\ live' = live /\ handle' = handle /\ files' = files /\ ghost' = ghost
      /\ inputs' = inputs /\ steps' = steps /\ tasks' = Less(tasks, i)
  BY DEF Without, Less
<1>2. /\ tasks \in Seq(Tasks) /\ tasks[i] \in Tasks /\ Len(tasks) \in Nat
      /\ FitTo(tasks[i], base, Rebased(base, live), ghost, Risky(base, live))
  BY ElementOfSeq, LenProperties DEF TypeOK, TasksFit
<1>3. tasks' \in Seq(Tasks) /\ Len(tasks') = Len(tasks) - 1
  BY <1>1, <1>2, LessIs
<1>4. /\ \A j \in DOMAIN tasks' :
           FitTo(tasks'[j], base, Rebased(base, live), ghost, Risky(base, live))
      /\ Settled(tasks') => Settled(tasks)
  BY <1>1, <1>2, AllLess DEF TasksFit
<1>5. Len(tasks') <= MaxTasks
  <2> DEFINE n == Len(tasks)
  <2>1. n \in Nat /\ n <= MaxTasks /\ Len(tasks') = n - 1 /\ MaxTasks \in Nat
    BY <1>2, <1>3, WebBounds DEF TypeOK
  <2> HIDE DEF n
  <2> QED BY <2>1
<1>6. TypeOK'
  BY <1>1, <1>2, <1>3, <1>5 DEF TypeOK
<1>7. TasksFit'
  BY <1>1, <1>2, <1>4 DEF TasksFit
<1>8. OutIsBase'
  BY <1>1, <1>4 DEF OutIsBase
<1>9. HandleIsThisDocument' /\ StaysOpenable'
  BY <1>1, StoreIs, StoreWillBe DEF HandleIsThisDocument, StaysOpenable
<1> QED BY <1>6, <1>7, <1>8, <1>9

LEMMA StartKeeps ==
  ASSUME Inv, NEW t \in Tasks, t.kind \notin Leaving, Start(t),
         FitTo(t, base, Rebased(base, live), ghost, Risky(base, live)),
         NEW n \in 0..MaxSeals, ghost' = [ghost EXCEPT !.seals = n],
         UNCHANGED <<base, live, handle, files, waiting, inputs>>, steps' \in 0..MaxSteps
  PROVE  Inv'
<1> USE DEF Inv
<1>1. /\ base' = base /\ live' = live /\ handle' = handle /\ files' = files
      /\ waiting' = waiting /\ inputs' = inputs
      /\ tasks' = Append(tasks, t) /\ Len(tasks) < MaxTasks /\ tasks \in Seq(Tasks)
  BY DEF Start, TypeOK
<1>2. /\ ghost' \in Ghosts /\ ghost'.loose = ghost.loose /\ ghost'.overlap = ghost.overlap
      /\ ghost'.crossed = ghost.crossed /\ ghost'.out = ghost.out
      /\ ghost'.reformed = ghost.reformed
  BY DEF TypeOK, Ghosts
<1>3. /\ tasks' \in Seq(Tasks) /\ Len(tasks') = Len(tasks) + 1
      /\ \A j \in DOMAIN tasks' :
           FitTo(tasks'[j], base, Rebased(base, live), ghost, Risky(base, live))
      /\ Settled(tasks') => Settled(tasks)
  BY <1>1, AllMore DEF TasksFit
<1>4. \A u : FitTo(u, base, Rebased(base, live), ghost, Risky(base, live))
              => FitTo(u, base, Rebased(base, live), ghost', Risky(base, live))
  BY <1>2 DEF FitTo
<1>5. Len(tasks') <= MaxTasks
  BY <1>1, <1>3, LenProperties, WebBounds
<1>6. TypeOK'
  BY <1>1, <1>2, <1>3, <1>5 DEF TypeOK
<1>7. TasksFit'
  BY <1>1, <1>3, <1>4 DEF TasksFit
<1>8. OutIsBase'
  BY <1>1, <1>2, <1>3 DEF OutIsBase
<1>9. HandleIsThisDocument' /\ StaysOpenable'
  BY <1>1, <1>2, StoreIs, StoreWillBe DEF HandleIsThisDocument, StaysOpenable
<1> QED BY <1>6, <1>7, <1>8, <1>9

\* The store after the working container became its baseline, edited or not.
LEMMA RebasedAgain ==
  ASSUME NEW b \in Containers, NEW l \in Lives, l.sealed = b.sealed,
         NEW b2 \in Containers, NEW l2 \in Lives,
         b2.text = Rebased(b, l).text, b2.form = Rebased(b, l).form,
         l2.text = l.text, l2.form = l.form, l2.sealed = l.sealed
  PROVE  /\ Rebased(b2, l2).text = b2.text /\ Rebased(b2, l2).form = b2.form
         /\ Risky(b2, l2) => l2.unsaved
<1> DEFINE w == Rebased(b, l)
           v == Rebased(b2, l2)
<1>1. /\ w.text = (IF l.sealed THEN b.text ELSE Canonical[l.text])
      /\ w.form = (IF l.form = None THEN b.form ELSE Canonical[l.form])
      /\ v.text = (IF l2.sealed THEN b2.text ELSE Canonical[l2.text])
      /\ v.form = (IF l2.form = None THEN b2.form ELSE Canonical[l2.form])
      /\ b2.text = w.text /\ b2.form = w.form
  BY RebasedIs
<1>2. l.form # None => Canonical[l.form] # None
  BY WebValues DEF Lives
<1> HIDE DEF w, v
<1>3. v.text = b2.text /\ v.form = b2.form
  BY <1>1
<1>4. Risky(b2, l2) => l2.unsaved
  BY <1>1, <1>2 DEF Risky
<1> QED BY <1>3, <1>4 DEF v

\* A panel's edit, an attachment or what a cipher made becomes the baseline.
LEMMA EditKeeps ==
  ASSUME Inv, NEW c \in Containers, base' = c,
         live' \in Lives, live'.sealed = c.sealed, live'.stored = c.manifest,
         NEW ts \in Seq(Tasks), Len(ts) <= MaxTasks,
         \A i \in DOMAIN ts :
           FitTo(ts[i], base, Rebased(base, live), ghost, Risky(base, live)),
         tasks' = Later(ts),
         waiting' = IF waiting = None THEN None ELSE [waiting EXCEPT !.late = TRUE],
         ghost' \in Ghosts, ghost'.loose,
         ~ghost'.crossed => ~ghost.crossed /\ c.doc = base.doc,
         c.sealed /\ ~ghost'.reformed /\ ~ghost'.crossed =>
           AttestationHolds(Rebased(c, live')),
         UNCHANGED <<handle, files, inputs>>, steps' \in 0..MaxSteps
  PROVE  Inv'
<1> USE DEF Inv
<1>1. base' = c /\ handle' = handle /\ files' = files /\ inputs' = inputs
  OBVIOUS
<1>2. /\ tasks' \in Seq(Tasks) /\ Len(tasks') = Len(ts)
      /\ \A i \in DOMAIN tasks' :
           FitTo(tasks'[i], base', Rebased(base', live'), ghost', Risky(base', live'))
  <2>1. \A i \in DOMAIN Later(ts) :
           FitTo(Later(ts)[i], base', Rebased(base', live'), ghost', Risky(base', live'))
    BY AllLater
  <2> QED BY <2>1, LaterIs
<1>3. /\ waiting' \in Tasks \union {None}
      /\ waiting' # None =>
           /\ waiting'.kind = "convert"
           /\ FitTo(waiting', base', Rebased(base', live'), ghost', Risky(base', live'))
  <2>1. CASE waiting = None
    BY <2>1
  <2>2. CASE waiting # None
    <3>1. waiting \in Tasks /\ waiting.kind = "convert"
          /\ FitTo(waiting, base, Rebased(base, live), ghost, Risky(base, live))
          /\ waiting' = [waiting EXCEPT !.late = TRUE]
      BY <2>2 DEF TypeOK, TasksFit
    <3>2. waiting' \in Tasks /\ waiting'.kind = "convert"
      BY <3>1 DEF Tasks
    <3>3. FitTo([waiting EXCEPT !.late = TRUE], base', Rebased(base', live'), ghost',
                Risky(base', live'))
      BY <3>1, LateFits
    <3> QED BY <3>1, <3>2, <3>3
  <2> QED BY <2>1, <2>2
<1>4. TypeOK'
  BY <1>1, <1>2, <1>3 DEF TypeOK
<1>5. TasksFit'
  BY <1>2, <1>3 DEF TasksFit
<1>6. OutIsBase'
  BY DEF OutIsBase
<1>7. HandleIsThisDocument'
  BY <1>1 DEF HandleIsThisDocument
<1>8. StaysOpenable'
  BY <1>1, StoreWillBe DEF StaysOpenable
<1> QED BY <1>4, <1>5, <1>6, <1>7, <1>8

LEMMA PanelKeeps ==
  ASSUME Inv, NEW c \in Containers, PanelEdit(c),
         c.text = Working.text, c.form = Working.form, c.doc = base.doc,
         c.sealed = base.sealed, c.claim = base.claim,
         live' = [live EXCEPT !.stored = c.manifest]
  PROVE  Inv'
<1>1. /\ base \in Containers /\ live \in Lives /\ ghost \in Ghosts /\ live.sealed = base.sealed
      /\ tasks \in Seq(Tasks) /\ Len(tasks) <= MaxTasks /\ c.manifest \in Listings \union {None}
      /\ \A i \in DOMAIN tasks :
           FitTo(tasks[i], base, Rebased(base, live), ghost, Risky(base, live))
      /\ steps \in 0..MaxSteps
  BY DEF Inv, TypeOK, TasksFit, Containers
<1>2. /\ base' = c /\ tasks' = Later(tasks) /\ waiting = None /\ waiting' = None
      /\ ghost' = [ghost EXCEPT !.loose = TRUE]
      /\ UNCHANGED <<handle, files, inputs>>
      /\ steps < MaxSteps /\ steps' = steps + 1
  BY DEF PanelEdit, AtPanel, Step, Adopt
<1>3. /\ live' \in Lives /\ live'.text = live.text /\ live'.form = live.form
      /\ live'.sealed = live.sealed /\ live'.stored = c.manifest
  BY <1>1 DEF Lives
<1>4. /\ ghost' \in Ghosts /\ ghost'.loose /\ ghost'.crossed = ghost.crossed
      /\ ghost'.reformed = ghost.reformed
  BY <1>1, <1>2 DEF Ghosts
<1>5. /\ Rebased(c, live') \in Containers /\ Rebased(c, live').claim = base.claim
      /\ Rebased(c, live').text = Working.text /\ Rebased(c, live').form = Working.form
  <2> DEFINE w == Rebased(base, live)
  <2>1. w = Working
    BY StoreIs
  <2> HIDE DEF w
  <2>2. c.text = w.text /\ c.form = w.form
    BY <2>1
  <2>3. c.text = Rebased(base, live).text /\ c.form = Rebased(base, live).form
    BY <2>2 DEF w
  <2>4. Rebased(c, live').text = c.text /\ Rebased(c, live').form = c.form
    <3>1. /\ base \in Containers /\ live \in Lives /\ live.sealed = base.sealed
          /\ live' \in Lives /\ live'.text = live.text /\ live'.form = live.form
          /\ live'.sealed = live.sealed
      BY <1>1, <1>3
    <3>2. \A l2 \in Lives :
            l2.text = live.text /\ l2.form = live.form /\ l2.sealed = live.sealed
              => Rebased(c, l2).text = c.text /\ Rebased(c, l2).form = c.form
      BY <2>3, <3>1, RebasedAgain
    <3> QED BY <3>1, <3>2, Zenon
  <2>5. Rebased(c, live') \in Containers /\ Rebased(c, live').claim = c.claim
    BY <1>3, RebasedIs
  <2> QED BY <2>4, <2>5
<1>6. AttestationHolds(Working) => AttestationHolds(Rebased(c, live'))
  BY <1>1, <1>5, AttestationIs, RebasedIs, StoreIs
<1>7. c.sealed /\ ~ghost'.reformed /\ ~ghost'.crossed => AttestationHolds(Rebased(c, live'))
  BY <1>4, <1>6 DEF Inv, StaysOpenable
<1>8. steps' \in 0..MaxSteps
  BY <1>1, <1>2, WebBounds
<1> QED BY <1>1, <1>2, <1>3, <1>4, <1>7, <1>8, EditKeeps

LEMMA WorkingIs ==
  ASSUME Inv
  PROVE  /\ Working \in Containers /\ Working.doc = base.doc /\ Working.sealed = base.sealed
         /\ Working.seal = base.seal /\ Working.claim = base.claim
         /\ Working.assets = base.assets /\ Working.log = base.log
         /\ Working.mark = base.mark /\ Working.manifest = base.manifest
         /\ Working.sig = base.sig
         /\ Working.text = (IF live.sealed THEN base.text ELSE Canonical[live.text])
         /\ Working.form = (IF live.form = None THEN base.form ELSE Canonical[live.form])
<1>1. base \in Containers /\ live \in Lives
  BY DEF Inv, TypeOK
<1> QED BY <1>1, RebasedIs, StoreIs

LEMMA PackedIs ==
  ASSUME Inv
  PROVE  /\ Packed \in Containers /\ Rest(Packed) = Rest(Working)
         /\ Packed.manifest = None <=> base.manifest = None
<1>1. /\ Working \in Containers /\ Working.manifest = base.manifest
      /\ live.stored = base.manifest
  BY WorkingIs DEF Inv, TypeOK
<1>2. /\ Rebuilt(Working) \in Containers /\ Rest(Rebuilt(Working)) = Rest(Working)
      /\ Rebuilt(Working).manifest # None
  BY <1>1, RebuiltIs, ListingIs
<1> QED BY <1>1, <1>2 DEF Packed, HasManifest

\* A save starts: what is packed is on its way, and the baseline.
LEMMA PackKeeps ==
  ASSUME Inv, Pack, NEW k \in Leaving, NEW to \in Files \union {None},
         k = "write" => to # None, Start(Task(k, to, Packed, FALSE)),
         UNCHANGED <<handle, files, waiting, inputs>>, steps' \in 0..MaxSteps
  PROVE  Inv'
<1> DEFINE p == Packed
           w == Rebased(base, live)
           t == Task(k, to, p, FALSE)
           o == ghost.overlap \/ \E i \in DOMAIN tasks : IsLeaving(tasks[i])
<1>1. /\ base \in Containers /\ live \in Lives /\ ghost \in Ghosts /\ live.sealed = base.sealed
      /\ tasks \in Seq(Tasks) /\ waiting \in Tasks \union {None}
      /\ \A i \in DOMAIN tasks : FitTo(tasks[i], base, w, ghost, Risky(base, live))
      /\ waiting # None => /\ waiting.kind = "convert"
                          /\ FitTo(waiting, base, w, ghost, Risky(base, live))
  BY DEF Inv, TypeOK, TasksFit
<1>2. /\ p \in Containers /\ w \in Containers /\ Rest(p) = Rest(w) /\ w = Working
  BY PackedIs, WorkingIs, StoreIs
<1>3. /\ base' = p /\ live' = [live EXCEPT !.stored = p.manifest, !.unsaved = FALSE]
      /\ ghost' = [ghost EXCEPT !.loose = FALSE, !.overlap = o]
      /\ tasks' = Append(tasks, t) /\ Len(tasks) < MaxTasks
      /\ handle' = handle /\ files' = files /\ waiting' = waiting /\ inputs' = inputs
  BY DEF Pack, Start
<1>4. o \in BOOLEAN
  BY <1>1 DEF Ghosts
<1>5. ~o => ~ghost.overlap /\ Settled(tasks)
  BY DEF Settled, IsLeaving
<1>6. t \in Tasks /\ t.kind = k /\ t.to = to /\ t.box = p /\ t.here /\ ~t.late
  BY <1>2 DEF Task, Tasks, Kinds, Leaving
<1> HIDE DEF p, w, t, o
<1>7. /\ p.doc = w.doc /\ p.text = w.text /\ p.form = w.form /\ p.sealed = w.sealed
      /\ p.claim = w.claim /\ p.manifest \in Listings \union {None} /\ p # None
  <2>1. p.manifest \in Listings \union {None}
    BY <1>2 DEF Containers
  <2> QED BY <1>2, <2>1, RestIs, WebContainers
<1>8. w.doc = base.doc /\ w.sealed = base.sealed /\ w.claim = base.claim
  BY <1>2, WorkingIs
<1>9. /\ live' \in Lives /\ live'.text = live.text /\ live'.form = live.form
      /\ live'.sealed = live.sealed /\ live'.stored = p.manifest /\ ~live'.unsaved
  BY <1>1, <1>3, <1>7 DEF Lives
<1>10. /\ ghost' \in Ghosts /\ ~ghost'.loose /\ ghost'.overlap = o
       /\ ghost'.crossed = ghost.crossed /\ ghost'.out = ghost.out
       /\ ghost'.reformed = ghost.reformed
  BY <1>1, <1>3, <1>4 DEF Ghosts
<1> DEFINE v == Rebased(p, live')
<1>11. /\ v \in Containers /\ Rest(v) = Rest(w) /\ ~Risky(p, live')
  <2>1. \A l2 \in Lives :
          l2.text = live.text /\ l2.form = live.form /\ l2.sealed = live.sealed
            => /\ Rebased(p, l2).text = p.text /\ Rebased(p, l2).form = p.form
               /\ Risky(p, l2) => l2.unsaved
    BY <1>1, <1>2, <1>7, RebasedAgain DEF w
  <2>2. v.text = p.text /\ v.form = p.form /\ ~Risky(p, live')
    BY <1>9, <2>1
  <2>3. /\ v \in Containers /\ v.doc = p.doc /\ v.sealed = p.sealed
        /\ v.seal = p.seal /\ v.claim = p.claim /\ v.assets = p.assets
        /\ v.log = p.log /\ v.mark = p.mark /\ v.sig = p.sig
    BY <1>2, <1>9, RebasedIs
  <2> HIDE DEF v
  <2>4. Rest(v) = Rest(p)
    BY <1>2, <2>2, <2>3, RestIs
  <2> QED BY <1>2, <2>2, <2>3, <2>4
<1> HIDE DEF v
<1>12. FitTo(t, p, v, ghost', Risky(p, live'))
  BY <1>6, <1>7, <1>11 DEF FitTo, Leaving, Ciphers
<1>13. \A i \in DOMAIN tasks : FitTo(tasks[i], p, v, ghost', Risky(p, live'))
  <2>1. ~ghost'.crossed => ~ghost.crossed /\ p.doc = base.doc
    BY <1>7, <1>8, <1>10
  <2>2. ~Settled(tasks) /\ ~ghost'.loose /\ ~ghost'.overlap =>
          ~ghost.loose /\ ~ghost.overlap /\ Rest(p) = Rest(base)
    BY <1>5, <1>10
  <2> DEFINE k2 == Risky(p, live')
             g2 == ghost'
  <2>3. ~k2 /\ (~g2.crossed => ~ghost.crossed /\ p.doc = base.doc)
    BY <1>11, <2>1
  <2>4. ~Settled(tasks) /\ ~g2.loose /\ ~g2.overlap =>
          ~ghost.loose /\ ~ghost.overlap /\ Rest(p) = Rest(base)
    BY <2>2
  <2> HIDE DEF k2, g2
  <2>5. \A i \in DOMAIN tasks : FitTo(tasks[i], p, v, g2, k2)
    <3> SUFFICES ASSUME NEW i \in DOMAIN tasks PROVE FitTo(tasks[i], p, v, g2, k2)
      OBVIOUS
    <3>1. tasks[i] \in Tasks /\ FitTo(tasks[i], base, w, ghost, Risky(base, live))
      BY <1>1, ElementOfSeq, LenProperties
    <3>2. tasks[i].kind \in Leaving => ~Settled(tasks)
      BY DEF Settled
    <3> QED BY <1>11, <2>3, <2>4, <3>1, <3>2, StillFits
  <2> QED BY <2>5 DEF k2, g2
<1>14. /\ tasks' \in Seq(Tasks) /\ Len(tasks') = Len(tasks) + 1
       /\ \A j \in DOMAIN tasks' : FitTo(tasks'[j], p, v, ghost', Risky(p, live'))
       /\ ~Settled(tasks')
  BY <1>1, <1>3, <1>6, <1>12, <1>13, AllMore
<1>15. waiting # None => FitTo(waiting, p, v, ghost', Risky(p, live'))
  <2> SUFFICES ASSUME waiting # None PROVE FitTo(waiting, p, v, ghost', Risky(p, live'))
    OBVIOUS
  <2>1. waiting \in Tasks /\ waiting.kind \notin Leaving
        /\ FitTo(waiting, base, w, ghost, Risky(base, live))
    BY <1>1 DEF Leaving
  <2> QED BY <1>7, <1>8, <1>10, <1>11, <2>1, StillFits
<1>16. Len(tasks') <= MaxTasks
  BY <1>1, <1>3, <1>14, LenProperties, WebBounds
<1>17. TypeOK'
  BY <1>1, <1>2, <1>3, <1>7, <1>8, <1>9, <1>10, <1>14, <1>16 DEF TypeOK, Inv
<1>18. TasksFit'
  BY <1>1, <1>3, <1>14, <1>15 DEF TasksFit, v
<1>19. OutIsBase'
  BY <1>14 DEF OutIsBase
<1>20. HandleIsThisDocument'
  BY <1>3, <1>7, <1>8, <1>10 DEF HandleIsThisDocument, Inv
<1>21. StaysOpenable'
  <2>1. v.claim = w.claim /\ v.text = w.text /\ v.form = w.form
    BY <1>2, <1>11, RestIs
  <2>2. AttestationHolds(v) <=> AttestationHolds(w)
    BY <1>2, <1>11, <2>1, AttestationIs
  <2>3. Working' = v
    BY <1>3, StoreWillBe DEF v
  <2> QED BY <1>2, <1>3, <1>7, <1>8, <1>10, <2>2, <2>3 DEF StaysOpenable, Inv
<1> QED BY <1>17, <1>18, <1>19, <1>20, <1>21 DEF Inv

\* A write or a download is done.
LEMMA LeftKeeps ==
  ASSUME Inv, NEW i \in DOMAIN tasks, tasks[i].kind \in Leaving, ghost' = Left(tasks[i]),
         tasks' = Without(i), UNCHANGED <<base, live, waiting, inputs, steps>>,
         files' \in [Files -> Containers], handle' \in Files \union {None},
         handle' # None /\ ~ghost.crossed /\ tasks[i].here => files'[handle'].doc = base.doc
  PROVE  Inv'
<1> USE DEF Inv
<1> DEFINE t == tasks[i]
           o == IF t.here THEN t.box ELSE ghost.out
           x == ghost.crossed \/ ~t.here
<1>1. /\ base' = base /\ live' = live /\ waiting' = waiting
      /\ inputs' = inputs /\ steps' = steps /\ tasks' = Less(tasks, i)
  BY DEF Without, Less
<1>2. /\ tasks \in Seq(Tasks) /\ t \in Tasks /\ Len(tasks) \in Nat /\ ghost \in Ghosts
      /\ FitTo(t, base, Rebased(base, live), ghost, Risky(base, live))
  BY ElementOfSeq, LenProperties DEF TypeOK, TasksFit
<1>3. ghost' = [ghost EXCEPT !.out = o, !.crossed = x]
  BY DEF Left
<1>4. t.box \in Containers /\ t.box # None /\ o \in Containers \union {None} /\ x \in BOOLEAN
  <2>1. t.box \in Containers \union {None} /\ ghost.out \in Containers \union {None}
        /\ t.here \in BOOLEAN /\ ghost.crossed \in BOOLEAN
    BY <1>2 DEF Tasks, Ghosts
  <2>2. t.box # None
    BY <1>2 DEF FitTo
  <2> QED BY <2>1, <2>2
<1>5. ~x => ~ghost.crossed /\ t.here /\ o = t.box
  OBVIOUS
<1> HIDE DEF o, x
<1>6. /\ ghost' \in Ghosts /\ ghost'.loose = ghost.loose /\ ghost'.overlap = ghost.overlap
      /\ ghost'.crossed = x /\ ghost'.out = o /\ ghost'.reformed = ghost.reformed
  BY <1>2, <1>3, <1>4 DEF Ghosts
<1>7. tasks' \in Seq(Tasks) /\ Len(tasks') = Len(tasks) - 1
  BY <1>1, <1>2, LessIs
<1>8. \A j \in DOMAIN tasks' :
        FitTo(tasks'[j], base, Rebased(base, live), ghost, Risky(base, live))
  BY <1>1, <1>2, AllLess DEF TasksFit
<1>9. \A u : FitTo(u, base, Rebased(base, live), ghost, Risky(base, live))
              => FitTo(u, base, Rebased(base, live), ghost', Risky(base, live))
  BY <1>5, <1>6 DEF FitTo
<1>10. Len(tasks') <= MaxTasks
  <2> DEFINE n == Len(tasks)
  <2>1. n \in Nat /\ n <= MaxTasks /\ Len(tasks') = n - 1 /\ MaxTasks \in Nat
    BY <1>2, <1>7, WebBounds DEF TypeOK
  <2> HIDE DEF n
  <2> QED BY <2>1
<1>11. TypeOK'
  BY <1>1, <1>6, <1>7, <1>10 DEF TypeOK
<1>12. TasksFit'
  BY <1>1, <1>8, <1>9 DEF TasksFit
<1>13. OutIsBase'
  <2>1. ~x /\ ~ghost.loose /\ ~ghost.overlap => o # None /\ Rest(o) = Rest(base)
    BY <1>2, <1>4, <1>5 DEF FitTo
  <2> QED BY <1>1, <1>6, <2>1 DEF OutIsBase
<1>14. HandleIsThisDocument'
  BY <1>1, <1>5, <1>6 DEF HandleIsThisDocument
<1>15. StaysOpenable'
  BY <1>1, <1>5, <1>6, StoreIs, StoreWillBe DEF StaysOpenable
<1> QED BY <1>11, <1>12, <1>13, <1>14, <1>15

\* A change made since the baseline is one the store asks about.
LEMMA RiskIsDirty == Inv /\ AtRisk => Dirty
<1> SUFFICES ASSUME Inv, AtRisk, ~live.unsaved PROVE Rest(Working) # Rest(base)
  BY DEF Dirty
<1>1. /\ Working \in Containers /\ base \in Containers /\ live \in Lives
      /\ Working.text = (IF live.sealed THEN base.text ELSE Canonical[live.text])
      /\ Working.form = (IF live.form = None THEN base.form ELSE Canonical[live.form])
  BY WorkingIs DEF Inv, TypeOK
<1> DEFINE w == Working
<1>2. w.text # base.text \/ w.form # base.form
  <2>1. CASE ~live.sealed /\ Canonical[live.text] # base.text
    BY <1>1, <2>1
  <2>2. CASE live.form # None /\ (base.form = None \/ Canonical[live.form] # base.form)
    <3>1. Canonical[live.form] # None
      BY <1>1, <2>2, WebValues DEF Lives
    <3> QED BY <1>1, <2>2, <3>1
  <2> QED BY <2>1, <2>2 DEF AtRisk
<1> HIDE DEF w
<1>3. w \in Containers
  BY <1>1 DEF w
<1>4. Rest(w) # Rest(base)
  BY <1>1, <1>2, <1>3, RestIs
<1> QED BY <1>4 DEF w

LEMMA PanelsInv ==
  ASSUME Inv, Panels
  PROVE  Inv'
<1>1. /\ base \in Containers /\ live \in Lives /\ ghost \in Ghosts
      /\ live.sealed = base.sealed /\ live.stored = base.manifest
      /\ steps \in 0..MaxSteps /\ ghost.seals \in 0..MaxSeals
  BY DEF Inv, TypeOK, Ghosts
<1> DEFINE w == Working
<1>2. /\ w \in Containers /\ w.doc = base.doc /\ w.sealed = base.sealed
      /\ w.claim = base.claim /\ w.manifest = base.manifest /\ w.log = base.log
  BY WorkingIs
<1>3. w = Working
  OBVIOUS
<1> HIDE DEF w
<1>4. /\ Listing(w) \in Listings /\ Listing(w) # None
      /\ Rebuilt(w) \in Containers /\ Rebuilt(w).manifest = Listing(w)
      /\ Rebuilt(w).doc = w.doc /\ Rebuilt(w).text = w.text /\ Rebuilt(w).form = w.form
      /\ Rebuilt(w).sealed = w.sealed /\ Rebuilt(w).claim = w.claim
  BY <1>2, RebuiltIs, ListingIs, RestIs
<1>5. live = [live EXCEPT !.stored = base.manifest]
  BY <1>1 DEF Lives
<1>6. CASE AddManifest
  <2>1. PanelEdit(Rebuilt(w)) /\ live' = [live EXCEPT !.stored = Rebuilt(w).manifest]
    BY <1>3, <1>4, <1>6 DEF AddManifest, ManifestSeen
  <2> QED BY <1>2, <1>3, <1>4, <2>1, PanelKeeps
<1>7. CASE Sign
  <2> DEFINE m == Rebuilt(w)
             g == Listing(w)
             c == [m EXCEPT !.sig = g]
  <2>1. PanelEdit(c) /\ live' = [live EXCEPT !.stored = g]
    BY <1>3, <1>7 DEF Sign, ManifestSeen
  <2>2. /\ m \in Containers /\ g \in Listings /\ m.manifest = g
        /\ m.doc = w.doc /\ m.text = w.text /\ m.form = w.form
        /\ m.sealed = w.sealed /\ m.claim = w.claim
    BY <1>4
  <2> HIDE DEF m, g
  <2>3. /\ c \in Containers /\ c.manifest = g
        /\ c.doc = w.doc /\ c.text = w.text /\ c.form = w.form
        /\ c.sealed = w.sealed /\ c.claim = w.claim
    BY <2>2 DEF Containers
  <2> HIDE DEF c
  <2> QED BY <1>2, <1>3, <2>1, <2>3, PanelKeeps
<1>8. CASE RemoveSignature
  <2> DEFINE c == [w EXCEPT !.sig = None]
  <2>1. PanelEdit(c) /\ live' = live
    BY <1>3, <1>8 DEF RemoveSignature
  <2>2. /\ c \in Containers /\ c.manifest = w.manifest
        /\ c.doc = w.doc /\ c.text = w.text /\ c.form = w.form
        /\ c.sealed = w.sealed /\ c.claim = w.claim
    BY <1>2 DEF Containers
  <2> HIDE DEF c
  <2> QED BY <1>2, <1>3, <1>5, <2>1, <2>2, PanelKeeps
<1>9. CASE AppendAudit
  <2> DEFINE n == w.log + 1
             c == [w EXCEPT !.log = n]
  <2>1. PanelEdit(c) /\ live' = live /\ base.log < MaxLog
    BY <1>2, <1>3, <1>9 DEF AppendAudit, Containers
  <2>2. n \in 0..MaxLog
    BY <1>2, <2>1, WebBounds DEF Containers
  <2> HIDE DEF n
  <2>3. /\ c \in Containers /\ c.manifest = w.manifest
        /\ c.doc = w.doc /\ c.text = w.text /\ c.form = w.form
        /\ c.sealed = w.sealed /\ c.claim = w.claim
    BY <1>2, <2>2 DEF Containers
  <2> HIDE DEF c
  <2> QED BY <1>2, <1>3, <1>5, <2>1, <2>3, PanelKeeps
<1>10. CASE WriteCheckpoint
  <2> DEFINE n == base.log
             c == [w EXCEPT !.mark = n]
  <2>1. PanelEdit(c) /\ live' = live
    BY <1>3, <1>10 DEF WriteCheckpoint
  <2>2. n \in 0..MaxLog
    BY <1>1 DEF Containers
  <2> HIDE DEF n
  <2>3. /\ c \in Containers /\ c.manifest = w.manifest
        /\ c.doc = w.doc /\ c.text = w.text /\ c.form = w.form
        /\ c.sealed = w.sealed /\ c.claim = w.claim
    BY <1>2, <2>2 DEF Containers
  <2> HIDE DEF c
  <2> QED BY <1>2, <1>3, <1>5, <2>1, <2>3, PanelKeeps
<1>11. CASE Encrypt \/ Decrypt \/ Attach
  <2>1. PICK k \in {"seal", "unseal", "attach"}, x \in {w, None}, n \in 0..MaxSeals :
           /\ k # "attach" => x = w
           /\ AtPanel /\ Start(Task(k, None, x, FALSE))
           /\ ghost' = [ghost EXCEPT !.seals = n]
           /\ UNCHANGED <<base, live, handle, files, waiting>>
    <3>1. CASE Encrypt
      <4> DEFINE n == ghost.seals + 1
      <4>1. n \in 0..MaxSeals
        BY <1>1, <3>1, WebBounds DEF Encrypt
      <4>2. /\ AtPanel /\ Start(Task("seal", None, w, FALSE))
            /\ ghost' = [ghost EXCEPT !.seals = n]
            /\ UNCHANGED <<base, live, handle, files, waiting>>
        BY <1>3, <3>1, <1>1 DEF Encrypt, Clone, Ghosts
      <4> HIDE DEF n
      <4> QED BY <4>1, <4>2
    <3>2. CASE Decrypt \/ Attach
      <4> DEFINE n == ghost.seals
      <4>1. ghost = [ghost EXCEPT !.seals = n] /\ n \in 0..MaxSeals
        BY <1>1 DEF Ghosts
      <4>2. ghost' = [ghost EXCEPT !.seals = n]
        BY <3>2, <4>1 DEF Decrypt, Attach
      <4> HIDE DEF n
      <4>3. CASE Decrypt
        BY <1>3, <4>1, <4>2, <4>3 DEF Decrypt, Clone
      <4>4. CASE Attach
        BY <4>1, <4>2, <4>4 DEF Attach
      <4> QED BY <3>2, <4>3, <4>4
    <3> QED BY <1>11, <3>1, <3>2
  <2> DEFINE t == Task(k, None, x, FALSE)
  <2>2. t \in Tasks /\ t.kind = k /\ t.to = None /\ t.box = x /\ t.here /\ ~t.late
    <3>1. k \in Kinds /\ x \in Containers \union {None}
      BY <1>2 DEF Kinds, Ciphers
    <3> QED BY <3>1 DEF t, Task, Tasks
  <2> HIDE DEF t
  <2>3. FitTo(t, base, Rebased(base, live), ghost, Risky(base, live))
    BY <1>2, <1>3, <2>1, <2>2, StoreIs, WebContainers DEF FitTo, Leaving, Ciphers
  <2>4. /\ UNCHANGED <<base, live, handle, files, waiting, inputs>>
        /\ steps' \in 0..MaxSteps
    BY <1>1, <2>1, WebBounds DEF AtPanel, Step
  <2> QED BY <2>1, <2>2, <2>3, <2>4, StartKeeps DEF t, Leaving
<1> QED BY <1>6, <1>7, <1>8, <1>9, <1>10, <1>11 DEF Panels

LEMMA WindowInv ==
  ASSUME Inv, Window
  PROVE  Inv'
<1>1. /\ base \in Containers /\ live \in Lives /\ ghost \in Ghosts
      /\ files \in [Files -> Containers] /\ tasks \in Seq(Tasks) /\ Len(tasks) <= MaxTasks
      /\ \A i \in DOMAIN tasks :
           FitTo(tasks[i], base, Rebased(base, live), ghost, Risky(base, live))
      /\ steps \in 0..MaxSteps /\ handle \in Files \union {None}
  BY DEF Inv, TypeOK, TasksFit
<1>2. Step => steps' \in 0..MaxSteps
  BY <1>1, WebBounds DEF Step
<1>3. Asked \in BOOLEAN
  BY <1>1 DEF Asked, Dirty, Lives
<1>4. Risky(base, live) => Asked
  BY RiskIsDirty, StoreIs DEF Asked
<1>5. ghost = [ghost EXCEPT !.seals = ghost.seals] /\ ghost.seals \in 0..MaxSeals
  BY <1>1 DEF Ghosts
<1>6. CASE New
  <2>1. /\ Replace(Fresh, FALSE, Asked, Fresh) /\ handle' = None /\ tasks' = Behind(tasks)
        /\ files' = files /\ waiting' = None /\ inputs' = inputs /\ Step
    BY <1>6 DEF New, NoHandle, AtPanel
  <2>2. Fresh \in Containers
    BY WebContainers
  <2> QED BY <1>1, <1>2, <1>3, <2>1, <2>2, ReplaceKeeps
<1>7. CASE Open
  <2> DEFINE t == Task("open", None, None, Asked)
  <2>1. Start(t) /\ Step /\ UNCHANGED <<base, live, handle, files, waiting, ghost, inputs>>
    BY <1>7 DEF Open, AtPanel
  <2>2. t \in Tasks /\ t.kind = "open" /\ t.asked = Asked
    <3>1. "open" \in Kinds
      BY DEF Kinds
    <3> QED BY <1>3, <3>1 DEF t, Task, Tasks
  <2> HIDE DEF t
  <2>3. FitTo(t, base, Rebased(base, live), ghost, Risky(base, live))
    BY <1>4, <2>2 DEF FitTo, Leaving, Ciphers
  <2>4. ghost' = [ghost EXCEPT !.seals = ghost.seals]
    BY <1>5, <2>1
  <2> QED BY <1>2, <1>5, <2>1, <2>2, <2>3, <2>4, StartKeeps DEF Leaving
<1>8. CASE Import
  <2> DEFINE t == Task("convert", None, Converted, Asked)
  <2>1. Start(t) /\ Step /\ UNCHANGED <<base, live, handle, files, waiting, ghost, inputs>>
    BY <1>8 DEF Import
  <2>2. t \in Tasks /\ t.kind = "convert" /\ t.asked = Asked /\ t.box = Converted
    <3>1. "convert" \in Kinds /\ Converted \in Containers
      BY WebContainers DEF Kinds
    <3> QED BY <1>3, <3>1 DEF t, Task, Tasks
  <2> HIDE DEF t
  <2>3. FitTo(t, base, Rebased(base, live), ghost, Risky(base, live))
    BY <1>4, <2>2, WebContainers DEF FitTo, Leaving, Ciphers
  <2>4. ghost' = [ghost EXCEPT !.seals = ghost.seals]
    BY <1>5, <2>1
  <2> QED BY <1>2, <1>5, <2>1, <2>2, <2>3, <2>4, StartKeeps DEF Leaving
<1>9. CASE \E f \in Droppable : Drop(f)
  <2>1. PICK f \in Files : Drop(f)
    BY <1>9, WebValues
  <2> DEFINE c == files[f]
             t == Task("drop", None, c, FALSE)
  <2>2. Start(t) /\ Step /\ UNCHANGED <<base, live, handle, files, waiting, ghost, inputs>>
    BY <2>1 DEF Drop
  <2>3. c \in Containers
    BY <1>1
  <2>4. t \in Tasks /\ t.kind = "drop" /\ t.box = c
    <3>1. "drop" \in Kinds
      BY DEF Kinds
    <3> QED BY <2>3, <3>1 DEF t, Task, Tasks
  <2> HIDE DEF t, c
  <2>5. FitTo(t, base, Rebased(base, live), ghost, Risky(base, live))
    BY <2>3, <2>4, WebContainers DEF FitTo, Leaving, Ciphers
  <2>6. ghost' = [ghost EXCEPT !.seals = ghost.seals]
    BY <1>5, <2>2
  <2> QED BY <1>2, <1>5, <2>2, <2>4, <2>5, <2>6, StartKeeps DEF Leaving
<1>10. CASE AcceptImport
  <2> DEFINE a == waiting.asked \/ waiting.late
  <2>1. /\ waiting # None /\ Step /\ waiting' = None /\ Replace(waiting.box, TRUE, a, None)
        /\ handle' = None /\ tasks' = Behind(tasks) /\ files' = files /\ inputs' = inputs
    BY <1>10 DEF AcceptImport, NoHandle
  <2>2. /\ waiting \in Tasks /\ waiting.kind = "convert"
        /\ FitTo(waiting, base, Rebased(base, live), ghost, Risky(base, live))
    BY <2>1 DEF Inv, TypeOK, TasksFit
  <2>3. waiting.box \in Containers /\ a \in BOOLEAN
    BY <2>2 DEF FitTo, Tasks
  <2> HIDE DEF a
  <2> QED BY <1>1, <1>2, <2>1, <2>3, ReplaceKeeps
<1>11. CASE CancelImport
  <2> USE DEF Inv
  <2>1. /\ base' = base /\ live' = live /\ handle' = handle /\ files' = files
        /\ tasks' = tasks /\ ghost' = ghost /\ inputs' = inputs /\ waiting' = None
        /\ steps' \in 0..MaxSteps
    BY <1>2, <1>11 DEF CancelImport
  <2>2. TypeOK'
    BY <2>1 DEF TypeOK
  <2>3. TasksFit' /\ OutIsBase'
    BY <2>1 DEF TasksFit, OutIsBase
  <2>4. HandleIsThisDocument' /\ StaysOpenable'
    BY <2>1, StoreIs, StoreWillBe DEF HandleIsThisDocument, StaysOpenable
  <2> QED BY <2>2, <2>3, <2>4
<1>12. CASE Save
  <2>1. /\ Step /\ Pack /\ UNCHANGED <<handle, files, waiting, inputs>>
    BY <1>12 DEF Save
  <2>2. CASE handle # None
    <3>1. Start(Task("write", handle, Packed, FALSE))
      BY <1>12, <2>2 DEF Save
    <3> QED BY <1>1, <1>2, <2>1, <2>2, <3>1, PackKeeps DEF Leaving
  <2>3. CASE handle = None
    <3>1. Start(Task("pick", None, Packed, FALSE))
      BY <1>12, <2>3 DEF Save
    <3> QED BY <1>2, <2>1, <3>1, PackKeeps DEF Leaving
  <2> QED BY <2>2, <2>3
<1>13. CASE SaveAs
  <2>1. /\ Step /\ Pack /\ UNCHANGED <<handle, files, waiting, inputs>>
        /\ Start(Task("pick", None, Packed, FALSE))
    BY <1>13 DEF SaveAs, AtPanel
  <2> QED BY <1>2, <2>1, PackKeeps DEF Leaving
<1> QED BY <1>6, <1>7, <1>8, <1>9, <1>10, <1>11, <1>12, <1>13 DEF Window

\* What is known of a task that settles, and of the others.
LEMMA SettlingIs ==
  ASSUME Inv, NEW i \in DOMAIN tasks
  PROVE  /\ tasks[i] \in Tasks
         /\ FitTo(tasks[i], base, Rebased(base, live), ghost, Risky(base, live))
         /\ Without(i) = Less(tasks, i)
         /\ Without(i) \in Seq(Tasks) /\ Len(Without(i)) <= MaxTasks
         /\ \A j \in DOMAIN Without(i) :
              FitTo(Without(i)[j], base, Rebased(base, live), ghost, Risky(base, live))
<1>1. /\ tasks \in Seq(Tasks) /\ Len(tasks) <= MaxTasks /\ Len(tasks) \in Nat
      /\ \A j \in DOMAIN tasks :
           FitTo(tasks[j], base, Rebased(base, live), ghost, Risky(base, live))
  BY LenProperties DEF Inv, TypeOK, TasksFit
<1>2. tasks[i] \in Tasks
  BY <1>1, ElementOfSeq, LenProperties
<1>3. Without(i) = Less(tasks, i)
  BY DEF Without, Less
<1> DEFINE l == Less(tasks, i)
           n == Len(tasks)
<1>4. l \in Seq(Tasks) /\ Len(l) = n - 1
  BY <1>1, LessIs
<1>5. n \in Nat /\ n <= MaxTasks /\ MaxTasks \in Nat
  BY <1>1, WebBounds
<1>6. \A j \in DOMAIN l :
        FitTo(l[j], base, Rebased(base, live), ghost, Risky(base, live))
  BY <1>1, AllLess
<1> HIDE DEF l, n
<1>7. Len(l) <= MaxTasks
  BY <1>4, <1>5
<1>8. Without(i) = l
  BY <1>3 DEF l
<1> QED BY <1>1, <1>2, <1>3, <1>4, <1>6, <1>7, <1>8

\* What a cipher made of its box replaces what the store holds by now.
LEMMA ResumeKeeps ==
  ASSUME Inv, NEW i \in DOMAIN tasks, tasks[i].kind \in Ciphers,
         NEW c \in Containers, c.doc = tasks[i].box.doc, c.sealed => AttestationHolds(c),
         Resume(i, c)
  PROVE  Inv'
<1> DEFINE t == tasks[i]
           la == ghost.late \/ t.late
           x == ghost.crossed \/ ~t.here
           r == ghost.reformed /\ c.sealed /\ t.late
           l == [Buffers(c) EXCEPT !.unsaved = FALSE]
<1>1. /\ base' = c /\ live' = Buffers(c)
      /\ ghost' = [ghost EXCEPT !.loose = TRUE, !.late = la, !.crossed = x, !.reformed = r]
      /\ tasks' = Later(Without(i))
      /\ waiting' = IF waiting = None THEN None ELSE [waiting EXCEPT !.late = TRUE]
      /\ UNCHANGED <<handle, files, inputs>> /\ steps' = steps
  BY DEF Resume
<1>2. /\ t \in Tasks /\ FitTo(t, base, Rebased(base, live), ghost, Risky(base, live))
      /\ ghost \in Ghosts /\ steps \in 0..MaxSteps
  BY SettlingIs DEF Inv, TypeOK
<1>3. /\ t.late \in BOOLEAN /\ t.here \in BOOLEAN /\ ghost.late \in BOOLEAN
      /\ ghost.crossed \in BOOLEAN /\ ghost.reformed \in BOOLEAN /\ c.sealed \in BOOLEAN
  BY <1>2 DEF Tasks, Ghosts, Containers
<1>4. la \in BOOLEAN /\ x \in BOOLEAN /\ r \in BOOLEAN
  BY <1>3
<1>5. ~x => ~ghost.crossed /\ c.doc = base.doc
  BY <1>2 DEF FitTo
<1>6. live' = l
  <2>1. /\ Buffers(c) \in Lives /\ Buffers(c).unsaved = FALSE
    BY WebValues DEF Buffers, Lives, Containers
  <2> DEFINE b == Buffers(c)
  <2> HIDE DEF b
  <2>2. b = [b EXCEPT !.unsaved = FALSE]
    BY <2>1 DEF Lives, b
  <2> QED BY <1>1, <2>2 DEF b
<1>7. /\ l \in Lives /\ l.sealed = c.sealed /\ l.stored = c.manifest
  BY BuffersAre
<1>8. AttestationHolds(Rebased(c, l)) <=> AttestationHolds(c)
  BY FreshlyBuffered
<1> HIDE DEF la, x, r, l
<1>9. ghost' \in Ghosts /\ ghost'.loose /\ ghost'.crossed = x
  BY <1>1, <1>2, <1>4 DEF Ghosts
<1>10. /\ live' \in Lives /\ live'.sealed = c.sealed /\ live'.stored = c.manifest
       /\ c.sealed => AttestationHolds(Rebased(c, live'))
  BY <1>6, <1>7, <1>8
<1>11. steps' \in 0..MaxSteps
  BY <1>1, <1>2
<1>12. ~ghost'.crossed => ~ghost.crossed /\ c.doc = base.doc
  BY <1>5, <1>9
<1> QED BY <1>1, <1>9, <1>10, <1>11, <1>12, SettlingIs, EditKeeps

LEMMA AttachInv ==
  ASSUME Inv, NEW i \in DOMAIN tasks, AttachDone(i)
  PROVE  Inv'
<1> DEFINE n == Working.assets + 1
           c == [Working EXCEPT !.assets = n]
           w == Working
<1>1. /\ base' = c /\ ghost' = [ghost EXCEPT !.loose = TRUE] /\ base.assets < MaxAssets
      /\ live' = [live EXCEPT !.text = Pictured[@]]
      /\ tasks' = Later(Without(i))
      /\ waiting' = IF waiting = None THEN None ELSE [waiting EXCEPT !.late = TRUE]
      /\ UNCHANGED <<handle, files, inputs>> /\ steps' = steps
  <2>1. Working \in Containers
    BY WorkingIs
  <2>2. [Working EXCEPT !.assets = @ + 1] = c
    BY <2>1 DEF Containers
  <2> QED BY <2>2 DEF AttachDone, Adopt
<1>2. /\ base \in Containers /\ live \in Lives /\ live.sealed = base.sealed
      /\ live.stored = base.manifest /\ ghost \in Ghosts /\ steps \in 0..MaxSteps
  BY DEF Inv, TypeOK
<1>3. /\ w \in Containers /\ w.doc = base.doc /\ w.sealed = base.sealed
      /\ w.claim = base.claim /\ w.manifest = base.manifest /\ w.assets = base.assets
      /\ w.text = (IF live.sealed THEN base.text ELSE Canonical[live.text])
      /\ w.form = (IF live.form = None THEN base.form ELSE Canonical[live.form])
  BY WorkingIs
<1>4. n \in 0..MaxAssets
  <2>1. base.assets \in 0..MaxAssets
    BY <1>2 DEF Containers
  <2> QED BY <1>1, <1>3, <2>1, WebBounds
<1>5. Pictured[live.text] \in Texts
  BY <1>2, WebValues DEF Lives
<1>6. w = Working
  OBVIOUS
<1> HIDE DEF n
<1>7. c = [w EXCEPT !.assets = n]
  OBVIOUS
<1> HIDE DEF w, c
<1>8. /\ c \in Containers /\ c.doc = w.doc /\ c.sealed = w.sealed /\ c.claim = w.claim
      /\ c.manifest = w.manifest /\ c.text = w.text /\ c.form = w.form
  BY <1>3, <1>4, <1>7 DEF Containers
<1>9. /\ live' \in Lives /\ live'.sealed = live.sealed /\ live'.stored = live.stored
      /\ live'.form = live.form
  BY <1>1, <1>2, <1>5 DEF Lives
<1>10. /\ ghost' \in Ghosts /\ ghost'.loose /\ ghost'.crossed = ghost.crossed
       /\ ghost'.reformed = ghost.reformed
  BY <1>1, <1>2 DEF Ghosts
<1>11. c.sealed /\ ~ghost'.reformed /\ ~ghost'.crossed => AttestationHolds(Rebased(c, live'))
  <2> SUFFICES ASSUME c.sealed, ~ghost'.reformed, ~ghost'.crossed
               PROVE  AttestationHolds(Rebased(c, live'))
    OBVIOUS
  <2> DEFINE v == Rebased(c, live')
  <2>1. AttestationHolds(w)
    BY <1>3, <1>6, <1>8, <1>10 DEF Inv, StaysOpenable
  <2>2. /\ v \in Containers /\ v.claim = c.claim
        /\ v.text = (IF live'.sealed THEN c.text ELSE Canonical[live'.text])
        /\ v.form = (IF live'.form = None THEN c.form ELSE Canonical[live'.form])
    BY <1>8, <1>9, RebasedIs
  <2> HIDE DEF v
  <2>3. v.text = w.text /\ v.form = w.form /\ v.claim = w.claim
    BY <1>2, <1>3, <1>8, <1>9, <2>2
  <2>4. AttestationHolds(v)
    BY <1>3, <2>1, <2>2, <2>3, AttestationIs
  <2> QED BY <2>4 DEF v
<1>12. /\ c.doc = base.doc /\ live'.sealed = c.sealed /\ live'.stored = c.manifest
       /\ steps' \in 0..MaxSteps
  BY <1>1, <1>2, <1>3, <1>8, <1>9
<1>13. ~ghost'.crossed => ~ghost.crossed /\ c.doc = base.doc
  BY <1>10, <1>12
<1> QED BY <1>1, <1>8, <1>9, <1>10, <1>11, <1>12, <1>13, SettlingIs, EditKeeps

\* The platform refuses to write: the same bytes go to a picker.
LEMMA WriteFailsInv ==
  ASSUME Inv, NEW i \in DOMAIN tasks, WriteFails(i)
  PROVE  Inv'
<1> USE DEF Inv
<1> DEFINE t == tasks[i]
           u == [t EXCEPT !.kind = "pick", !.to = None]
           x == ghost.crossed \/ ~t.here
<1>1. /\ base' = base /\ live' = live /\ files' = files /\ waiting' = waiting
      /\ inputs' = inputs /\ steps' = steps /\ handle' = None /\ t.kind = "write"
      /\ ghost' = [ghost EXCEPT !.crossed = x]
  BY DEF WriteFails
<1>2. /\ tasks \in Seq(Tasks) /\ Len(tasks) \in Nat /\ DOMAIN tasks = 1..Len(tasks)
      /\ \A j \in 1..Len(tasks) : tasks[j] \in Tasks
      /\ \A j \in DOMAIN tasks :
           FitTo(tasks[j], base, Rebased(base, live), ghost, Risky(base, live))
  BY ElementOfSeq, LenProperties DEF TypeOK, TasksFit
<1>3. /\ t \in Tasks /\ FitTo(t, base, Rebased(base, live), ghost, Risky(base, live))
      /\ ghost \in Ghosts
  BY <1>2 DEF TypeOK
<1>4. /\ u \in Tasks /\ u.kind = "pick" /\ u.box = t.box /\ u.here = t.here
  BY <1>3 DEF Tasks, Kinds, Leaving
<1>5. tasks' = [tasks EXCEPT ![i] = u]
  <2>1. tasks' = [tasks EXCEPT ![i].kind = "pick", ![i].to = None]
    BY DEF WriteFails
  <2> QED BY <1>2, <2>1
<1>6. x \in BOOLEAN /\ (~x => ~ghost.crossed)
  BY <1>3 DEF Ghosts, Tasks
<1> HIDE DEF x, u
<1>7. /\ ghost' \in Ghosts /\ ghost'.loose = ghost.loose /\ ghost'.overlap = ghost.overlap
      /\ ghost'.crossed = x /\ ghost'.out = ghost.out /\ ghost'.reformed = ghost.reformed
  BY <1>1, <1>3, <1>6 DEF Ghosts
<1>8. tasks' \in Seq(Tasks) /\ Len(tasks') = Len(tasks) /\ DOMAIN tasks' = DOMAIN tasks
  BY <1>2, <1>4, <1>5, ExceptSeq
<1>9. \A j \in DOMAIN tasks : tasks'[j] = IF j = i THEN u ELSE tasks[j]
  BY <1>2, <1>5
<1>10. FitTo(u, base, Rebased(base, live), ghost, Risky(base, live))
  BY <1>1, <1>3, <1>4 DEF FitTo, Leaving, Ciphers
<1>11. \A v : FitTo(v, base, Rebased(base, live), ghost, Risky(base, live))
               => FitTo(v, base, Rebased(base, live), ghost', Risky(base, live))
  BY <1>6, <1>7 DEF FitTo
<1>12. \A j \in DOMAIN tasks' :
         FitTo(tasks'[j], base, Rebased(base, live), ghost', Risky(base, live))
  <2> SUFFICES ASSUME NEW j \in DOMAIN tasks'
               PROVE  FitTo(tasks'[j], base, Rebased(base, live), ghost', Risky(base, live))
    OBVIOUS
  <2>1. tasks'[j] = u \/ tasks'[j] = tasks[j]
    BY <1>8, <1>9
  <2>2. FitTo(tasks[j], base, Rebased(base, live), ghost, Risky(base, live))
    BY <1>2, <1>8
  <2> QED BY <1>10, <1>11, <2>1, <2>2
<1>13. TypeOK'
  BY <1>1, <1>7, <1>8 DEF TypeOK
<1>14. TasksFit'
  BY <1>1, <1>11, <1>12 DEF TasksFit
<1>15. OutIsBase'
  <2>1. ~Settled(tasks')
    BY <1>4, <1>8, <1>9 DEF Settled, Leaving
  <2> QED BY <2>1 DEF OutIsBase
<1>16. HandleIsThisDocument' /\ StaysOpenable'
  BY <1>1, <1>6, <1>7, StoreIs, StoreWillBe DEF HandleIsThisDocument, StaysOpenable
<1> QED BY <1>13, <1>14, <1>15, <1>16

LEMMA PickCancelledInv ==
  ASSUME Inv, NEW i \in DOMAIN tasks, PickCancelled(i)
  PROVE  Inv'
<1> USE DEF Inv
<1>1. /\ base' = base /\ live' = live /\ files' = files /\ waiting' = waiting
      /\ inputs' = inputs /\ steps' = steps /\ handle' = handle /\ tasks' = Without(i)
      /\ ghost' = [ghost EXCEPT !.loose = TRUE]
  BY DEF PickCancelled
<1>2. ghost \in Ghosts
  BY DEF TypeOK
<1>3. /\ ghost' \in Ghosts /\ ghost'.loose /\ ghost'.crossed = ghost.crossed
      /\ ghost'.reformed = ghost.reformed
  BY <1>1, <1>2 DEF Ghosts
<1>4. \A v : FitTo(v, base, Rebased(base, live), ghost, Risky(base, live))
              => FitTo(v, base, Rebased(base, live), ghost', Risky(base, live))
  BY <1>3 DEF FitTo
<1>5. TypeOK'
  BY <1>1, <1>3, SettlingIs DEF TypeOK
<1>6. TasksFit'
  <2>1. \A j \in DOMAIN tasks' :
          FitTo(tasks'[j], base, Rebased(base, live), ghost', Risky(base, live))
    BY <1>1, <1>4, SettlingIs
  <2> QED BY <1>1, <1>4, <2>1 DEF TasksFit
<1>7. OutIsBase'
  BY <1>3 DEF OutIsBase
<1>8. HandleIsThisDocument' /\ StaysOpenable'
  BY <1>1, <1>3, StoreIs, StoreWillBe DEF HandleIsThisDocument, StaysOpenable
<1> QED BY <1>5, <1>6, <1>7, <1>8

LEMMA SettlesInv ==
  ASSUME Inv, NEW i \in DOMAIN tasks, Settles(i)
  PROVE  Inv'
<1> DEFINE t == tasks[i]
<1>1. /\ t \in Tasks /\ FitTo(t, base, Rebased(base, live), ghost, Risky(base, live))
      /\ Without(i) \in Seq(Tasks) /\ Len(Without(i)) <= MaxTasks
      /\ \A j \in DOMAIN Without(i) :
           FitTo(Without(i)[j], base, Rebased(base, live), ghost, Risky(base, live))
  BY SettlingIs
<1>2. /\ ghost \in Ghosts /\ base \in Containers /\ live \in Lives
      /\ files \in [Files -> Containers] /\ handle \in Files \union {None}
      /\ steps \in 0..MaxSteps /\ waiting \in Tasks \union {None} /\ tasks \in Seq(Tasks)
  BY DEF Inv, TypeOK
<1>3. /\ t.to \in Files \union {None} /\ t.box \in Containers \union {None}
      /\ t.asked \in BOOLEAN /\ t.late \in BOOLEAN /\ t.here \in BOOLEAN
  BY <1>1 DEF Tasks
<1>4. t.kind \in Leaving \union Ciphers \union {"drop"} => t.box \in Containers
  BY <1>1, <1>3 DEF FitTo
<1>5. CASE Fails(i)
  <2>1. /\ tasks[i].kind \notin Leaving /\ tasks' = Without(i) /\ waiting' = waiting
        /\ UNCHANGED <<base, live, handle, files, ghost, inputs, steps>>
    BY <1>5 DEF Fails, Leaving
  <2> QED BY <2>1, EndKeeps
<1>6. CASE ConvertDone(i)
  <2>1. /\ tasks[i].kind = "convert" /\ tasks' = Without(i) /\ waiting' = tasks[i]
        /\ UNCHANGED <<base, live, handle, files, ghost, inputs, steps>>
    BY <1>6 DEF ConvertDone
  <2>2. tasks[i].kind \notin Leaving
    BY <2>1 DEF Leaving
  <2> QED BY <2>1, <2>2, EndKeeps
<1>7. CASE DecryptRefused(i)
  <2>1. /\ tasks[i].kind \notin Leaving /\ tasks' = Without(i) /\ waiting' = waiting
        /\ UNCHANGED <<base, live, handle, files, ghost, inputs, steps>>
    BY <1>7 DEF DecryptRefused, Leaving
  <2> QED BY <2>1, EndKeeps
<1>8. CASE DropDone(i)
  <2> DEFINE c == t.box
  <2>1. /\ t.kind = "drop" /\ Replace(c, FALSE, Asked, c) /\ handle' = None
        /\ tasks' = Behind(Without(i))
        /\ waiting' = None \/ (waiting # None /\ waiting' = Elsewhere(waiting))
        /\ files' = files /\ inputs' = inputs /\ steps' = steps
    BY <1>8 DEF DropDone, NoHandle
  <2>2. c \in Containers /\ Asked \in BOOLEAN /\ steps' \in 0..MaxSteps
    BY <1>2, <1>4, <2>1 DEF Asked, Dirty, Lives
  <2> HIDE DEF c
  <2> QED BY <1>1, <2>1, <2>2, ReplaceKeeps
<1>9. CASE \E f \in Files : \E h \in {f, None} : OpenDone(i, f, h)
  <2>1. PICK f \in Files : \E h \in {f, None} : OpenDone(i, f, h)
    BY <1>9
  <2>a. PICK h \in {f, None} : OpenDone(i, f, h)
    BY <2>1
  <2> DEFINE c == files[f]
             a == tasks[i].asked \/ tasks[i].late
  <2>2. /\ Replace(c, FALSE, a, c) /\ handle' = h
        /\ tasks' = Behind(Without(i))
        /\ waiting' = None \/ (waiting # None /\ waiting' = Elsewhere(waiting))
        /\ files' = files /\ inputs' = inputs /\ steps' = steps
    BY <2>a DEF OpenDone
  <2>3. c \in Containers /\ a \in BOOLEAN /\ steps' \in 0..MaxSteps
    BY <1>2, <1>3, <2>2
  <2>4. handle' = None \/ (handle' \in Files /\ files[handle'] = c)
    BY <2>2
  <2> HIDE DEF c, a
  <2> QED BY <1>1, <2>2, <2>3, <2>4, ReplaceKeeps
<1>10. CASE WriteDone(i)
  <2> DEFINE b == t.box
             f == t.to
  <2>1. /\ t.kind \in Leaving /\ t.kind = "write" /\ ghost' = Left(tasks[i])
        /\ tasks' = Without(i) /\ files' = [files EXCEPT ![f] = b] /\ handle' = handle
        /\ UNCHANGED <<base, live, waiting, inputs, steps>>
    BY <1>10 DEF WriteDone, Leaving
  <2>2. b \in Containers /\ f \in Files
    BY <1>1, <1>3, <1>4, <2>1 DEF FitTo
  <2>3. t.here /\ ~ghost.crossed => b.doc = base.doc
    BY <1>1, <2>1 DEF FitTo
  <2>4. handle # None /\ ~ghost.crossed => files[handle].doc = base.doc
    BY DEF Inv, HandleIsThisDocument
  <2> HIDE DEF b, f
  <2>5. files' \in [Files -> Containers] /\ handle' \in Files \union {None}
    BY <1>2, <2>1, <2>2
  <2>6. handle' # None /\ ~ghost.crossed /\ tasks[i].here => files'[handle'].doc = base.doc
    BY <1>2, <2>1, <2>2, <2>3, <2>4
  <2> QED BY <2>1, <2>5, <2>6, LeftKeeps
<1>11. CASE \E f \in Files : PickDone(i, f)
  <2> DEFINE b == t.box
  <2>1. PICK f \in Files :
          /\ t.kind \in Leaving /\ ghost' = Left(tasks[i]) /\ tasks' = Without(i)
          /\ files' = [files EXCEPT ![f] = b] /\ handle' = f
          /\ UNCHANGED <<base, live, waiting, inputs, steps>>
    BY <1>11 DEF PickDone, Leaving
  <2>2. b \in Containers
    BY <1>4, <2>1
  <2>3. t.here /\ ~ghost.crossed => b.doc = base.doc
    BY <1>1, <2>1 DEF FitTo
  <2> HIDE DEF b
  <2>4. files' \in [Files -> Containers] /\ handle' \in Files \union {None}
        /\ files'[handle'] = b
    BY <1>2, <2>1, <2>2
  <2> QED BY <2>1, <2>3, <2>4, LeftKeeps
<1>12. CASE PickDownloads(i)
  <2>1. /\ t.kind \in Leaving /\ ghost' = Left(tasks[i]) /\ tasks' = Without(i)
        /\ files' = files /\ handle' = handle
        /\ UNCHANGED <<base, live, waiting, inputs, steps>>
    BY <1>12 DEF PickDownloads, Leaving
  <2>2. handle' # None /\ ~ghost.crossed /\ tasks[i].here => files'[handle'].doc = base.doc
    BY <2>1 DEF Inv, HandleIsThisDocument
  <2> QED BY <1>2, <2>1, <2>2, LeftKeeps
<1>13. CASE WriteFails(i)
  BY <1>13, WriteFailsInv
<1>14. CASE PickCancelled(i)
  BY <1>14, PickCancelledInv
<1>15. CASE EncryptDone(i)
  <2> DEFINE c == Sealed(t.box, ghost.seals)
  <2>1. Resume(i, c) /\ t.kind \in Ciphers
    BY <1>15 DEF EncryptDone, Ciphers
  <2>2. t.box \in Containers /\ ghost.seals \in 0..MaxSeals
    BY <1>2, <1>4, <2>1 DEF Ghosts
  <2>3. c \in Containers /\ c.doc = t.box.doc /\ AttestationHolds(c)
    BY <2>2, SealedIs
  <2> HIDE DEF c
  <2> QED BY <2>1, <2>3, ResumeKeeps
<1>16. CASE DecryptDone(i)
  <2> DEFINE c == Opened(t.box)
  <2>1. Resume(i, c) /\ t.kind \in Ciphers
    BY <1>16 DEF DecryptDone, Ciphers
  <2>2. t.box \in Containers
    BY <1>4, <2>1
  <2>3. c \in Containers /\ c.doc = t.box.doc /\ ~c.sealed
    BY <2>2, OpenedIs
  <2> HIDE DEF c
  <2> QED BY <2>1, <2>3, ResumeKeeps
<1>17. CASE AttachDone(i)
  BY <1>17, AttachInv
<1> QED
  BY <1>5, <1>6, <1>7, <1>8, <1>9, <1>10, <1>11, <1>12, <1>13, <1>14, <1>15, <1>16, <1>17
     DEF Settles

LEMMA NextInv == Inv /\ [Next]_vars => Inv'
<1> SUFFICES ASSUME Inv, [Next]_vars PROVE Inv'
  OBVIOUS
<1>1. CASE UNCHANGED vars
  <2> USE DEF Inv
  <2>1. /\ base' = base /\ live' = live /\ handle' = handle /\ files' = files
        /\ tasks' = tasks /\ waiting' = waiting /\ ghost' = ghost
        /\ inputs' = inputs /\ steps' = steps
    BY <1>1 DEF vars
  <2>2. TypeOK' /\ HandleIsThisDocument'
    BY <2>1 DEF TypeOK, HandleIsThisDocument
  <2>3. TasksFit' /\ OutIsBase'
    BY <2>1 DEF TasksFit, OutIsBase
  <2>4. StaysOpenable'
    BY <2>1, StoreIs, StoreWillBe DEF StaysOpenable
  <2> QED BY <2>2, <2>3, <2>4
<1>2. CASE Next
  BY <1>2, InputInv, PanelsInv, WindowInv, SettlesInv DEF Next
<1> QED BY <1>1, <1>2

THEOREM Invariance == Spec => []Inv
BY InitInv, NextInv, PTL DEF Spec

-----------------------------------------------------------------------------
(* The properties.                                                         *)

\* Whatever is done, in whatever order it ends, the variables keep their types
\* and the flags say what the baseline is (hasManifest and sealed).
THEOREM TypeCorrect == Spec => []TypeOK
BY Invariance, PTL DEF Inv

\* Save writes back to a file that holds this document, unless the document was
\* switched while something was awaited (fileHandle, App.svelte).
THEOREM HandleCorrect == Spec => []HandleIsThisDocument
BY Invariance, PTL DEF Inv

\* decrypt does not refuse what this program sealed.
THEOREM OpenableCorrect == Spec => []StaysOpenable
BY Invariance, PTL DEF Inv

\* A document that looks clean has left the tab, or came into it, as it is.
THEOREM CleanCorrect == Spec => []CleanIsWritten
<1>1. Inv => CleanIsWritten
  <2> SUFFICES ASSUME Inv, ~Dirty, ~ghost.loose, ~ghost.overlap, ~ghost.crossed,
                      \A i \in DOMAIN tasks : ~IsLeaving(tasks[i])
               PROVE  ghost.out # None /\ Rest(ghost.out) = Rest(Working)
    BY DEF CleanIsWritten
  <2>1. Settled(tasks)
    BY DEF Settled, IsLeaving
  <2>2. ~live.unsaved /\ Rest(Working) = Rest(base)
    BY DEF Dirty
  <2> QED BY <2>1, <2>2 DEF Inv, OutIsBase
<1> QED BY <1>1, Invariance, PTL

\* The Trust panel's verdict is the one a reader gives on what Save would write.
THEOREM VerdictCorrect == Spec => []VerdictIsOfTheSave
<1>1. Inv => VerdictIsOfTheSave
  <2> SUFFICES ASSUME Inv, base.sig # None PROVE ShownValid = SigValid(Packed)
    BY DEF VerdictIsOfTheSave
  <2> DEFINE w == Working
  <2>1. w \in Containers /\ w.manifest = base.manifest /\ w.sig = base.sig
        /\ live.stored = base.manifest
    BY WorkingIs DEF Inv, TypeOK
  <2>2. w = Working
    OBVIOUS
  <2> HIDE DEF w
  <2>3. Rebuilt(w).manifest = Listing(w) /\ Rebuilt(w).sig = w.sig
    BY <2>1, RebuiltIs, RestIs
  <2>4. CASE base.manifest = None
    <3>1. Packed = w
      BY <2>1, <2>2, <2>4 DEF Packed, HasManifest
    <3> QED BY <2>1, <2>4, <3>1 DEF ShownValid, SigValid
  <2>5. CASE base.manifest # None
    <3>1. Packed = Rebuilt(w)
      BY <2>1, <2>2, <2>5 DEF Packed, HasManifest
    <3> QED BY <2>1, <2>2, <2>3, <2>5, <3>1 DEF ShownValid, SigValid
  <2> QED BY <2>4, <2>5
<1> QED BY <1>1, Invariance, PTL

\* Changed work is never replaced by another document unless the user was asked,
\* or changed it while the other was being read or converted.
THEOREM DiscardsCorrect == Spec => DiscardsAsked
<1> DEFINE A == ghost'.turn # ghost.turn /\ AtRisk => ghost'.consent
<1>1. Inv /\ Next => A
  <2> SUFFICES ASSUME Inv, Next, ghost'.turn # ghost.turn, AtRisk PROVE ghost'.consent
    OBVIOUS
  <2>1. ghost \in Ghosts /\ Dirty /\ Risky(base, live)
    BY RiskIsDirty, StoreIs DEF Inv, TypeOK
  <2>2. ASSUME NEW c, NEW u, NEW a, NEW o, Replace(c, u, a, o), a
        PROVE  ghost'.consent
    BY <2>1, <2>2 DEF Replace, Ghosts
  <2>3. CASE New
    BY <2>1, <2>2, <2>3 DEF New, Asked
  <2>4. CASE AcceptImport
    <3>1. waiting # None /\ Replace(waiting.box, TRUE, waiting.asked \/ waiting.late, None)
      BY <2>4 DEF AcceptImport
    <3>2. waiting.asked \/ waiting.late
      BY <2>1, <3>1 DEF Inv, TasksFit, FitTo
    <3> QED BY <2>2, <3>1, <3>2
  <2>5. CASE \E i \in DOMAIN tasks : DropDone(i)
    BY <2>1, <2>2, <2>5 DEF DropDone, Asked
  <2>6. CASE \E i \in DOMAIN tasks, f \in Files : \E h \in {f, None} : OpenDone(i, f, h)
    <3>1. PICK i \in DOMAIN tasks, f \in Files :
            /\ tasks[i].kind = "open"
            /\ Replace(files[f], FALSE, tasks[i].asked \/ tasks[i].late, files[f])
      BY <2>6 DEF OpenDone
    <3>2. tasks[i].asked \/ tasks[i].late
      BY <2>1, <3>1 DEF Inv, TasksFit, FitTo
    <3> QED BY <2>2, <3>1, <3>2
  <2>7. CASE (\E t \in Typeable : Type(t)) \/ (\E f \in Fillable : Fill(f)) \/ AddSchema
    BY <2>1, <2>7 DEF Type, Fill, AddSchema, Ghosts
  <2>8. CASE Panels
    BY <2>1, <2>8 DEF Panels, AddManifest, Sign, RemoveSignature, AppendAudit,
          WriteCheckpoint, PanelEdit, Adopt, Encrypt, Decrypt, Attach, Ghosts
  <2>9. CASE Open \/ Import \/ CancelImport \/ Save \/ SaveAs \/ \E f \in Droppable : Drop(f)
    BY <2>1, <2>9 DEF Open, Import, CancelImport, Save, SaveAs, Pack, Drop, Ghosts
  <2>10. CASE \E i \in DOMAIN tasks :
                \/ Fails(i) \/ ConvertDone(i) \/ DecryptRefused(i)
                \/ WriteDone(i) \/ WriteFails(i) \/ PickDownloads(i) \/ PickCancelled(i)
                \/ \E f \in Files : PickDone(i, f)
    BY <2>1, <2>10 DEF Fails, ConvertDone, DecryptRefused, WriteDone, WriteFails,
          PickDownloads, PickCancelled, PickDone, Left, Ghosts
  <2>11. CASE \E i \in DOMAIN tasks : EncryptDone(i) \/ DecryptDone(i) \/ AttachDone(i)
    BY <2>1, <2>11 DEF EncryptDone, DecryptDone, Resume, AttachDone, Adopt, Ghosts
  <2> QED
    BY <2>3, <2>4, <2>5, <2>6, <2>7, <2>8, <2>9, <2>10, <2>11 DEF Next, Window, Settles
<1>2. Inv /\ [Next]_vars => [A]_vars
  BY <1>1
<1> QED BY <1>2, Invariance, PTL DEF Spec, DiscardsAsked

\* The form is hidden only while the container has no schema (hasSchema).
FormShown == live.form = None => base.form = None

LEMMA FormStep == Inv /\ FormShown /\ [Next]_vars => FormShown'
<1> SUFFICES ASSUME Inv, FormShown, [Next]_vars, live'.form = None PROVE base'.form = None
  BY DEF FormShown
<1>1. /\ live \in Lives /\ base \in Containers
      /\ Working.form = (IF live.form = None THEN base.form ELSE Canonical[live.form])
  BY WorkingIs DEF Inv, TypeOK
<1>2. ASSUME NEW c, Working.form = c.form, base' = c, live'.form = live.form
      PROVE  base'.form = None
  BY <1>1, <1>2 DEF FormShown
<1>3. ASSUME NEW c \in Containers, base' = c, live' = Buffers(c) PROVE base'.form = None
  BY <1>3 DEF Buffers
<1>4. ASSUME NEW c, NEW u, NEW a, NEW o, Replace(c, u, a, o) PROVE base'.form = None
  <2>1. base' = c /\ live'.form = c.form
    BY <1>4 DEF Replace, Buffers
  <2> QED BY <2>1
<1>5. CASE UNCHANGED <<base, live>>
  BY <1>5 DEF FormShown
<1>6. CASE (\E t \in Typeable : Type(t)) \/ (\E f \in Fillable : Fill(f)) \/ AddSchema
  <2>1. CASE \E t \in Typeable : Type(t)
    BY <1>1, <2>1 DEF Type, Input, Lives, FormShown
  <2>2. CASE (\E f \in Fillable : Fill(f)) \/ AddSchema
    BY <1>1, <2>2, WebValues DEF Fill, AddSchema, Lives
  <2> QED BY <1>6, <2>1, <2>2
<1>7. CASE Panels
  <2>1. CASE Encrypt \/ Decrypt \/ Attach
    BY <1>5, <2>1 DEF Encrypt, Decrypt, Attach
  <2>2. CASE ~(Encrypt \/ Decrypt \/ Attach)
    <3>1. base'.form = Working.form /\ live'.form = live.form
      BY <1>1, <1>7, <2>2, WorkingIs DEF Panels, AddManifest, Sign, RemoveSignature, AppendAudit,
         WriteCheckpoint, PanelEdit, Adopt, ManifestSeen, Rebuilt, Lives, Containers
    <3> QED BY <1>2, <3>1
  <2> QED BY <2>1, <2>2
<1>8. CASE Window
  <2>1. CASE Save \/ SaveAs
    <3>1. Pack
      BY <2>1 DEF Save, SaveAs
    <3>2. base'.form = Working.form
      BY <3>1, WorkingIs, PackedIs, RestIs DEF Pack
    <3>3. live'.form = live.form
      BY <1>1, <3>1 DEF Pack, Lives
    <3> QED BY <1>2, <3>2, <3>3
  <2>2. CASE Open \/ Import \/ CancelImport \/ \E f \in Droppable : Drop(f)
    BY <1>5, <2>2 DEF Open, Import, CancelImport, Drop
  <2>3. CASE New \/ AcceptImport
    BY <1>4, <2>3 DEF New, AcceptImport
  <2> QED BY <1>8, <2>1, <2>2, <2>3 DEF Window
<1>9. CASE \E i \in DOMAIN tasks : Settles(i)
  <2>1. PICK i \in DOMAIN tasks : Settles(i)
    BY <1>9
  <2>2. CASE DropDone(i) \/ \E f \in Files : \E h \in {f, None} : OpenDone(i, f, h)
    BY <1>4, <2>2 DEF DropDone, OpenDone
  <2>3. CASE EncryptDone(i) \/ DecryptDone(i)
    BY <2>3 DEF EncryptDone, DecryptDone, Resume, Buffers
  <2>4. CASE AttachDone(i)
    <3>1. base'.form = Working.form
      BY <2>4, WorkingIs DEF AttachDone, Adopt, Containers
    <3>2. live'.form = live.form
      BY <1>1, <2>4 DEF AttachDone, Lives
    <3> QED BY <1>2, <3>1, <3>2
  <2>5. CASE \/ Fails(i) \/ ConvertDone(i) \/ DecryptRefused(i)
             \/ WriteDone(i) \/ WriteFails(i) \/ PickDownloads(i) \/ PickCancelled(i)
             \/ \E f \in Files : PickDone(i, f)
    BY <1>5, <2>5 DEF Fails, ConvertDone, DecryptRefused, WriteDone, WriteFails,
          PickDownloads, PickCancelled, PickDone
  <2> QED BY <2>1, <2>2, <2>3, <2>4, <2>5 DEF Settles
<1>10. CASE UNCHANGED vars
  BY <1>5, <1>10 DEF vars
<1> QED BY <1>6, <1>7, <1>8, <1>9, <1>10 DEF Next

\* w holds what b holds.
Keeps(b, w) ==
  /\ w.log >= b.log /\ (w.mark >= b.mark \/ w.mark = b.log)
  /\ w.assets >= b.assets /\ (b.manifest # None => w.manifest # None)

\* What the text and the schema say is the same, or has the picture in it.
SaysOn == Says' \in {Says, [Says EXCEPT !.text = Canonical[Pictured[live.text]]]}

LEMMA SaysIs ==
  ASSUME Inv, FormShown
  PROVE  /\ Says.text = Canonical[Working.text] /\ Says.form = Working.form
         /\ live.form # None => Canonical[Working.form] = Working.form
         /\ live.form = None => Working.form = None
         /\ Canonical[Canonical[Working.text]] = Canonical[Working.text]
         /\ ~live.sealed => Says.text = Working.text
<1>1. /\ live \in Lives /\ base \in Containers /\ Working \in Containers
      /\ Working.text = (IF live.sealed THEN base.text ELSE Canonical[live.text])
      /\ Working.form = (IF live.form = None THEN base.form ELSE Canonical[live.form])
  BY WorkingIs DEF Inv, TypeOK
<1>2. Working.text \in Texts
  BY <1>1 DEF Containers
<1>3. live.text \in Texts /\ live.form \in Forms \union {None}
  BY <1>1 DEF Lives
<1> QED BY <1>1, <1>2, <1>3, WebValues DEF Says, FormShown

LEMMA NothingLost ==
  ASSUME Inv, base' = base
  PROVE  Keeps(base, base') /\ (live' = live => SaysOn)
<1>1. /\ base.log \in Nat /\ base.mark \in Nat /\ base.assets \in Nat
  BY WebBounds DEF Inv, TypeOK, Containers
<1>2. Keeps(base, base')
  BY <1>1 DEF Keeps
<1>3. live' = live => Says' = Says
  BY StoreIs, StoreWillBe DEF Says
<1> QED BY <1>2, <1>3 DEF SaysOn

LEMMA SaysSame ==
  ASSUME Inv, FormShown, base' \in Containers, live' \in Lives,
         base'.text = Working.text, base'.form = Working.form,
         live'.text = live.text, live'.form = live.form, live'.sealed = live.sealed
  PROVE  Says' = Says
<1>1. /\ live \in Lives /\ base \in Containers /\ live.sealed = base.sealed
  BY DEF Inv, TypeOK
<1>2. /\ base'.text = Rebased(base, live).text /\ base'.form = Rebased(base, live).form
  BY StoreIs
<1>3. \A b2 \in Containers, l2 \in Lives :
        /\ b2.text = Rebased(base, live).text /\ b2.form = Rebased(base, live).form
        /\ l2.text = live.text /\ l2.form = live.form /\ l2.sealed = live.sealed
        => Rebased(b2, l2).text = b2.text /\ Rebased(b2, l2).form = b2.form
  BY <1>1, RebasedAgain
<1>4. Working'.text = base'.text /\ Working'.form = base'.form
  BY <1>2, <1>3, StoreWillBe
<1>5. Says' = [text |-> Canonical[Working'.text], form |-> Working'.form]
  BY DEF Says
<1> QED BY <1>4, <1>5 DEF Says

LEMMA PanelKeepsAll ==
  ASSUME Inv, FormShown, NEW c \in Containers, PanelEdit(c), Keeps(base, c),
         c.text = Working.text, c.form = Working.form,
         live' \in Lives, live'.text = live.text, live'.form = live.form,
         live'.sealed = live.sealed
  PROVE  Keeps(base, base') /\ SaysOn
<1>1. base' = c
  BY DEF PanelEdit, Adopt
<1> QED BY <1>1, SaysSame DEF SaysOn

LEMMA PanelsLose ==
  ASSUME Inv, FormShown, Panels
  PROVE  Keeps(base, base') /\ SaysOn
<1> DEFINE w == Working
<1>1. /\ w \in Containers /\ w.assets = base.assets /\ w.log = base.log /\ w.mark = base.mark
      /\ w.manifest = base.manifest /\ live \in Lives /\ base \in Containers
      /\ live.stored = base.manifest
  BY WorkingIs DEF Inv, TypeOK
<1>2. w = Working
  OBVIOUS
<1>3. /\ base.log \in Nat /\ base.mark \in Nat /\ base.assets \in Nat
  BY <1>1, WebBounds DEF Containers
<1> HIDE DEF w
<1> DEFINE m == Rebuilt(w)
           g == Listing(w)
<1>4. /\ m \in Containers /\ m.manifest = g /\ g \in Listings /\ g # None
      /\ m.log = w.log /\ m.mark = w.mark /\ m.assets = w.assets
      /\ m.text = w.text /\ m.form = w.form
  BY <1>1, RebuiltIs, ListingIs, RestIs
<1>5. /\ m = Rebuilt(Working) /\ g = Listing(Working)
  BY <1>2
<1> HIDE DEF m, g
<1>6. CASE AddManifest
  <2>1. PanelEdit(m) /\ live' = [live EXCEPT !.stored = g]
    BY <1>5, <1>6 DEF AddManifest, ManifestSeen
  <2>2. /\ live' \in Lives /\ live'.text = live.text /\ live'.form = live.form
        /\ live'.sealed = live.sealed
    BY <1>1, <1>4, <2>1 DEF Lives
  <2>3. Keeps(base, m)
    BY <1>1, <1>3, <1>4 DEF Keeps
  <2> QED BY <1>2, <1>4, <2>1, <2>2, <2>3, PanelKeepsAll
<1>7. CASE Sign
  <2> DEFINE c == [m EXCEPT !.sig = g]
  <2>1. PanelEdit(c) /\ live' = [live EXCEPT !.stored = g]
    BY <1>5, <1>7 DEF Sign, ManifestSeen
  <2>2. /\ live' \in Lives /\ live'.text = live.text /\ live'.form = live.form
        /\ live'.sealed = live.sealed
    BY <1>1, <1>4, <2>1 DEF Lives
  <2>3. /\ c \in Containers /\ c.manifest = m.manifest /\ c.log = m.log /\ c.mark = m.mark
        /\ c.assets = m.assets /\ c.text = m.text /\ c.form = m.form
    BY <1>4 DEF Containers
  <2> HIDE DEF c
  <2>4. Keeps(base, c)
    BY <1>1, <1>3, <1>4, <2>3 DEF Keeps
  <2> QED BY <1>2, <1>4, <2>1, <2>2, <2>3, <2>4, PanelKeepsAll
<1>8. CASE RemoveSignature
  <2> DEFINE c == [w EXCEPT !.sig = None]
  <2>1. PanelEdit(c) /\ live' = live
    BY <1>2, <1>8 DEF RemoveSignature
  <2>2. /\ c \in Containers /\ c.manifest = w.manifest /\ c.log = w.log /\ c.mark = w.mark
        /\ c.assets = w.assets /\ c.text = w.text /\ c.form = w.form
    BY <1>1 DEF Containers
  <2> HIDE DEF c
  <2>3. Keeps(base, c)
    BY <1>1, <1>3, <2>2 DEF Keeps
  <2> QED BY <1>1, <1>2, <2>1, <2>2, <2>3, PanelKeepsAll
<1>9. CASE AppendAudit
  <2> DEFINE n == w.log + 1
             c == [w EXCEPT !.log = n]
  <2>1. PanelEdit(c) /\ live' = live /\ base.log < MaxLog
    BY <1>1, <1>2, <1>9 DEF AppendAudit, Containers
  <2>2. n \in 0..MaxLog /\ n >= base.log
    BY <1>1, <1>3, <2>1, WebBounds
  <2> HIDE DEF n
  <2>3. /\ c \in Containers /\ c.manifest = w.manifest /\ c.log = n /\ c.mark = w.mark
        /\ c.assets = w.assets /\ c.text = w.text /\ c.form = w.form
    BY <1>1, <2>2 DEF Containers
  <2> HIDE DEF c
  <2>4. Keeps(base, c)
    BY <1>1, <1>3, <2>2, <2>3 DEF Keeps
  <2> QED BY <1>1, <1>2, <2>1, <2>3, <2>4, PanelKeepsAll
<1>10. CASE WriteCheckpoint
  <2> DEFINE n == base.log
             c == [w EXCEPT !.mark = n]
  <2>1. PanelEdit(c) /\ live' = live
    BY <1>2, <1>10 DEF WriteCheckpoint
  <2>2. n \in 0..MaxLog /\ n = base.log
    BY <1>1 DEF Containers
  <2> HIDE DEF n
  <2>3. /\ c \in Containers /\ c.manifest = w.manifest /\ c.log = w.log /\ c.mark = n
        /\ c.assets = w.assets /\ c.text = w.text /\ c.form = w.form
    BY <1>1, <2>2 DEF Containers
  <2> HIDE DEF c
  <2>4. Keeps(base, c)
    BY <1>1, <1>3, <2>2, <2>3 DEF Keeps
  <2> QED BY <1>1, <1>2, <2>1, <2>3, <2>4, PanelKeepsAll
<1>11. CASE Encrypt \/ Decrypt \/ Attach
  <2>1. base' = base /\ live' = live
    BY <1>11 DEF Encrypt, Decrypt, Attach
  <2> QED BY <1>3, <2>1, NothingLost
<1> QED BY <1>6, <1>7, <1>8, <1>9, <1>10, <1>11 DEF Panels

\* A result that is not late was worked out from what the store still holds.
LEMMA ResumeLoses ==
  ASSUME Inv, FormShown, NEW i \in DOMAIN tasks, tasks[i].kind \in Ciphers,
         NEW c \in Containers, Resume(i, c), ~ghost'.late, ~ghost'.crossed,
         c.text = tasks[i].box.text, c.form = tasks[i].box.form,
         c.log = tasks[i].box.log, c.mark = tasks[i].box.mark,
         c.assets = tasks[i].box.assets, c.manifest # None
  PROVE  Keeps(base, base') /\ SaysOn
<1> DEFINE t == tasks[i]
           w == Working
           x == t.box
<1>1. /\ t \in Tasks /\ FitTo(t, base, Rebased(base, live), ghost, Risky(base, live))
      /\ ghost \in Ghosts
  BY SettlingIs DEF Inv, TypeOK
<1>2. base' = c /\ live' = Buffers(c) /\ ~t.late /\ t.here
  BY <1>1 DEF Resume, Ghosts, Tasks
<1>3. x \in Containers /\ w \in Containers /\ Rest(x) = Rest(w)
  <2> DEFINE r == Rebased(base, live)
             k == Risky(base, live)
  <2>3. FitTo(t, base, r, ghost, k) /\ t.kind \in Ciphers /\ ~t.late /\ t.here
    BY <1>1, <1>2
  <2> HIDE DEF r, k, t
  <2>4. t.box # None /\ Rest(t.box) = Rest(r)
    BY <2>3 DEF FitTo
  <2>1. x # None /\ Rest(x) = Rest(Rebased(base, live))
    BY <2>4 DEF r
  <2>2. x \in Containers
    BY <1>1, <2>1 DEF Tasks
  <2> QED BY <2>1, <2>2, StoreIs, WorkingIs
<1>4. /\ w.log = base.log /\ w.mark = base.mark /\ w.assets = base.assets /\ w = Working
      /\ base.log \in Nat /\ base.mark \in Nat /\ base.assets \in Nat
  <2>1. base \in Containers
    BY DEF Inv, TypeOK
  <2>2. /\ base.log \in Nat /\ base.mark \in Nat /\ base.assets \in Nat
    BY <2>1, WebBounds DEF Containers
  <2> QED BY <2>2, WorkingIs
<1>5. x = tasks[i].box
  OBVIOUS
<1> HIDE DEF w, x
<1>6. /\ c.text = w.text /\ c.form = w.form /\ c.log = w.log /\ c.mark = w.mark
      /\ c.assets = w.assets
  BY <1>3, <1>5, RestIs
<1>7. Keeps(base, base')
  BY <1>2, <1>4, <1>6 DEF Keeps
<1>8. /\ live' \in Lives /\ live'.sealed = c.sealed /\ live'.form = c.form
      /\ live'.text = (IF c.sealed THEN Empty ELSE c.text)
  BY <1>2, WebValues DEF Buffers, Lives, Containers
<1>9. /\ Working'.text = (IF live'.sealed THEN c.text ELSE Canonical[live'.text])
      /\ Working'.form = (IF live'.form = None THEN c.form ELSE Canonical[live'.form])
  BY <1>2, <1>8, RebasedIs, StoreWillBe
<1>10. Canonical[Working'.text] = Says.text /\ Working'.form = Says.form
  BY <1>4, <1>6, <1>8, <1>9, SaysIs
<1>11. Says' = Says
  <2>1. Says' = [text |-> Canonical[Working'.text], form |-> Working'.form]
    BY DEF Says
  <2>2. Says = [text |-> Says.text, form |-> Says.form]
    BY DEF Says
  <2> QED BY <1>10, <2>1, <2>2
<1> QED BY <1>7, <1>11 DEF SaysOn

LEMMA AttachLoses ==
  ASSUME Inv, FormShown, NEW i \in DOMAIN tasks, AttachDone(i)
  PROVE  Keeps(base, base') /\ SaysOn
<1> DEFINE w == Working
           n == w.assets + 1
           c == [w EXCEPT !.assets = n]
<1>1. /\ w \in Containers /\ w.assets = base.assets /\ w.log = base.log /\ w.mark = base.mark
      /\ w.manifest = base.manifest /\ live \in Lives /\ base \in Containers
      /\ live.sealed = base.sealed /\ w = Working
      /\ w.text = (IF live.sealed THEN base.text ELSE Canonical[live.text])
      /\ w.form = (IF live.form = None THEN base.form ELSE Canonical[live.form])
  BY WorkingIs DEF Inv, TypeOK
<1>2. /\ base.log \in Nat /\ base.mark \in Nat /\ base.assets \in Nat
  BY <1>1, WebBounds DEF Containers
<1>3. base' = c /\ live' = [live EXCEPT !.text = Pictured[@]] /\ base.assets < MaxAssets
  BY <1>1 DEF AttachDone, Adopt, Containers
<1> HIDE DEF w
<1>4. n \in 0..MaxAssets /\ n >= base.assets
  BY <1>1, <1>2, <1>3, WebBounds
<1> HIDE DEF n
<1>5. /\ c \in Containers /\ c.manifest = w.manifest /\ c.log = w.log /\ c.mark = w.mark
      /\ c.assets = n /\ c.text = w.text /\ c.form = w.form
  BY <1>1, <1>4 DEF Containers
<1> HIDE DEF c
<1>6. Keeps(base, base')
  BY <1>1, <1>2, <1>3, <1>4, <1>5 DEF Keeps
<1>7. live.text \in Texts /\ Pictured[live.text] \in Texts
  BY <1>1, WebValues DEF Lives
<1>8. /\ live' \in Lives /\ live'.text = Pictured[live.text] /\ live'.form = live.form
      /\ live'.sealed = live.sealed
  BY <1>1, <1>3, <1>7 DEF Lives
<1>9. /\ Working'.text = (IF live'.sealed THEN c.text ELSE Canonical[live'.text])
      /\ Working'.form = (IF live'.form = None THEN c.form ELSE Canonical[live'.form])
  BY <1>3, <1>5, <1>8, RebasedIs, StoreWillBe
<1>10. Working'.form = Says.form
  BY <1>1, <1>5, <1>8, <1>9, SaysIs
<1>11. \/ Canonical[Working'.text] = Says.text
       \/ Canonical[Working'.text] = Canonical[Pictured[live.text]]
  <2>1. CASE live.sealed
    BY <1>1, <1>5, <1>8, <1>9, <2>1, SaysIs
  <2>2. CASE ~live.sealed
    BY <1>7, <1>8, <1>9, <2>2, WebValues
  <2> QED BY <2>1, <2>2
<1>12. Says' = [text |-> Canonical[Working'.text], form |-> Working'.form]
  BY DEF Says
<1>13. /\ Says = [text |-> Says.text, form |-> Says.form]
       /\ [Says EXCEPT !.text = Canonical[Pictured[live.text]]]
            = [text |-> Canonical[Pictured[live.text]], form |-> Says.form]
  BY DEF Says
<1> QED BY <1>6, <1>10, <1>11, <1>12, <1>13 DEF SaysOn

LEMMA LoseStep ==
  ASSUME Inv, FormShown, Next, ghost'.turn = ghost.turn, ~ghost'.late, ~ghost'.crossed
  PROVE  Keeps(base, base') /\ (inputs' = inputs => SaysOn)
<1>1. /\ ghost \in Ghosts /\ inputs \in Nat /\ live \in Lives /\ base \in Containers
  BY WebBounds DEF Inv, TypeOK
<1>2. ASSUME NEW c, NEW u, NEW a, NEW o, Replace(c, u, a, o) PROVE FALSE
  BY <1>1, <1>2 DEF Replace, Ghosts
<1>3. CASE (\E t \in Typeable : Type(t)) \/ (\E f \in Fillable : Fill(f)) \/ AddSchema
  <2>1. base' = base /\ inputs' # inputs
    BY <1>1, <1>3 DEF Type, Fill, AddSchema, Input
  <2> QED BY <2>1, NothingLost
<1>4. CASE Panels
  BY <1>4, PanelsLose
<1>5. CASE Window
  <2>1. CASE Save \/ SaveAs
    <3> DEFINE p == Packed
    <3>1. Pack
      BY <2>1 DEF Save, SaveAs
    <3>2. /\ p \in Containers /\ Rest(p) = Rest(Working) /\ Working \in Containers
          /\ p.manifest = None <=> base.manifest = None
      BY PackedIs, WorkingIs
    <3>3. base' = p /\ live' = [live EXCEPT !.stored = p.manifest, !.unsaved = FALSE]
      BY <3>1 DEF Pack
    <3> HIDE DEF p
    <3>4. /\ p.text = Working.text /\ p.form = Working.form /\ p.log = base.log
          /\ p.mark = base.mark /\ p.assets = base.assets
      BY <3>2, RestIs, WorkingIs
    <3>5. p.manifest \in Listings \union {None}
      BY <3>2 DEF Containers
    <3>6. /\ live' \in Lives /\ live'.text = live.text /\ live'.form = live.form
          /\ live'.sealed = live.sealed
      BY <1>1, <3>3, <3>5 DEF Lives
    <3>7. base.log \in Nat /\ base.mark \in Nat /\ base.assets \in Nat
      BY <1>1, WebBounds DEF Containers
    <3>8. Keeps(base, base')
      BY <3>2, <3>3, <3>4, <3>7 DEF Keeps
    <3>9. Says' = Says
      BY <3>2, <3>3, <3>4, <3>6, SaysSame
    <3> QED BY <3>8, <3>9 DEF SaysOn
  <2>2. CASE Open \/ Import \/ CancelImport \/ \E f \in Droppable : Drop(f)
    <3>1. base' = base /\ live' = live
      BY <2>2 DEF Open, Import, CancelImport, Drop
    <3> QED BY <3>1, NothingLost
  <2>3. CASE New \/ AcceptImport
    BY <1>2, <2>3 DEF New, AcceptImport
  <2> QED BY <1>5, <2>1, <2>2, <2>3 DEF Window
<1>6. CASE \E i \in DOMAIN tasks : Settles(i)
  <2>1. PICK i \in DOMAIN tasks : Settles(i)
    BY <1>6
  <2>2. CASE DropDone(i) \/ \E f \in Files : \E h \in {f, None} : OpenDone(i, f, h)
    BY <1>2, <2>2 DEF DropDone, OpenDone
  <2> DEFINE x == tasks[i].box
  <2>3. tasks[i].kind \in Ciphers => x \in Containers
    BY SettlingIs DEF FitTo, Tasks
  <2> HIDE DEF x
  <2>4. CASE EncryptDone(i)
    <3> DEFINE c == Sealed(x, ghost.seals)
    <3>1. Resume(i, c) /\ tasks[i].kind \in Ciphers
      BY <2>4 DEF EncryptDone, Ciphers, x
    <3>2. ghost.seals \in 0..MaxSeals
      BY <1>1 DEF Ghosts
    <3>3. /\ c \in Containers /\ c.text = x.text /\ c.form = x.form /\ c.log = x.log
          /\ c.mark = x.mark /\ c.assets = x.assets /\ c.manifest # None
      BY <2>3, <3>1, <3>2, SealedIs
    <3> HIDE DEF c
    <3> QED BY <3>1, <3>3, ResumeLoses DEF x
  <2>5. CASE DecryptDone(i)
    <3> DEFINE c == Opened(x)
    <3>1. Resume(i, c) /\ tasks[i].kind \in Ciphers
      BY <2>5 DEF DecryptDone, Ciphers, x
    <3>2. /\ c \in Containers /\ c.text = x.text /\ c.form = x.form /\ c.log = x.log
          /\ c.mark = x.mark /\ c.assets = x.assets /\ c.manifest # None
      BY <2>3, <3>1, OpenedIs
    <3> HIDE DEF c
    <3> QED BY <3>1, <3>2, ResumeLoses DEF x
  <2>6. CASE AttachDone(i)
    BY <2>6, AttachLoses
  <2>7. CASE \/ Fails(i) \/ ConvertDone(i) \/ DecryptRefused(i)
             \/ WriteDone(i) \/ WriteFails(i) \/ PickDownloads(i) \/ PickCancelled(i)
             \/ \E f \in Files : PickDone(i, f)
    <3>1. base' = base /\ live' = live
      BY <2>7 DEF Fails, ConvertDone, DecryptRefused, WriteDone, WriteFails,
         PickDownloads, PickCancelled, PickDone
    <3> QED BY <3>1, NothingLost
  <2> QED BY <2>1, <2>2, <2>4, <2>5, <2>6, <2>7 DEF Settles
<1> QED BY <1>3, <1>4, <1>5, <1>6 DEF Next

\* Within a document, only a result applied over later changes takes anything away.
THEOREM NothingLostCorrect == Spec => OnlyLateResultsLose
<1> DEFINE A == ghost'.turn = ghost.turn /\ ~ghost'.late /\ ~ghost'.crossed =>
                  Keeps(base, base') /\ (inputs' = inputs => SaysOn)
<1>1. Init => FormShown
  BY DEF Init, FormShown, Buffers
<1>2. Inv /\ FormShown /\ [Next]_vars => [A]_vars
  BY LoseStep
<1>3. Spec => [][A]_vars
  BY <1>1, <1>2, FormStep, Invariance, PTL DEF Spec
<1>4. [A]_vars => [ghost'.turn = ghost.turn /\ ~ghost'.late /\ ~ghost'.crossed =>
       /\ base'.log >= base.log /\ (base'.mark >= base.mark \/ base'.mark = base.log)
       /\ base'.assets >= base.assets
       /\ (base.manifest # None => base'.manifest # None)
       /\ (inputs' = inputs =>
             Says' \in {Says, [Says EXCEPT !.text = Canonical[Pictured[live.text]]]})]_vars
  BY DEF Keeps, SaysOn
<1> QED BY <1>3, <1>4, PTL DEF OnlyLateResultsLose

=============================================================================
