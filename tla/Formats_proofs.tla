--------------------------- MODULE Formats_proofs ---------------------------
(***************************************************************************)
(* What the implementations make of a content.md, and how one is made of a *)
(* book or a page, for documents of any length.                            *)
(***************************************************************************)
EXTENDS Windows, TextBlocks, HeadingIds, RenderWalk, EpubImport, HtmlNormalize, FiniteSetTheorems, SequenceTheorems, NaturalsInduction, WellFoundedInduction, TLAPS

----------------------------------------------------------------------------
(* Of sets of numbers, and of folds. *)

Below == {pair \in Nat \X Nat : pair[1] < pair[2]}

\* A set of numbers that is not empty has a least one.
LEMMA LeastNat ==
  ASSUME NEW T, T \subseteq Nat, T # {}
  PROVE  \E x \in T : \A y \in T : x <= y
<1>1. IsWellFoundedOn(Below, Nat)
  BY NatLessThanWellFounded DEF OpToRel, Below
<1>2. \E x \in T : \A y \in T : ~(<<y, x>> \in Below)
  BY <1>1, WFMin, Zenon
<1>3. PICK x \in T : \A y \in T : ~(<<y, x>> \in Below)
  BY <1>2
<1>4. \A y \in T : ~(y < x)
  BY <1>3 DEF Below
<1> QED BY <1>4

\* And one up to n has a greatest, the only one.
LEMMA GreatestNat ==
  ASSUME NEW n \in Nat, NEW T, T \subseteq 1 .. n, T # {}
  PROVE  /\ Max(T) \in T
         /\ \A y \in T : y <= Max(T)
<1> DEFINE D == {d \in Nat : \E x \in T : d = n - x}
<1>1. \A x \in T : n - x \in D
  OBVIOUS
<1>2a. D \subseteq Nat /\ D # {}
  BY <1>1
<1>2. PICK d \in D : \A e \in D : d <= e
  <2> HIDE DEF D
  <2> QED BY <1>2a, LeastNat
<1>3. PICK x \in T : d = n - x
  BY <1>2
<1>4. \A y \in T : y <= x
  <2> TAKE y \in T
  <2>1. n - y \in D
    BY <1>1
  <2> QED BY <1>2, <1>3, <2>1
<1> QED BY <1>3, <1>4 DEF Max

\* A fold from the left over the places in a set, the greatest last.
FoldsUpTo(f, k, X, base, h) ==
  /\ f \in [SUBSET (1 .. k) -> X]
  /\ \A s \in SUBSET (1 .. k) : f[s] = IF s = {} THEN base ELSE h[<<f[s \ {Max(s)}], Max(s)>>]

LEMMA FoldOfNone ==
  ASSUME NEW X, NEW base \in X, NEW h
  PROVE  \E f : FoldsUpTo(f, 0, X, base, h)
<1>1. 1 .. 0 = {}
  OBVIOUS
<1>2. \A s \in SUBSET (1 .. 0) : s = {}
  BY <1>1
<1>3. FoldsUpTo([s \in SUBSET (1 .. 0) |-> base], 0, X, base, h)
  BY <1>2 DEF FoldsUpTo
<1> QED BY <1>3

LEMMA FoldOfOneMore ==
  ASSUME NEW n \in Nat, NEW X, NEW base \in X, NEW h \in [X \X (1 .. n) -> X],
         NEW k \in 1 .. n, NEW f, FoldsUpTo(f, k - 1, X, base, h)
  PROVE  \E g : FoldsUpTo(g, k, X, base, h)
<1> DEFINE g == [s \in SUBSET (1 .. k) |-> IF k \in s THEN h[<<f[s \ {k}], k>>] ELSE f[s]]
<1>1. ASSUME NEW s \in SUBSET (1 .. k), k \in s
      PROVE  /\ Max(s) = k
             /\ s \ {k} \in SUBSET (1 .. k - 1) /\ s \ {k} \in SUBSET (1 .. k)
  <2> HIDE DEF g
  <2>1. k \in Nat /\ s \subseteq 1 .. k /\ s # {}
    BY <1>1
  <2>2. Max(s) \in s /\ \A y \in s : y <= Max(s)
    BY <2>1, GreatestNat
  <2>3. PICK m \in 1 .. k : m = Max(s)
    BY <2>1, <2>2
  <2>4. k <= m
    BY <1>1, <2>2, <2>3
  <2>5. Max(s) = k
    BY <2>1, <2>3, <2>4
  <2> QED BY <2>1, <2>5
<1>2. ASSUME NEW s \in SUBSET (1 .. k), k \notin s
      PROVE  s \in SUBSET (1 .. k - 1)
  <2> HIDE DEF g
  <2> QED BY <1>2
<1>3. ASSUME NEW s \in SUBSET (1 .. k - 1)
      PROVE  f[s] \in X /\ g[s] = f[s] /\ f[s] = IF s = {} THEN base ELSE h[<<f[s \ {Max(s)}], Max(s)>>]
  <2>1. s \in SUBSET (1 .. k) /\ k \notin s
    <3> HIDE DEF g
    <3> QED OBVIOUS
  <2> QED BY <2>1 DEF FoldsUpTo
<1>4. ASSUME NEW s \in SUBSET (1 .. k)
      PROVE  g[s] \in X /\ g[s] = IF s = {} THEN base ELSE h[<<g[s \ {Max(s)}], Max(s)>>]
  <2>1. CASE k \in s
    <3>1. Max(s) = k /\ s \ {k} \in SUBSET (1 .. k - 1)
      BY <1>1, <2>1
    <3>2. f[s \ {k}] \in X /\ g[s \ {k}] = f[s \ {k}]
      BY <1>3, <3>1
    <3>3. g[s] = h[<<f[s \ {k}], k>>]
      BY <2>1
    <3> HIDE DEF g
    <3>4. <<f[s \ {k}], k>> \in X \X (1 .. n)
      BY <3>2
    <3>5. h[<<f[s \ {k}], k>>] \in X
      BY <3>4
    <3> QED BY <2>1, <3>1, <3>2, <3>3, <3>5
  <2>2. CASE k \notin s
    <3>1. s \in SUBSET (1 .. k - 1)
      BY <1>2, <2>2
    <3>2. f[s] \in X /\ g[s] = f[s] /\ f[s] = IF s = {} THEN base ELSE h[<<f[s \ {Max(s)}], Max(s)>>]
      BY <1>3, <3>1
    <3>3. s \ {Max(s)} \in SUBSET (1 .. k - 1)
      BY <3>1
    <3>4. g[s \ {Max(s)}] = f[s \ {Max(s)}]
      BY <1>3, <3>3
    <3> HIDE DEF g
    <3> QED BY <3>2, <3>4
  <2> QED BY <2>1, <2>2
<1>5. g \in [SUBSET (1 .. k) -> X]
  BY <1>4
<1> HIDE DEF g
<1>6. FoldsUpTo(g, k, X, base, h)
  BY <1>4, <1>5 DEF FoldsUpTo
<1> QED BY <1>6

\* There is one for every number of places.  By the least number for which there is none.
LEMMA FoldsExist ==
  ASSUME NEW n \in Nat, NEW X, NEW base \in X, NEW h \in [X \X (1 .. n) -> X]
  PROVE  \E f : FoldsUpTo(f, n, X, base, h)
<1> DEFINE Bad == {k \in 0 .. n : ~\E f : FoldsUpTo(f, k, X, base, h)}
<1>1. SUFFICES ASSUME Bad # {}
               PROVE  FALSE
  OBVIOUS
<1>2. PICK k \in Bad : \A m \in Bad : k <= m
  <2>1. Bad \subseteq Nat
    OBVIOUS
  <2> HIDE DEF Bad
  <2> QED BY <1>1, <2>1, LeastNat
<1>3. k \in 0 .. n /\ ~\E f : FoldsUpTo(f, k, X, base, h)
  BY <1>2
<1>4. k # 0
  BY <1>3, FoldOfNone
<1>5. k - 1 \in 0 .. n /\ ~(k - 1 \in Bad)
  <2> HIDE DEF Bad
  <2> QED BY <1>2, <1>3, <1>4
<1>6. PICK f : FoldsUpTo(f, k - 1, X, base, h)
  BY <1>5
<1> HIDE DEF Bad
<1>7. k \in 1 .. n
  BY <1>3, <1>4
<1> QED BY <1>3, <1>6, <1>7, FoldOfOneMore

\* The places up to one, and the one before.
LEMMA Interval ==
  ASSUME NEW n \in Nat, NEW k \in 1 .. n
  PROVE  /\ 1 .. k \in SUBSET (1 .. n) /\ 1 .. k # {}
         /\ Max(1 .. k) = k /\ (1 .. k) \ {Max(1 .. k)} = 1 .. k - 1
<1>1. 1 .. k \in SUBSET (1 .. n) /\ 1 .. k # {} /\ k \in 1 .. k /\ k \in Nat
  OBVIOUS
<1>2. Max(1 .. k) \in 1 .. k /\ \A y \in 1 .. k : y <= Max(1 .. k)
  BY <1>1, GreatestNat
<1>3. Max(1 .. k) = k
  BY <1>1, <1>2
<1>4. (1 .. k) \ {k} = 1 .. k - 1
  OBVIOUS
<1> QED BY <1>1, <1>3, <1>4

\* What holds before the first step and is kept by each of n holds after them.  By the least
\* step after which it does not.
LEMMA StaysIn ==
  ASSUME NEW n \in Nat, NEW X, NEW f, f[0] \in X, \A k \in 1 .. n : f[k - 1] \in X => f[k] \in X
  PROVE  \A k \in 0 .. n : f[k] \in X
<1> DEFINE Bad == {k \in 0 .. n : f[k] \notin X}
<1>1. SUFFICES ASSUME Bad # {}
               PROVE  FALSE
  OBVIOUS
<1>2. PICK k \in Bad : \A m \in Bad : k <= m
  <2>1. Bad \subseteq Nat
    OBVIOUS
  <2> HIDE DEF Bad
  <2> QED BY <1>1, <2>1, LeastNat
<1>3. k \in 0 .. n /\ f[k] \notin X /\ k # 0
  BY <1>2
<1>4. k - 1 \in 0 .. n /\ ~(k - 1 \in Bad)
  <2> HIDE DEF Bad
  <2> QED BY <1>2, <1>3
<1>5. f[k - 1] \in X
  BY <1>4
<1> HIDE DEF Bad
<1> QED BY <1>3, <1>5

----------------------------------------------------------------------------
(* Headings. *)

MdOpen  == [char : Marks, inner : Nat \ {0}]
MdFence == [char : {"none", "tick", "tilde"}, run : Nat]
MdLeaf  == {"none", "text", "fenced", "code", "html"}
MdType  == [inside : Seq(MdOpen), leaf : MdLeaf, fence : MdFence, id : BOOLEAN, hollow : 0 .. 2, finds : BOOLEAN]
AtType  == [n : Nat, indent : Nat, mark : Marks, out : BOOLEAN]

LEMMA AtMoves ==
  ASSUME NEW at \in AtType, NEW n \in Nat, NEW mark \in Marks, NEW indent \in Nat
  PROVE  /\ [at EXCEPT !.n = n, !.mark = mark, !.indent = indent] \in AtType
         /\ [at EXCEPT !.n = n, !.indent = indent] \in AtType
         /\ [at EXCEPT !.n = n] \in AtType
         /\ [at EXCEPT !.out = TRUE] \in AtType /\ at.n \in Nat
BY DEF AtType

LEMMA EnterType ==
  ASSUME NEW at \in AtType, NEW c \in MdOpen
  PROVE  Enter(at, c) \in AtType /\ Enter(at, c).n <= at.n + 1
<1>1. /\ at.n \in Nat /\ at.n + 1 \in Nat /\ "none" \in Marks /\ 0 \in Nat
      /\ at.indent >= c.inner => at.indent - c.inner \in Nat
  BY DEF AtType, MdOpen, Marks
<1>2. /\ [at EXCEPT !.n = at.n + 1, !.mark = "none", !.indent = 0] \in AtType
      /\ [at EXCEPT !.n = at.n + 1, !.mark = "none", !.indent = 0].n = at.n + 1
  BY <1>1, AtMoves DEF AtType
<1>3. at.indent >= c.inner =>
        /\ [at EXCEPT !.n = at.n + 1, !.indent = at.indent - c.inner] \in AtType
        /\ [at EXCEPT !.n = at.n + 1, !.indent = at.indent - c.inner].n = at.n + 1
  BY <1>1, AtMoves DEF AtType
<1>4. [at EXCEPT !.out = TRUE] \in AtType /\ [at EXCEPT !.out = TRUE].n = at.n
  BY AtMoves DEF AtType
<1>5. /\ Enter(at, c) \in AtType
      /\ Enter(at, c).n = at.n \/ Enter(at, c).n = at.n + 1
  BY <1>2, <1>3, <1>4 DEF Enter
<1> QED BY <1>1, <1>5

LEMMA LineType ==
  ASSUME NEW l \in Lines
  PROVE  /\ l.indent \in Nat /\ l.indent \in Int /\ l.mark \in Marks /\ l.body \in Bodies
         /\ l.anchored \in BOOLEAN
         /\ l.anchored => l.body \in {"text", "atx"}
<1>1. l \in [indent : Indents, mark : Marks, body : Bodies, anchored : BOOLEAN]
      /\ (l.anchored => l.body \in {"text", "atx"})
  BY Zenon DEF Lines
<1>2. l.indent \in Indents /\ l.mark \in Marks /\ l.body \in Bodies /\ l.anchored \in BOOLEAN
  BY <1>1
<1>3. l.indent \in Nat
  BY <1>2, HeadingsConstants, Zenon
<1> QED BY <1>1, <1>2, <1>3

\* Going into the containers, one after the other.
LEMMA EnterSteps ==
  ASSUME NEW inside \in Seq(MdOpen), NEW start \in AtType
  PROVE  \E at : /\ at[0] = start
                 /\ \A k \in 1 .. Len(inside) : at[k] = Enter(at[k - 1], inside[k])
                 /\ FoldLeft(Enter, start, inside) = at[Len(inside)]
<1> DEFINE n == Len(inside)
           h == [p \in AtType \X (1 .. n) |-> Enter(p[1], inside[p[2]])]
           Iter(g) == g = [s \in SUBSET (DOMAIN inside) |->
                             IF s = {} THEN start ELSE Enter(g[s \ {Max(s)}], inside[Max(s)])]
           partial == CHOOSE g : Iter(g)
<1>1. n \in Nat /\ DOMAIN inside = 1 .. n /\ \A i \in 1 .. n : inside[i] \in MdOpen
  BY LenProperties, ElementOfSeq
<1>2. h \in [AtType \X (1 .. n) -> AtType]
  BY <1>1, EnterType
<1>3. PICK f : FoldsUpTo(f, n, AtType, start, h)
  <2> HIDE DEF n, h
  <2> QED BY <1>1, <1>2, FoldsExist
<1>4. ASSUME NEW s \in SUBSET (1 .. n), s # {}
      PROVE  h[<<f[s \ {Max(s)}], Max(s)>>] = Enter(f[s \ {Max(s)}], inside[Max(s)])
  <2>1. Max(s) \in 1 .. n
    <3> HIDE DEF n, h
    <3> QED BY <1>1, <1>4, GreatestNat
  <2>2. f[s \ {Max(s)}] \in AtType
    BY <1>3 DEF FoldsUpTo
  <2> QED BY <2>1, <2>2
<1>5. Iter(f)
  <2> HIDE DEF h, n
  <2> QED BY <1>1, <1>3, <1>4 DEF FoldsUpTo
<1>6. Iter(partial)
  <2> HIDE DEF Iter
  <2> QED BY <1>5
<1>7. FoldLeft(Enter, start, inside) = partial[1 .. n]
  BY <1>1 DEF FoldLeft, MapThenFoldSet
<1>8. partial[1 .. 0] = start /\ \A k \in 1 .. n : partial[1 .. k] = Enter(partial[1 .. k - 1], inside[k])
  <2> HIDE DEF partial
  <2>1. 1 .. 0 = {} /\ 1 .. 0 \in SUBSET (1 .. n)
    OBVIOUS
  <2> HIDE DEF n, h
  <2>2. partial[1 .. 0] = start
    BY <1>1, <1>6, <2>1
  <2>3. ASSUME NEW k \in 1 .. n
        PROVE  partial[1 .. k] = Enter(partial[1 .. k - 1], inside[k])
    <3>1. /\ 1 .. k \in SUBSET (1 .. n) /\ 1 .. k # {}
          /\ Max(1 .. k) = k /\ (1 .. k) \ {Max(1 .. k)} = 1 .. k - 1
      BY <1>1, Interval
    <3>2. partial[1 .. k] = Enter(partial[(1 .. k) \ {Max(1 .. k)}], inside[Max(1 .. k)])
      BY <1>1, <1>6, <3>1
    <3> QED BY <3>1, <3>2
  <2> QED BY <2>2, <2>3
<1> DEFINE at == [k \in 0 .. n |-> partial[1 .. k]]
<1>9. /\ at[0] = start
      /\ \A k \in 1 .. n : at[k] = Enter(at[k - 1], inside[k])
      /\ FoldLeft(Enter, start, inside) = at[n]
  <2> HIDE DEF partial, n
  <2> QED BY <1>1, <1>7, <1>8
<1> QED BY <1>9

\* A line is in as many containers as there are, at the most.
LEMMA WithinType ==
  ASSUME NEW inside \in Seq(MdOpen), NEW l \in Lines
  PROVE  Within(inside, l) \in AtType /\ Within(inside, l).n \in 0 .. Len(inside)
<1> DEFINE start == [n |-> 0, indent |-> l.indent, mark |-> l.mark, out |-> FALSE]
           in == FoldLeft(Enter, start, inside)
<1>1. start \in AtType
  <2>1. l.indent \in Nat /\ l.mark \in Marks
    BY LineType
  <2> QED BY <2>1 DEF AtType
<1>2. Len(inside) \in Nat /\ \A i \in 1 .. Len(inside) : inside[i] \in MdOpen
  BY LenProperties, ElementOfSeq
<1>3. PICK at : /\ at[0] = start
                /\ \A k \in 1 .. Len(inside) : at[k] = Enter(at[k - 1], inside[k])
                /\ in = at[Len(inside)]
  <2> HIDE DEF start
  <2> QED BY <1>1, EnterSteps
<1> DEFINE depth == [k \in 0 .. Len(inside) |-> k - at[k].n]
<1>4. \A k \in 0 .. Len(inside) : at[k] \in AtType
  <2> HIDE DEF start
  <2> QED BY <1>1, <1>2, <1>3, EnterType, StaysIn
<1>5. \A k \in 0 .. Len(inside) : depth[k] \in Nat
  <2>1. depth[0] \in Nat
    BY <1>2, <1>3
  <2>2. ASSUME NEW k \in 1 .. Len(inside), depth[k - 1] \in Nat
        PROVE  depth[k] \in Nat
    <3>1. at[k - 1] \in AtType /\ at[k] \in AtType /\ at[k].n <= at[k - 1].n + 1
      <4> HIDE DEF start, depth
      <4>1. k - 1 \in 0 .. Len(inside) /\ k \in 0 .. Len(inside)
        BY <1>2
      <4>2. at[k - 1] \in AtType /\ at[k] \in AtType /\ at[k] = Enter(at[k - 1], inside[k])
        BY <1>3, <1>4, <4>1
      <4> QED BY <1>2, <4>2, EnterType
    <3>2. at[k - 1].n \in Nat /\ at[k].n \in Nat
      BY <3>1 DEF AtType
    <3>3. depth[k - 1] = (k - 1) - at[k - 1].n /\ depth[k] = k - at[k].n
      BY <1>2
    <3> HIDE DEF depth, start
    <3> QED BY <1>2, <2>2, <3>1, <3>2, <3>3
  <2> HIDE DEF depth, start
  <2> QED BY <1>2, <2>1, <2>2, StaysIn
<1>6. in \in AtType /\ in.n \in 0 .. Len(inside)
  <2>1. in \in AtType /\ Len(inside) - in.n \in Nat
    BY <1>2, <1>3, <1>4, <1>5
  <2> HIDE DEF in, depth, start
  <2> QED BY <1>2, <2>1 DEF AtType
<1>7. UpToQuote(inside, in.n) \in 0 .. Len(inside)
  <2> HIDE DEF in
  <2> DEFINE quotes == {i \in in.n + 1 .. Len(inside) : inside[i].char = "quote"}
  <2>1. CASE quotes = {}
    BY <1>2, <2>1 DEF UpToQuote
  <2>2. CASE quotes # {}
    <3>1. quotes \subseteq Nat
      BY <1>2, <1>6
    <3>2. \E i \in quotes : \A j \in quotes : i <= j
      <4> HIDE DEF quotes
      <4> QED BY <2>2, <3>1, LeastNat
    <3>3. PICK i \in quotes : i = (CHOOSE q \in quotes : \A j \in quotes : q <= j)
      <4> HIDE DEF quotes
      <4> QED BY <3>2
    <3> QED BY <1>2, <1>6, <2>2, <3>3 DEF UpToQuote
  <2> QED BY <2>1, <2>2
<1>8. Within(inside, l) = Into(inside, l, in)
  BY DEF Within
<1> HIDE DEF in
<1>9. UpToQuote(inside, in.n) \in Nat
  BY <1>2, <1>7
<1>10. [in EXCEPT !.n = UpToQuote(inside, in.n)] \in AtType
  <2>1. \A n \in Nat : [in EXCEPT !.n = n] \in AtType
    BY <1>6 DEF AtType
  <2> QED BY <1>9, <2>1
<1> QED BY <1>2, <1>6, <1>7, <1>8, <1>10 DEF Into, AtType

LEMMA PlaceType ==
  ASSUME NEW md \in MdType, md.hollow > 0 => md.inside # << >>, NEW l \in Lines
  PROVE  Place(md, l) \in AtType /\ Place(md, l).n \in 0 .. Len(md.inside)
<1> DEFINE in == Within(md.inside, l)
           outer == IF in.n = 1 THEN 0 ELSE md.inside[in.n - 1].inner
<1>1. md.inside \in Seq(MdOpen) /\ md.hollow \in 0 .. 2
  BY DEF MdType
<1>2. Len(md.inside) \in Nat /\ \A i \in 1 .. Len(md.inside) : md.inside[i] \in MdOpen
  BY <1>1, LenProperties, ElementOfSeq
<1>3. in \in AtType /\ in.n \in 0 .. Len(md.inside)
  BY <1>1, WithinType
<1>4. Place(md, l) = LeaveHollow(md, l, in)
  BY DEF Place
<1> HIDE DEF in
<1>5. CASE Blank(in, l) \/ md.hollow < 2 \/ in.n < Len(md.inside)
  BY <1>3, <1>4, <1>5 DEF LeaveHollow
<1>6. CASE ~(Blank(in, l) \/ md.hollow < 2 \/ in.n < Len(md.inside))
  <2> HIDE DEF outer
  <2>1. md.inside # << >> /\ Len(md.inside) # 0
    BY <1>1, <1>6, EmptySeq
  <2>2. PICK k \in 1 .. Len(md.inside) : in.n = k
    BY <1>2, <1>3, <1>6, <2>1
  <2>3. k - 1 \in Nat /\ k - 1 \in 0 .. Len(md.inside) /\ (k # 1 => k - 1 \in 1 .. Len(md.inside))
    BY <1>2, <2>2
  <2>4. outer \in Nat
    BY <1>2, <2>2, <2>3 DEF MdOpen, outer
  <2>5. PICK i \in Nat : i = IF l.indent < outer THEN 0 ELSE l.indent - outer
    BY <2>4, LineType
  <2>6. Place(md, l) = [in EXCEPT !.n = k - 1, !.indent = i]
    BY <1>4, <1>6, <2>2, <2>5 DEF LeaveHollow, outer
  <2>7. [in EXCEPT !.n = k - 1, !.indent = i] \in AtType /\ [in EXCEPT !.n = k - 1, !.indent = i].n = k - 1
    BY <1>3, <2>3, AtMoves DEF AtType
  <2> QED BY <2>3, <2>6, <2>7
<1> QED BY <1>5, <1>6

\* Of what md4c has made of the lines.
MdInv(md) ==
  /\ md \in MdType
  /\ md.hollow > 0 => md.inside # << >>
  /\ md.leaf # "fenced" => md.fence = NoFence

LEMMA FenceType ==
  ASSUME NEW body \in Fences
  PROVE  Fence(body) \in MdFence /\ Fence(body) # NoFence
BY DEF Fence, Fences, MdFence, NoFence

LEMMA MdMake ==
  ASSUME NEW inside \in Seq(MdOpen), NEW leaf \in MdLeaf, NEW fence \in MdFence, NEW id \in BOOLEAN,
         NEW hollow \in 0 .. 2, NEW finds \in BOOLEAN
  PROVE  [inside |-> inside, leaf |-> leaf, fence |-> fence, id |-> id, hollow |-> hollow, finds |-> finds] \in MdType
BY DEF MdType

LEMMA MdStartType ==
  /\ MdStart \in MdType
  /\ MdStart.inside = << >> /\ MdStart.leaf = "none" /\ MdStart.fence = NoFence
  /\ MdStart.id = FALSE /\ MdStart.hollow = 0 /\ MdStart.finds = FALSE
<1>1. << >> \in Seq(MdOpen) /\ "none" \in MdLeaf /\ NoFence \in MdFence /\ 0 \in 0 .. 2
  BY EmptySeq DEF MdLeaf, NoFence, MdFence
<1>2. MdStart \in MdType
  BY <1>1, MdMake, Zenon DEF MdStart
<1> QED BY <1>2, Zenon DEF MdStart

LEMMA MdChanges ==
  ASSUME NEW md \in MdType, NEW inside \in Seq(MdOpen), NEW leaf \in MdLeaf, NEW fence \in MdFence,
         NEW id \in BOOLEAN, NEW hollow \in 0 .. 2, NEW finds \in BOOLEAN
  PROVE  /\ [md EXCEPT !.inside = inside] \in MdType
         /\ [md EXCEPT !.leaf = leaf] \in MdType
         /\ [md EXCEPT !.leaf = leaf, !.fence = fence] \in MdType
         /\ [md EXCEPT !.leaf = leaf, !.id = id, !.inside = inside] \in MdType
         /\ [md EXCEPT !.hollow = hollow] \in MdType
         /\ [md EXCEPT !.inside = inside, !.hollow = hollow] \in MdType
         /\ [md EXCEPT !.finds = finds] \in MdType
BY DEF MdType

LEMMA LeafInv ==
  ASSUME NEW md \in MdType, NEW inside \in Seq(MdOpen), NEW all \in BOOLEAN, NEW indent \in Int,
         NEW body \in Bodies, NEW l \in Lines
  PROVE  /\ MdInv(Leaf(md, inside, all, indent, body, l))
         /\ Leaf(md, inside, all, indent, body, l).hollow = 0
         /\ md.leaf # "text" => Leaf(md, inside, all, indent, body, l).inside = inside
<1> DEFINE to == [MdStart EXCEPT !.inside = inside]
           stays == IF md.leaf = "text" THEN md.inside ELSE inside
           Good(t) == MdInv(t) /\ t.hollow = 0 /\ (t.inside = inside \/ t.inside = stays)
<1>1. md.inside \in Seq(MdOpen) /\ md.id \in BOOLEAN /\ l.anchored \in BOOLEAN
  BY LineType DEF MdType
<1>2. to \in MdType /\ to.leaf = "none" /\ to.fence = NoFence /\ to.hollow = 0
      /\ to.inside = inside
  BY MdStartType DEF MdType
<1> HIDE DEF to
<1>3. ASSUME NEW finds \in BOOLEAN
      PROVE  Good([to EXCEPT !.finds = finds])
  <2> DEFINE t == [to EXCEPT !.finds = finds]
  <2>1. t \in MdType /\ t.inside = inside /\ t.hollow = 0 /\ t.leaf = "none" /\ t.fence = NoFence
    BY <1>2 DEF MdType, MdLeaf
  <2> HIDE DEF t
  <2>2. Good(t)
    BY <1>2, <2>1 DEF MdInv
  <2> QED BY <2>2 DEF t
<1>4. ASSUME NEW leaf \in {"code", "html"}
      PROVE  Good([to EXCEPT !.leaf = leaf])
  <2> DEFINE t == [to EXCEPT !.leaf = leaf]
  <2>1. t \in MdType /\ t.inside = inside /\ t.hollow = 0 /\ t.leaf = leaf /\ t.fence = NoFence
    BY <1>2 DEF MdType, MdLeaf
  <2> HIDE DEF t
  <2>2. Good(t)
    BY <1>2, <2>1 DEF MdInv
  <2> QED BY <2>2 DEF t
<1>5. ASSUME NEW id \in BOOLEAN, NEW in \in Seq(MdOpen), in = stays
      PROVE  Good([to EXCEPT !.leaf = "text", !.id = id, !.inside = in])
  <2> DEFINE t == [to EXCEPT !.leaf = "text", !.id = id, !.inside = in]
  <2>1. t \in MdType /\ t.inside = in /\ t.hollow = 0 /\ t.leaf = "text" /\ t.fence = NoFence
    BY <1>2 DEF MdType, MdLeaf
  <2> HIDE DEF t
  <2>2. Good(t)
    BY <1>2, <1>5, <2>1 DEF MdInv
  <2> QED BY <2>2 DEF t
<1>6. ASSUME NEW fence \in MdFence
      PROVE  Good([to EXCEPT !.leaf = "fenced", !.fence = fence])
  <2> DEFINE t == [to EXCEPT !.leaf = "fenced", !.fence = fence]
  <2>1. t \in MdType /\ t.inside = inside /\ t.hollow = 0 /\ t.leaf = "fenced"
    BY <1>2 DEF MdType, MdLeaf
  <2> HIDE DEF t
  <2>2. Good(t)
    BY <1>2, <2>1 DEF MdInv
  <2> QED BY <2>2 DEF t
<1>7. Good(to)
  BY <1>2 DEF MdInv
<1> DEFINE id == md.id /\ inside = << >>
           anchored == l.anchored /\ inside = << >>
           leaf == Leaf(md, inside, all, indent, body, l)
<1>8. id \in BOOLEAN /\ anchored \in BOOLEAN /\ stays \in Seq(MdOpen)
  BY <1>1
<1>9. \/ leaf = to \/ leaf = [to EXCEPT !.finds = id] \/ leaf = [to EXCEPT !.finds = anchored]
      \/ leaf = [to EXCEPT !.leaf = "code"] \/ leaf = [to EXCEPT !.leaf = "html"]
      \/ body \in Fences /\ leaf = [to EXCEPT !.leaf = "fenced", !.fence = Fence(body)]
      \/ leaf = [to EXCEPT !.leaf = "text", !.id = l.anchored, !.inside = stays]
  BY Zenon DEF Leaf, to
<1> HIDE DEF leaf, id, anchored, stays, Good
<1>10. Good(leaf)
  BY <1>1, <1>3, <1>4, <1>5, <1>6, <1>7, <1>8, <1>9, FenceType
<1> QED BY <1>10 DEF Good, leaf, stays

\* One line more.
LEMMA MdLineInv ==
  ASSUME NEW md, MdInv(md), NEW l \in Lines, NEW at \in AtType, at.n \in 0 .. Len(md.inside)
  PROVE  MdInv(MdLine(md, l, at))
<1> DEFINE into == SubSeq(md.inside, 1, at.n)
           all == at.n = Len(md.inside)
           opened == Append(into, Opens(at.mark, at.indent))
           new == Leaf(MdStart, opened, TRUE, 0, l.body, l)
           body == IF at.mark = "none" THEN Eaten(md, at, l.body) ELSE "text"
           next == MdLine(md, l, at)
<1>1. md \in MdType /\ md.inside \in Seq(MdOpen) /\ md.hollow \in 0 .. 2 /\ (md.hollow > 0 => md.inside # << >>)
  BY DEF MdInv, MdType
<1>2. into \in Seq(MdOpen) /\ (all => into = md.inside) /\ all \in BOOLEAN
  BY <1>1, SubSeqProperties, SubSeqFull
<1>3. Opens(at.mark, at.indent) \in MdOpen /\ at.indent \in Int
  BY DEF Opens, MdOpen, AtType, Marks
<1>4. opened \in Seq(MdOpen) /\ opened # << >>
  <2> HIDE DEF into
  <2> QED BY <1>2, <1>3, AppendProperties
<1>5. l.body \in Bodies /\ body \in Bodies
  BY LineType DEF Eaten, Bodies
<1> HIDE DEF opened, into, body, all
<1>6. ASSUME NEW hollow \in 0 .. 2, hollow > 0 => into # << >>
      PROVE  MdInv([MdStart EXCEPT !.inside = into, !.hollow = hollow])
  <2>1. PICK s \in MdType : s = MdStart /\ s.fence = NoFence
    BY MdStartType
  <2> DEFINE t == [s EXCEPT !.inside = into, !.hollow = hollow]
  <2>2. t \in MdType /\ t.inside = into /\ t.hollow = hollow /\ t.fence = NoFence
    BY <1>2, <2>1 DEF MdType
  <2> HIDE DEF t
  <2>3. MdInv(t)
    BY <1>6, <2>2 DEF MdInv
  <2> QED BY <2>1, <2>3 DEF t
<1>7. MdInv([MdStart EXCEPT !.inside = into])
  <2>1. PICK s \in MdType : s = MdStart /\ s.fence = NoFence /\ s.hollow = 0
    BY MdStartType
  <2> DEFINE t == [s EXCEPT !.inside = into]
  <2>2. t \in MdType /\ t.hollow = 0 /\ t.fence = NoFence
    BY <1>2, <2>1 DEF MdType
  <2> HIDE DEF t
  <2>3. MdInv(t)
    BY <2>2 DEF MdInv
  <2> QED BY <2>1, <2>3 DEF t
<1>8. MdInv([md EXCEPT !.finds = FALSE])
  BY DEF MdInv, MdType
<1>9. ASSUME NEW hollow \in 0 .. 2
      PROVE  MdInv([new EXCEPT !.hollow = hollow])
  <2>1. MdInv(new) /\ new.inside = opened
    <3>1. MdStart \in MdType /\ MdStart.leaf # "text"
      BY MdStartType
    <3>2. ASSUME NEW all2 \in BOOLEAN, NEW indent \in Int
          PROVE  /\ MdInv(Leaf(MdStart, opened, all2, indent, l.body, l))
                 /\ Leaf(MdStart, opened, all2, indent, l.body, l).inside = opened
      BY <1>4, <1>5, <3>1, LeafInv
    <3>3. TRUE \in BOOLEAN /\ 0 \in Int
      OBVIOUS
    <3> QED BY <3>2, <3>3, Zenon
  <2> HIDE DEF new
  <2> QED BY <1>4, <2>1 DEF MdInv, MdType
<1>10. MdInv(Leaf(md, into, all, at.indent, body, l))
  BY <1>1, <1>2, <1>3, <1>5, LeafInv
<1> DEFINE deeper == IF all /\ md.hollow > 0 THEN 2 ELSE 0
           empty == IF l.body = "blank" /\ at.mark # "quote" THEN 1 ELSE 0
<1>11. \/ next = [MdStart EXCEPT !.inside = into] \/ next = [md EXCEPT !.finds = FALSE]
       \/ next = [MdStart EXCEPT !.inside = into, !.hollow = deeper]
       \/ next = [new EXCEPT !.hollow = empty]
       \/ next = Leaf(md, into, all, at.indent, body, l)
  BY Zenon DEF MdLine, into, all, body, opened
<1>12. deeper \in 0 .. 2 /\ (deeper > 0 => into # << >>) /\ empty \in 0 .. 2
  BY <1>1, <1>2
<1> HIDE DEF next, new, deeper, empty
<1>13. MdInv(next)
  BY <1>6, <1>7, <1>8, <1>9, <1>10, <1>11, <1>12
<1> QED BY <1>13 DEF next

\* Both agree on what is open, and on whether the lines so far may be the text of a heading
\* that would have an id; and both are at the top level.
MicroType == [fence : MdFence, prev : BOOLEAN, id : BOOLEAN, finds : BOOLEAN]
Alike(m, md) ==
  /\ md.inside = << >> /\ md.hollow = 0 /\ md.leaf # "html"
  /\ m.fence = md.fence
  /\ m.fence # NoFence <=> md.leaf = "fenced"
  /\ (m.prev /\ m.id) <=> (md.leaf = "text" /\ md.id)

HeadingsInv ==
  /\ scan.m \in MicroType /\ MdInv(scan.md)
  /\ scan.strays = {} => Alike(scan.m, scan.md) /\ scan.m.finds = scan.md.finds

LEMMA MicroMake ==
  ASSUME NEW fence \in MdFence, NEW prev \in BOOLEAN, NEW id \in BOOLEAN, NEW finds \in BOOLEAN
  PROVE  [fence |-> fence, prev |-> prev, id |-> id, finds |-> finds] \in MicroType
BY DEF MicroType

\* What the C reader makes of a line, by cases.
LEMMA MicroStartType ==
  MicroStart \in MicroType /\ MicroStart = [fence |-> NoFence, prev |-> FALSE, id |-> FALSE, finds |-> FALSE]
<1>1. NoFence \in MdFence
  BY DEF NoFence, MdFence
<1> QED BY <1>1, MicroMake, Zenon DEF MicroStart

LEMMA MicroFields ==
  ASSUME NEW fence \in MdFence, NEW prev \in BOOLEAN, NEW id \in BOOLEAN, NEW finds \in BOOLEAN
  PROVE  /\ LET t == [MicroStart EXCEPT !.fence = fence]
            IN  t \in MicroType /\ t.fence = fence /\ ~t.prev /\ ~t.id /\ ~t.finds
         /\ LET t == [MicroStart EXCEPT !.finds = finds]
            IN  t \in MicroType /\ t.fence = NoFence /\ ~t.prev /\ ~t.id /\ t.finds = finds
         /\ LET t == [MicroStart EXCEPT !.prev = prev, !.id = id]
            IN  t \in MicroType /\ t.fence = NoFence /\ t.prev = prev /\ t.id = id /\ ~t.finds
BY MicroStartType DEF MicroType

LEMMA MicroScanType ==
  ASSUME NEW m \in MicroType, NEW l \in Lines
  PROVE  MicroScan(m, l) \in MicroType
<1> DEFINE next == MicroScan(m, l)
           closed == IF Closes(m.fence, l) THEN NoFence ELSE m.fence
           anchored == Candidate(l) /\ l.anchored
<1>1. /\ m.id \in BOOLEAN /\ l.anchored \in BOOLEAN /\ Candidate(l) \in BOOLEAN /\ anchored \in BOOLEAN
      /\ m.fence \in MdFence /\ closed \in MdFence
      /\ l.body \in Fences => Fence(l.body) \in MdFence
  <2>1. NoFence \in MdFence
    BY DEF NoFence, MdFence
  <2> QED BY <2>1, LineType, FenceType DEF MicroType, Candidate
<1>2. \/ next = [MicroStart EXCEPT !.fence = closed]
      \/ l.body \in Fences /\ next = [MicroStart EXCEPT !.fence = Fence(l.body)]
      \/ next = [MicroStart EXCEPT !.finds = l.anchored]
      \/ next = [MicroStart EXCEPT !.finds = m.id]
      \/ next = [MicroStart EXCEPT !.prev = Candidate(l), !.id = anchored]
  BY Zenon DEF MicroScan
<1> HIDE DEF next, closed, anchored
<1>3. next \in MicroType
  BY <1>1, <1>2, MicroStartType DEF MicroType
<1> QED BY <1>3 DEF next

\* Where nothing is open a line is in nothing.
LEMMA PlaceTop ==
  ASSUME NEW md, md.inside = << >>, md.hollow = 0, NEW l \in Lines
  PROVE  /\ Place(md, l).n = 0 /\ Place(md, l).mark = l.mark /\ Place(md, l).indent = l.indent
         /\ Blank(Place(md, l), l) <=> l.mark = "none" /\ l.body = "blank"
<1> DEFINE start == [n |-> 0, indent |-> l.indent, mark |-> l.mark, out |-> FALSE]
           in == FoldLeft(Enter, start, << >>)
<1>1. start \in AtType
  BY LineType DEF AtType
<1>2. << >> \in Seq(MdOpen) /\ Len(<< >>) = 0
  BY EmptySeq
<1>3. in = start
  <2> HIDE DEF start
  <2> QED BY <1>1, <1>2, EnterSteps
<1>4. UpToQuote(<< >>, 0) = 0
  <2>1. {i \in 0 + 1 .. Len(<< >>) : << >>[i].char = "quote"} = {}
    BY <1>2
  <2> QED BY <1>2, <2>1 DEF UpToQuote
<1>5. Within(<< >>, l) = IF Blank(start, l) THEN [start EXCEPT !.n = UpToQuote(<< >>, start.n)] ELSE start
  BY <1>3 DEF Within, Into
<1>6. [start EXCEPT !.n = 0] = start /\ start.n = 0
  <2>1. \A at \in AtType : at.n = 0 => [at EXCEPT !.n = 0] = at
    BY DEF AtType
  <2>2. start.n = 0
    BY Zenon
  <2> HIDE DEF start
  <2> QED BY <1>1, <2>1, <2>2
<1>7. Within(md.inside, l) = start
  <2> HIDE DEF start, in
  <2> QED BY <1>4, <1>5, <1>6
<1>8. Place(md, l) = start
  BY <1>7 DEF Place, LeaveHollow
<1> QED BY <1>8 DEF Blank

\* What md4c makes of a line at the top level that opens nothing.
LEMMA MdLineTop ==
  ASSUME NEW md, MdInv(md), md.inside = << >>, md.hollow = 0, NEW l \in Lines, l.mark = "none"
  PROVE  MdScan(md, l) =
           IF md.leaf = "fenced" /\ l.indent < CodeIndent /\ l.body # "info" /\ Matches(md.fence, l.body)
           THEN [MdStart EXCEPT !.inside = << >>]
           ELSE IF md.leaf = "fenced" \/ md.leaf = (IF l.body = "blank" THEN "code" ELSE "html")
           THEN [md EXCEPT !.finds = FALSE]
           ELSE IF l.body = "blank" THEN [MdStart EXCEPT !.inside = << >>, !.hollow = 0]
           ELSE Leaf(md, << >>, TRUE, l.indent, l.body, l)
<1> DEFINE at == Place(md, l)
<1>1. at.n = 0 /\ at.mark = "none" /\ at.indent = l.indent /\ (Blank(at, l) <=> l.body = "blank")
  BY PlaceTop
<1> HIDE DEF at
<1>2. Len(md.inside) = 0 /\ SubSeq(md.inside, 1, 0) = << >>
  <2>1. << >> \in Seq(MdOpen) /\ Len(<< >>) = 0
    BY EmptySeq
  <2> QED BY <2>1, SubSeqEmpty
<1>3. ~Brother(md, at) /\ ~Child(md, at, l)
  BY <1>1, <1>2 DEF Brother, Child
<1>4. (at.n = Len(md.inside)) = TRUE /\ SubSeq(md.inside, 1, at.n) = << >>
  BY <1>1, <1>2
<1>5. md.leaf # "fenced" => Eaten(md, at, l.body) = l.body
  BY DEF Eaten
<1>6. (IF (at.n = Len(md.inside)) /\ md.hollow > 0 THEN 2 ELSE 0) = 0
  OBVIOUS
<1> QED BY <1>1, <1>3, <1>4, <1>5, <1>6, Zenon DEF MdScan, MdLine, at

\* The blocks md4c may be in behind a line at the top level.
LEMMA LeafFields ==
  ASSUME NEW leaf \in MdLeaf, NEW fence \in MdFence, NEW id \in BOOLEAN, NEW finds \in BOOLEAN
  PROVE  LET to == [MdStart EXCEPT !.inside = << >>]
         IN  /\ to.inside = << >> /\ to.leaf = "none" /\ to.fence = NoFence /\ ~to.id /\ to.hollow = 0 /\ ~to.finds
             /\ LET t == [to EXCEPT !.finds = finds]
                IN  t.inside = << >> /\ t.leaf = "none" /\ t.fence = NoFence /\ ~t.id /\ t.hollow = 0 /\ t.finds = finds
             /\ LET t == [to EXCEPT !.leaf = leaf]
                IN  t.inside = << >> /\ t.leaf = leaf /\ t.fence = NoFence /\ ~t.id /\ t.hollow = 0 /\ ~t.finds
             /\ LET t == [to EXCEPT !.leaf = leaf, !.fence = fence]
                IN  t.inside = << >> /\ t.leaf = leaf /\ t.fence = fence /\ ~t.id /\ t.hollow = 0 /\ ~t.finds
             /\ LET t == [to EXCEPT !.leaf = leaf, !.id = id, !.inside = << >>]
                IN  t.inside = << >> /\ t.leaf = leaf /\ t.fence = NoFence /\ t.id = id /\ t.hollow = 0 /\ ~t.finds
<1> DEFINE to == [MdStart EXCEPT !.inside = << >>]
<1>1. to \in MdType
  BY MdStartType, EmptySeq DEF MdType
<1>2. to.inside = << >> /\ to.leaf = "none" /\ to.fence = NoFence /\ ~to.id /\ to.hollow = 0 /\ ~to.finds
  BY MdStartType DEF MdType
<1> HIDE DEF to
<1> DEFINE t1 == [to EXCEPT !.finds = finds]
           t2 == [to EXCEPT !.leaf = leaf]
           t3 == [to EXCEPT !.leaf = leaf, !.fence = fence]
           t4 == [to EXCEPT !.leaf = leaf, !.id = id, !.inside = << >>]
<1>3. t1.inside = << >> /\ t1.leaf = "none" /\ t1.fence = NoFence /\ ~t1.id /\ t1.hollow = 0 /\ t1.finds = finds
  BY <1>1, <1>2 DEF MdType
<1>4. t2.inside = << >> /\ t2.leaf = leaf /\ t2.fence = NoFence /\ ~t2.id /\ t2.hollow = 0 /\ ~t2.finds
  BY <1>1, <1>2 DEF MdType
<1>5. t3.inside = << >> /\ t3.leaf = leaf /\ t3.fence = fence /\ ~t3.id /\ t3.hollow = 0 /\ ~t3.finds
  BY <1>1, <1>2 DEF MdType
<1>6. t4.inside = << >> /\ t4.leaf = leaf /\ t4.fence = NoFence /\ t4.id = id /\ t4.hollow = 0 /\ ~t4.finds
  BY <1>1, <1>2 DEF MdType
<1> QED BY <1>2, <1>3, <1>4, <1>5, <1>6, Zenon DEF to

LEMMA MdScanInv ==
  ASSUME NEW md, MdInv(md), NEW l \in Lines
  PROVE  MdInv(MdScan(md, l))
<1>1. md \in MdType /\ (md.hollow > 0 => md.inside # << >>)
  BY DEF MdInv
<1>2. Place(md, l) \in AtType /\ Place(md, l).n \in 0 .. Len(md.inside)
  BY <1>1, PlaceType
<1> QED BY <1>2, MdLineInv DEF MdScan

\* Of a line that is none of the four that a scan of lines cannot tell both make the same.
LEMMA LinesAlike ==
  ASSUME NEW m \in MicroType, NEW md, MdInv(md), Alike(m, md), NEW l \in Lines,
         l.mark = "none", l.body # "html", l.body = "info" => m.fence = NoFence,
         l.indent >= CodeIndent /\ l.body # "blank" => md.leaf # "text"
  PROVE  Alike(MicroScan(m, l), MdScan(md, l)) /\ MicroScan(m, l).finds = MdScan(md, l).finds
<1> DEFINE mm == MicroScan(m, l)
           dd == MdScan(md, l)
           to == [MdStart EXCEPT !.inside = << >>]
           level == l.indent < CodeIndent
<1>0. SUFFICES Alike(mm, dd) /\ mm.finds = dd.finds
  OBVIOUS
<1>7. mm \in MicroType /\ dd \in MdType
  BY MicroScanType, MdScanInv DEF MdInv
<1>8. /\ mm.finds \in BOOLEAN /\ dd.finds \in BOOLEAN /\ dd.id \in BOOLEAN
      /\ mm.prev \in BOOLEAN /\ mm.id \in BOOLEAN
  BY <1>7 DEF MicroType, MdType
<1>1. /\ md \in MdType /\ md.leaf \in MdLeaf /\ md.id \in BOOLEAN /\ md.fence \in MdFence
      /\ m.id \in BOOLEAN /\ m.prev \in BOOLEAN /\ m.fence \in MdFence
      /\ l.anchored \in BOOLEAN /\ l.body \in Bodies /\ l.indent \in Nat
      /\ l.anchored => l.body \in {"text", "atx"}
  BY LineType DEF MdInv, MdType, MicroType
<1>2. /\ md.inside = << >> /\ md.hollow = 0 /\ md.leaf # "html" /\ m.fence = md.fence
      /\ m.fence # NoFence <=> md.leaf = "fenced"
      /\ (m.prev /\ m.id) <=> (md.leaf = "text" /\ md.id)
  BY DEF Alike
<1>3. Shallow(l) <=> level
  BY DEF Shallow
<1>4. CASE md.leaf = "fenced"
  <2> DEFINE closed == IF Closes(m.fence, l) THEN NoFence ELSE m.fence
  <2>1. mm = [MicroStart EXCEPT !.fence = closed]
    BY <1>2, <1>4, Zenon DEF MicroScan
  <2>2. closed \in MdFence
    BY <1>1 DEF MdFence, NoFence
  <2>3. mm.fence = closed /\ ~mm.prev /\ ~mm.id /\ ~mm.finds
    <3> HIDE DEF closed
    <3> QED BY <2>1, <2>2, MicroStartType DEF MicroType
  <2>4. CASE level /\ Matches(md.fence, l.body)
    <3>1. closed = NoFence
      BY <1>2, <1>3, <2>4 DEF Closes
    <3>2. l.body # "info"
      BY <1>2, <1>4
    <3>3. dd = to
      BY <1>2, <1>4, <2>4, <3>2, MdLineTop
    <3>4. to.inside = << >> /\ to.leaf = "none" /\ to.fence = NoFence /\ ~to.id /\ to.hollow = 0 /\ ~to.finds
      BY LeafFields, <1>1
    <3> HIDE DEF mm, dd, to, closed
    <3> QED BY <1>8, <2>3, <3>1, <3>3, <3>4 DEF Alike
  <2>5. CASE ~(level /\ Matches(md.fence, l.body))
    <3>1. closed = m.fence
      BY <1>2, <1>3, <2>5 DEF Closes
    <3>2. dd = [md EXCEPT !.finds = FALSE]
      BY <1>2, <1>4, <2>5, MdLineTop
    <3>3. /\ dd.inside = md.inside /\ dd.leaf = md.leaf /\ dd.fence = md.fence /\ dd.hollow = md.hollow
          /\ ~dd.finds
      BY <1>1, <3>2 DEF MdType
    <3> HIDE DEF mm, dd, closed
    <3> QED BY <1>8, <1>2, <1>4, <2>3, <3>1, <3>3 DEF Alike
  <2> QED BY <2>4, <2>5
<1>5. CASE md.leaf # "fenced" /\ l.body = "blank"
  <2>1. mm = [MicroStart EXCEPT !.prev = Candidate(l), !.id = Candidate(l) /\ l.anchored] /\ ~Candidate(l)
    BY <1>2, <1>5, Zenon DEF MicroScan, Candidate, Fences
  <2>2. mm.fence = NoFence /\ ~mm.prev /\ ~mm.id /\ ~mm.finds
    <3>0. Candidate(l) \in BOOLEAN /\ ~Candidate(l)
      <4>1. Candidate(l) \in BOOLEAN
        BY Zenon DEF Candidate
      <4> QED BY <2>1, <4>1
    <3>1. PICK b \in BOOLEAN : b = (Candidate(l) /\ l.anchored) /\ ~b
      BY <3>0, Zenon
    <3>2. PICK a \in BOOLEAN : a = Candidate(l) /\ ~a
      BY <3>0, Zenon
    <3>3. mm = [MicroStart EXCEPT !.prev = a, !.id = b]
      BY <2>1, <3>1, <3>2, Zenon
    <3>4. NoFence \in MdFence
      BY DEF NoFence, MdFence
    <3>5. mm.fence = NoFence /\ mm.prev = a /\ mm.id = b /\ ~mm.finds
      <4>1. LET t == [MicroStart EXCEPT !.prev = a, !.id = b]
            IN  t \in MicroType /\ t.fence = NoFence /\ t.prev = a /\ t.id = b /\ ~t.finds
        BY <3>4, MicroFields
      <4> QED BY <3>3, <4>1, Zenon
    <3> QED BY <3>1, <3>2, <3>5
  <2>3. CASE md.leaf = "code"
    <3>1. dd = [md EXCEPT !.finds = FALSE]
      <4> HIDE DEF mm, to, level
      <4>1. md.inside = << >> /\ md.hollow = 0 /\ md.leaf # "fenced"
            /\ md.leaf = (IF l.body = "blank" THEN "code" ELSE "html")
        BY <1>2, <1>5, <2>3
      <4> QED BY <4>1, MdLineTop, Zenon
    <3>2. /\ dd.inside = md.inside /\ dd.leaf = md.leaf /\ dd.fence = md.fence /\ dd.hollow = md.hollow
          /\ ~dd.finds
      BY <1>1, <3>1 DEF MdType
    <3> HIDE DEF mm, dd
    <3> QED BY <1>8, <1>2, <1>5, <2>2, <2>3, <3>2 DEF Alike
  <2>4. CASE md.leaf # "code"
    <3>1. dd = [MdStart EXCEPT !.inside = << >>, !.hollow = 0]
      BY <1>2, <1>5, <2>4, MdLineTop
    <3>2. dd.inside = << >> /\ dd.leaf = "none" /\ dd.fence = NoFence /\ ~dd.id /\ dd.hollow = 0 /\ ~dd.finds
      <4> HIDE DEF dd
      <4> QED BY <3>1, MdStartType DEF MdType
    <3> HIDE DEF mm, dd
    <3> QED BY <1>8, <2>2, <3>2 DEF Alike
  <2> QED BY <2>3, <2>4
<1>6. CASE md.leaf # "fenced" /\ l.body # "blank"
  <2>1. dd = Leaf(md, << >>, TRUE, l.indent, l.body, l)
    BY <1>2, <1>6, MdLineTop
  <2>2. m.fence = NoFence
    BY <1>2, <1>6
  <2> DEFINE anchored == Candidate(l) /\ l.anchored
  <2>3. /\ Candidate(l) <=> level
        /\ Candidate(l) \in BOOLEAN /\ anchored \in BOOLEAN
    BY <1>3, <1>6 DEF Candidate
  <2>4. CASE level /\ l.body \in {"equals", "dashes"} /\ md.leaf = "text"
    <3> DEFINE found == md.id /\ << >> = << >>
    <3>1. dd = [to EXCEPT !.finds = found]
      BY <1>6, <2>1, <2>4, Zenon DEF Leaf
    <3>2. found \in BOOLEAN /\ (found <=> md.id)
      BY <1>1
    <3>3. dd.inside = << >> /\ dd.leaf = "none" /\ dd.fence = NoFence /\ ~dd.id /\ dd.hollow = 0 /\ dd.finds = found
      <4> HIDE DEF found
      <4> QED BY <1>1, <3>1, <3>2, LeafFields
    <3>4. CASE m.prev
      <4>1. mm = [MicroStart EXCEPT !.finds = m.id]
        BY <1>3, <2>2, <2>4, <3>4, Zenon DEF MicroScan, Fences
      <4>2. mm.fence = NoFence /\ ~mm.prev /\ ~mm.id /\ mm.finds = m.id
        BY <1>1, <4>1, MicroStartType DEF MicroType
      <4> HIDE DEF mm, dd, to, found
      <4> QED BY <1>8, <1>1, <1>2, <2>4, <3>2, <3>3, <3>4, <4>2 DEF Alike
    <3>5. CASE ~m.prev
      <4>1. mm = [MicroStart EXCEPT !.prev = Candidate(l), !.id = anchored]
        BY <1>3, <2>2, <2>4, <3>5, Zenon DEF MicroScan, Fences
      <4>2. mm.fence = NoFence /\ mm.prev = Candidate(l) /\ mm.id = anchored /\ ~mm.finds
        <5> HIDE DEF anchored, mm
        <5> QED BY <2>3, <4>1, MicroStartType DEF MicroType
      <4>3. ~anchored
        BY <1>1, <2>4
      <4> HIDE DEF mm, dd, to, found, anchored
      <4> QED BY <1>8, <1>1, <1>2, <2>4, <3>2, <3>3, <3>5, <4>2, <4>3 DEF Alike
    <3> QED BY <3>4, <3>5
  <2>5. CASE level /\ l.body = "dashes" /\ md.leaf # "text"
    <3>1. dd = to
      BY <1>6, <2>1, <2>5, Zenon DEF Leaf
    <3>2. dd.inside = << >> /\ dd.leaf = "none" /\ dd.fence = NoFence /\ ~dd.id /\ dd.hollow = 0 /\ ~dd.finds
      BY <1>1, <3>1, LeafFields
    <3>3. CASE m.prev
      <4>1. mm = [MicroStart EXCEPT !.finds = m.id]
        BY <1>3, <2>2, <2>5, <3>3, Zenon DEF MicroScan, Fences
      <4>2. mm.fence = NoFence /\ ~mm.prev /\ ~mm.id /\ mm.finds = m.id
        BY <1>1, <4>1, MicroStartType DEF MicroType
      <4> HIDE DEF mm, dd, to
      <4> QED BY <1>8, <1>1, <1>2, <2>5, <3>2, <3>3, <4>2 DEF Alike
    <3>4. CASE ~m.prev
      <4>1. mm = [MicroStart EXCEPT !.prev = Candidate(l), !.id = anchored]
        BY <1>3, <2>2, <2>5, <3>4, Zenon DEF MicroScan, Fences
      <4>2. mm.fence = NoFence /\ mm.prev = Candidate(l) /\ mm.id = anchored /\ ~mm.finds
        <5> HIDE DEF anchored, mm
        <5> QED BY <2>3, <4>1, MicroStartType DEF MicroType
      <4>3. ~anchored
        BY <1>1, <2>5
      <4> HIDE DEF mm, dd, to, anchored
      <4> QED BY <1>8, <1>1, <3>2, <4>2, <4>3 DEF Alike
    <3> QED BY <3>3, <3>4
  <2>6. CASE ~level
    <3>1. md.leaf # "text"
      BY <1>1, <1>6, <2>6 DEF CodeIndent
    <3>2. dd = [to EXCEPT !.leaf = "code"]
      BY <1>6, <2>1, <2>6, <3>1, Zenon DEF Leaf
    <3>3. dd.inside = << >> /\ dd.leaf = "code" /\ dd.fence = NoFence /\ ~dd.id /\ dd.hollow = 0 /\ ~dd.finds
      <4>1. "code" \in MdLeaf
        BY DEF MdLeaf
      <4> QED BY <1>1, <3>2, <4>1, LeafFields
    <3>4. mm = [MicroStart EXCEPT !.prev = Candidate(l), !.id = anchored]
      BY <1>3, <2>2, <2>6, Zenon DEF MicroScan
    <3>5. mm.fence = NoFence /\ mm.prev = Candidate(l) /\ mm.id = anchored /\ ~mm.finds
      <4> HIDE DEF anchored, mm
      <4> QED BY <2>3, <3>4, MicroStartType DEF MicroType
    <3>6. ~Candidate(l)
      BY <2>3, <2>6
    <3> HIDE DEF mm, dd, to, anchored
    <3> QED BY <1>8, <3>3, <3>5, <3>6 DEF Alike
  <2>7. CASE level /\ l.body = "atx"
    <3> DEFINE found == l.anchored /\ << >> = << >>
    <3>1. dd = [to EXCEPT !.finds = found]
      BY <1>6, <2>1, <2>7, Zenon DEF Leaf
    <3>2. found \in BOOLEAN /\ (found <=> l.anchored)
      BY <1>1
    <3>3. dd.inside = << >> /\ dd.leaf = "none" /\ dd.fence = NoFence /\ ~dd.id /\ dd.hollow = 0 /\ dd.finds = found
      <4> HIDE DEF found
      <4> QED BY <1>1, <3>1, <3>2, LeafFields
    <3>4. mm = [MicroStart EXCEPT !.finds = l.anchored]
      BY <1>3, <2>2, <2>7, Zenon DEF MicroScan, Fences
    <3>5. mm.fence = NoFence /\ ~mm.prev /\ ~mm.id /\ mm.finds = l.anchored
      BY <1>1, <3>4, MicroStartType DEF MicroType
    <3> HIDE DEF mm, dd, to, found
    <3> QED BY <1>8, <1>1, <3>2, <3>3, <3>5 DEF Alike
  <2>8. CASE level /\ l.body \in Fences
    <3>1. dd = [to EXCEPT !.leaf = "fenced", !.fence = Fence(l.body)]
      BY <1>6, <2>1, <2>8, Zenon DEF Leaf, Fences
    <3>2. Fence(l.body) \in MdFence /\ Fence(l.body) # NoFence /\ "fenced" \in MdLeaf
      BY <2>8, FenceType DEF MdLeaf
    <3>3. dd.inside = << >> /\ dd.leaf = "fenced" /\ dd.fence = Fence(l.body) /\ ~dd.id /\ dd.hollow = 0 /\ ~dd.finds
      BY <1>1, <3>1, <3>2, LeafFields
    <3>4. mm = [MicroStart EXCEPT !.fence = Fence(l.body)]
      BY <1>3, <2>2, <2>8, Zenon DEF MicroScan
    <3>5. mm.fence = Fence(l.body) /\ ~mm.prev /\ ~mm.id /\ ~mm.finds
      BY <3>2, <3>4, MicroStartType DEF MicroType
    <3> HIDE DEF mm, dd, to
    <3> QED BY <1>8, <3>2, <3>3, <3>5 DEF Alike
  <2>9. CASE level /\ (l.body = "text" \/ (l.body = "equals" /\ md.leaf # "text"))
    <3> DEFINE stays == IF md.leaf = "text" THEN md.inside ELSE << >>
    <3>1. dd = [to EXCEPT !.leaf = "text", !.id = l.anchored, !.inside = stays]
      BY <1>6, <2>1, <2>9, Zenon DEF Leaf, Fences
    <3>2. stays = << >> /\ "text" \in MdLeaf
      BY <1>2 DEF MdLeaf
    <3>3. dd.inside = << >> /\ dd.leaf = "text" /\ dd.fence = NoFence /\ dd.id = l.anchored /\ dd.hollow = 0 /\ ~dd.finds
      <4> HIDE DEF stays
      <4> QED BY <1>1, <3>1, <3>2, LeafFields
    <3>4. CASE l.body = "text" \/ ~m.prev
      <4>1. mm = [MicroStart EXCEPT !.prev = Candidate(l), !.id = anchored]
        BY <1>3, <2>2, <2>9, <3>4, Zenon DEF MicroScan, Fences
      <4>2. mm.fence = NoFence /\ mm.prev = Candidate(l) /\ mm.id = anchored /\ ~mm.finds
        <5> HIDE DEF anchored, mm
        <5> QED BY <2>3, <4>1, MicroStartType DEF MicroType
      <4>3. Candidate(l) /\ (anchored <=> l.anchored)
        BY <1>1, <2>3, <2>9
      <4> HIDE DEF mm, dd, to, anchored
      <4> QED BY <1>8, <1>1, <3>3, <4>2, <4>3 DEF Alike
    <3>5. CASE l.body = "equals" /\ m.prev
      <4>1. mm = [MicroStart EXCEPT !.finds = m.id]
        BY <1>3, <2>2, <2>9, <3>5, Zenon DEF MicroScan, Fences
      <4>2. mm.fence = NoFence /\ ~mm.prev /\ ~mm.id /\ mm.finds = m.id
        BY <1>1, <4>1, MicroStartType DEF MicroType
      <4>3. ~l.anchored /\ md.leaf # "text"
        BY <1>1, <2>9, <3>5
      <4> HIDE DEF mm, dd, to
      <4> QED BY <1>8, <1>1, <1>2, <3>3, <3>5, <4>2, <4>3 DEF Alike
    <3> QED BY <2>9, <3>4, <3>5
  <2>10. l.body \in Fences \union {"text", "atx", "equals", "dashes"}
    BY <1>1, <1>6 DEF Bodies
  <2> HIDE DEF mm, dd, to
  <2> QED BY <2>4, <2>5, <2>6, <2>7, <2>8, <2>9, <2>10
<1> QED BY <1>4, <1>5, <1>6

LEMMA StraysMean ==
  ASSUME NEW s, NEW l, Strays(s, l) = {}
  PROVE  /\ l.mark = "none" /\ l.body # "html"
         /\ l.body = "info" => s.m.fence = NoFence
         /\ l.indent >= CodeIndent /\ l.body # "blank" => s.md.leaf # "text"
<1>1. "nested" \notin Strays(s, l) /\ "html" \notin Strays(s, l)
      /\ "closer" \notin Strays(s, l) /\ "continued" \notin Strays(s, l)
  OBVIOUS
<1>2. l.mark = "none" /\ l.body # "html"
  BY <1>1 DEF Strays
<1>3. l.body = "info" => s.m.fence = NoFence
  BY <1>1 DEF Strays
<1>4. l.indent >= CodeIndent /\ l.body # "blank" => s.md.leaf # "text"
  BY <1>1 DEF Strays
<1> QED BY <1>2, <1>3, <1>4

LEMMA HeadingsStart == HeadingsInit => HeadingsInv
<1> SUFFICES ASSUME HeadingsInit
             PROVE  HeadingsInv
  OBVIOUS
<1>1. scan.m = MicroStart /\ scan.md = MdStart
  BY DEF HeadingsInit, ScanStart
<1>2. MdInv(MdStart)
  BY MdStartType DEF MdInv
<1>3. MicroStart.fence = NoFence /\ ~MicroStart.prev /\ ~MicroStart.id /\ ~MicroStart.finds /\ MicroStart \in MicroType
  BY MicroStartType DEF MicroType
<1>4. MicroStart.finds = MdStart.finds
  BY Zenon DEF MicroStart, MdStart
<1>5. Alike(MicroStart, MdStart)
  BY <1>3, MdStartType DEF Alike
<1> QED BY <1>1, <1>2, <1>3, <1>4, <1>5 DEF HeadingsInv

LEMMA HeadingsStep == HeadingsInv /\ [HeadingsNext]_<<scan, lines>> => HeadingsInv'
<1> SUFFICES ASSUME HeadingsInv, [HeadingsNext]_<<scan, lines>>
             PROVE  HeadingsInv'
  OBVIOUS
<1>1. CASE UNCHANGED <<scan, lines>>
  BY <1>1 DEF HeadingsInv
<1>2. CASE HeadingsNext
  <2>1. PICK l \in Lines : scan' = Scan(scan, l)
    BY <1>2 DEF HeadingsNext
  <2>2. /\ scan'.m = MicroScan(scan.m, l) /\ scan'.md = MdScan(scan.md, l)
        /\ scan'.strays = (IF Settled(scan) THEN {} ELSE scan.strays) \union Strays(scan, l)
    BY <2>1 DEF Scan
  <2>3. scan.m \in MicroType /\ MdInv(scan.md)
    BY DEF HeadingsInv
  <2>4. scan'.m \in MicroType /\ MdInv(scan'.md)
    BY <2>2, <2>3, MicroScanType, MdScanInv
  <2>5. ASSUME scan'.strays = {}
        PROVE  Alike(scan'.m, scan'.md) /\ scan'.m.finds = scan'.md.finds
    <3>1. Strays(scan, l) = {} /\ (Settled(scan) \/ scan.strays = {})
      BY <2>2, <2>5
    <3>2. Alike(scan.m, scan.md)
      <4>1. CASE Settled(scan)
        <5>1. /\ scan.m.fence = NoFence /\ ~scan.m.prev /\ scan.md.leaf = "none" /\ scan.md.inside = << >>
              /\ scan.md.hollow \in 0 .. 2 /\ ~(scan.md.hollow > 0) /\ scan.md.fence = NoFence
          BY <2>3, <4>1 DEF Settled, MdInv, MdType
        <5> QED BY <5>1 DEF Alike
      <4> QED BY <3>1, <4>1 DEF HeadingsInv
    <3>3. /\ l.mark = "none" /\ l.body # "html"
          /\ l.body = "info" => scan.m.fence = NoFence
          /\ l.indent >= CodeIndent /\ l.body # "blank" => scan.md.leaf # "text"
      BY <3>1, StraysMean
    <3> QED BY <2>2, <2>3, <3>2, <3>3, LinesAlike
  <2> QED BY <2>4, <2>5 DEF HeadingsInv
<1> QED BY <1>1, <1>2

\* Every heading that can bind a section is found by the C reader and by parse_headings or by
\* neither, for documents of any length and lines indented anyhow, as AnchorsAgree states it.
THEOREM AnchorsAlwaysAgree == HeadingsSpec => []AnchorsAgree
<1>1. HeadingsInv => AnchorsAgree
  BY DEF HeadingsInv, AnchorsAgree
<1> QED BY <1>1, HeadingsStart, HeadingsStep, PTL DEF HeadingsSpec

----------------------------------------------------------------------------
(* Windows. *)

\* A line without a mark that has text in it, in the containers it is in: it is in none if it is
\* not indented, and is left as it is if it is in none.
Unmarked(l) == {at \in AtType : /\ at.mark = "none"
                                /\ at.n = 0 => at.indent = l.indent
                                /\ l.indent = 0 => at.n = 0}

LEMMA EnterUnmarked ==
  ASSUME NEW l \in Lines, NEW at \in Unmarked(l), NEW c \in MdOpen
  PROVE  Enter(at, c) \in Unmarked(l)
<1>1. /\ at \in AtType /\ at.mark = "none" /\ (at.n = 0 => at.indent = l.indent) /\ (l.indent = 0 => at.n = 0)
      /\ at.n \in Nat /\ at.indent \in Nat /\ l.indent \in Nat /\ c.inner \in Nat \ {0}
  BY LineType DEF Unmarked, AtType, MdOpen
<1>2. Enter(at, c) \in AtType
  BY <1>1, EnterType
<1>3. CASE at.out \/ ~(c.char # "quote" /\ at.indent >= c.inner)
  <2>1. Enter(at, c) = at \/ Enter(at, c) = [at EXCEPT !.out = TRUE]
    BY <1>1, <1>3 DEF Enter
  <2>2. Enter(at, c).mark = "none" /\ Enter(at, c).n = at.n /\ Enter(at, c).indent = at.indent
    BY <1>1, <2>1 DEF AtType
  <2> QED BY <1>1, <1>2, <2>2 DEF Unmarked
<1>4. CASE ~at.out /\ c.char # "quote" /\ at.indent >= c.inner
  <2>1. Enter(at, c) = [at EXCEPT !.n = at.n + 1, !.indent = at.indent - c.inner]
    BY <1>1, <1>4 DEF Enter
  <2>2. Enter(at, c).mark = "none" /\ Enter(at, c).n = at.n + 1
    BY <1>1, <2>1 DEF AtType
  <2>3. at.n + 1 # 0 /\ l.indent # 0
    BY <1>1, <1>4
  <2> QED BY <1>2, <2>2, <2>3 DEF Unmarked
<1> QED BY <1>3, <1>4

LEMMA InUnmarked ==
  ASSUME NEW md, MdInv(md), NEW l \in Lines, l.mark = "none"
  PROVE  FoldLeft(Enter, [n |-> 0, indent |-> l.indent, mark |-> l.mark, out |-> FALSE], md.inside) \in Unmarked(l)
<1> DEFINE start == [n |-> 0, indent |-> l.indent, mark |-> l.mark, out |-> FALSE]
           in == FoldLeft(Enter, start, md.inside)
<1>1. md.inside \in Seq(MdOpen)
  BY DEF MdInv, MdType
<1>2. Len(md.inside) \in Nat /\ \A i \in 1 .. Len(md.inside) : md.inside[i] \in MdOpen
  BY <1>1, LenProperties, ElementOfSeq
<1>3. start \in AtType
  <2>1. l.indent \in Nat /\ l.mark \in Marks
    BY LineType
  <2> QED BY <2>1 DEF AtType
<1>4. start \in Unmarked(l)
  BY <1>3 DEF Unmarked
<1> HIDE DEF start
<1>5. PICK at : /\ at[0] = start
                /\ \A k \in 1 .. Len(md.inside) : at[k] = Enter(at[k - 1], md.inside[k])
                /\ in = at[Len(md.inside)]
  BY <1>1, <1>3, EnterSteps
<1>6. \A k \in 0 .. Len(md.inside) : at[k] \in Unmarked(l)
  BY <1>2, <1>4, <1>5, EnterUnmarked, StaysIn
<1>7. in \in Unmarked(l)
  BY <1>2, <1>5, <1>6
<1> QED BY <1>7 DEF start

LEMMA PlaceBlank ==
  ASSUME NEW md, MdInv(md), NEW l \in Lines, l.mark = "none", l.body = "blank"
  PROVE  Blank(Place(md, l), l)
<1> DEFINE in == FoldLeft(Enter, [n |-> 0, indent |-> l.indent, mark |-> l.mark, out |-> FALSE], md.inside)
           up == [in EXCEPT !.n = UpToQuote(md.inside, in.n)]
<1>1. in \in Unmarked(l)
  BY InUnmarked
<1>2. Within(md.inside, l) = Into(md.inside, l, in)
  BY DEF Within
<1> HIDE DEF in
<1>3. in.mark = "none" /\ in \in AtType
  BY <1>1 DEF Unmarked
<1>4. Within(md.inside, l) = up
  BY <1>2, <1>3 DEF Into, Blank
<1>5. up.mark = "none"
  BY <1>3 DEF AtType
<1> HIDE DEF up
<1>6. Place(md, l) = up
  BY <1>4, <1>5 DEF Place, LeaveHollow, Blank
<1> QED BY <1>5, <1>6 DEF Blank

LEMMA PlaceUnmarked ==
  ASSUME NEW md, MdInv(md), NEW l \in Lines, l.mark = "none", l.body # "blank"
  PROVE  Place(md, l) \in Unmarked(l)
<1> DEFINE in == FoldLeft(Enter, [n |-> 0, indent |-> l.indent, mark |-> l.mark, out |-> FALSE], md.inside)
<1>1. md.inside \in Seq(MdOpen) /\ md.hollow \in 0 .. 2 /\ (md.hollow > 0 => md.inside # << >>)
  BY DEF MdInv, MdType
<1>2. Len(md.inside) \in Nat /\ \A i \in 1 .. Len(md.inside) : md.inside[i] \in MdOpen
  BY <1>1, LenProperties, ElementOfSeq
<1>7. in \in Unmarked(l)
  BY InUnmarked
<1>8. Within(md.inside, l) = in
  BY DEF Within, Into, Blank
<1>9. Within(md.inside, l).n \in 0 .. Len(md.inside)
  BY <1>1, WithinType
<1>10. Place(md, l) = LeaveHollow(md, l, in)
  BY <1>8 DEF Place
<1>11. in.n \in 0 .. Len(md.inside)
  BY <1>8, <1>9
<1> HIDE DEF in
<1>12. CASE md.hollow < 2 \/ in.n < Len(md.inside)
  BY <1>7, <1>10, <1>12 DEF LeaveHollow
<1>13. CASE ~(md.hollow < 2 \/ in.n < Len(md.inside))
  <2> DEFINE outer == IF in.n = 1 THEN 0 ELSE md.inside[in.n - 1].inner
  <2> HIDE DEF outer
  <2>1. md.inside # << >> /\ Len(md.inside) # 0
    BY <1>1, <1>13, EmptySeq
  <2>2. PICK k \in 1 .. Len(md.inside) : in.n = k
    BY <1>2, <1>11, <1>13, <2>1
  <2>3. in.mark = "none" /\ in \in AtType /\ l.indent # 0 /\ l.indent \in Nat /\ in.indent \in Nat
    BY <1>2, <1>7, <2>2, LineType DEF Unmarked, AtType
  <2>4. k - 1 \in Nat /\ (k # 1 => k - 1 \in 1 .. Len(md.inside))
    BY <1>2, <2>2
  <2>5. outer \in Nat /\ (k = 1 => outer = 0)
    BY <1>2, <2>2, <2>4 DEF MdOpen, outer
  <2>6. PICK i \in Nat : i = IF l.indent < outer THEN 0 ELSE l.indent - outer
    BY <2>3, <2>5
  <2>7. ~Blank(in, l)
    BY DEF Blank
  <2>8. Place(md, l) = [in EXCEPT !.n = k - 1, !.indent = i]
    BY <1>10, <1>13, <2>2, <2>6, <2>7 DEF LeaveHollow, outer
  <2>9. /\ [in EXCEPT !.n = k - 1, !.indent = i] \in AtType
        /\ [in EXCEPT !.n = k - 1, !.indent = i].n = k - 1
        /\ [in EXCEPT !.n = k - 1, !.indent = i].indent = i
        /\ [in EXCEPT !.n = k - 1, !.indent = i].mark = "none"
    BY <2>3, <2>4 DEF AtType
  <2>10. k - 1 = 0 => i = l.indent
    BY <2>2, <2>3, <2>5, <2>6
  <2> QED BY <2>3, <2>8, <2>9, <2>10 DEF Unmarked
<1> QED BY <1>12, <1>13

LEMMA LeafKind ==
  ASSUME NEW md \in MdType, NEW inside \in Seq(MdOpen), NEW all, NEW indent, NEW body, NEW l \in Lines
  PROVE  /\ Leaf(md, inside, all, indent, body, l).leaf = "html" => body = "html"
         /\ Leaf(md, inside, all, indent, body, l).leaf = "fenced" => body \in Fences
<1> DEFINE to == [MdStart EXCEPT !.inside = inside]
           stays == IF md.leaf = "text" THEN md.inside ELSE inside
           leaf == Leaf(md, inside, all, indent, body, l)
           found == md.id /\ inside = << >>
           anchored == l.anchored /\ inside = << >>
<1>1. to \in MdType /\ to.leaf = "none"
  BY MdStartType DEF MdType
<1>2. \/ leaf = to \/ leaf = [to EXCEPT !.finds = found] \/ leaf = [to EXCEPT !.finds = anchored]
      \/ leaf = [to EXCEPT !.leaf = "code"]
      \/ body = "html" /\ leaf = [to EXCEPT !.leaf = "html"]
      \/ body \in Fences /\ leaf = [to EXCEPT !.leaf = "fenced", !.fence = Fence(body)]
      \/ leaf = [to EXCEPT !.leaf = "text", !.id = l.anchored, !.inside = stays]
  BY Zenon DEF Leaf, to
<1> HIDE DEF to, leaf, found, anchored, stays
<1>3. \/ leaf.leaf \in {"none", "code", "text"}
      \/ body = "html" /\ leaf.leaf = "html"
      \/ body \in Fences /\ leaf.leaf = "fenced"
  BY <1>1, <1>2 DEF MdType
<1>4. (leaf.leaf = "html" => body = "html") /\ (leaf.leaf = "fenced" => body \in Fences)
  BY <1>3
<1> QED BY <1>4 DEF leaf

\* What a block may be behind a line.
LEMMA MdScanKind ==
  ASSUME NEW md, MdInv(md), NEW l \in Lines
  PROVE  /\ MdScan(md, l).leaf = "html" => l.body = "html" \/ md.leaf = "html"
         /\ MdScan(md, l).leaf = "fenced" => l.body \in Fences \/ md.leaf = "fenced"
         /\ l.mark = "none" /\ l.body = "blank" /\ md.leaf # "html" =>
              MdScan(md, l).leaf \in {"none", "code", "fenced"}
<1> DEFINE at == Place(md, l)
           into == SubSeq(md.inside, 1, at.n)
           all == at.n = Len(md.inside)
           blank == Blank(at, l)
           opened == Append(into, Opens(at.mark, at.indent))
           new == Leaf(MdStart, opened, TRUE, 0, l.body, l)
           body == IF at.mark = "none" THEN Eaten(md, at, l.body) ELSE "text"
           old == Leaf(md, into, all, at.indent, body, l)
           deeper == IF all /\ md.hollow > 0 THEN 2 ELSE 0
           empty == IF l.body = "blank" /\ at.mark # "quote" THEN 1 ELSE 0
           next == MdScan(md, l)
<1>1. md \in MdType /\ md.inside \in Seq(MdOpen) /\ (md.hollow > 0 => md.inside # << >>)
  BY DEF MdInv, MdType
<1>2. at \in AtType /\ at.n \in 0 .. Len(md.inside)
  BY <1>1, PlaceType
<1>3. l.mark = "none" /\ l.body = "blank" => blank
  BY PlaceBlank
<1> HIDE DEF at
<1>4. into \in Seq(MdOpen)
  BY <1>1, <1>2, SubSeqProperties
<1>5. Opens(at.mark, at.indent) \in MdOpen
  BY <1>2 DEF Opens, MdOpen, AtType, Marks
<1> HIDE DEF into
<1>6. opened \in Seq(MdOpen)
  BY <1>4, <1>5, AppendProperties
<1> HIDE DEF opened
<1>7. (body = "html" => l.body = "html") /\ (body \in Fences => l.body \in Fences)
  BY DEF Eaten, Fences
<1> HIDE DEF body, all, blank
<1>8. /\ new.leaf = "html" => l.body = "html"
      /\ new.leaf = "fenced" => l.body \in Fences
  BY <1>6, MdStartType, LeafKind
<1>9. /\ old.leaf = "html" => l.body = "html"
      /\ old.leaf = "fenced" => l.body \in Fences
  BY <1>1, <1>4, <1>7, LeafKind
<1>10. new \in MdType
  <2>1. l.body \in Bodies /\ TRUE \in BOOLEAN /\ 0 \in Int
    BY LineType
  <2>2. \A b \in BOOLEAN : MdInv(Leaf(MdStart, opened, b, 0, l.body, l))
    BY <1>6, <2>1, MdStartType, LeafInv
  <2>3. MdInv(new)
    BY <2>1, <2>2, Zenon
  <2> QED BY <2>3 DEF MdInv
<1>11. \/ next = [MdStart EXCEPT !.inside = into]
       \/ md.leaf \in {"fenced", IF blank THEN "code" ELSE "html"} /\ next = [md EXCEPT !.finds = FALSE]
       \/ next = [MdStart EXCEPT !.inside = into, !.hollow = deeper]
       \/ ~blank /\ next = [new EXCEPT !.hollow = empty]
       \/ ~blank /\ next = old
  BY Zenon DEF MdScan, MdLine, into, all, body, opened, at, blank
<1> HIDE DEF next, new, old, deeper, empty
<1>12. \/ next.leaf = "none"
       \/ md.leaf \in {"fenced", IF blank THEN "code" ELSE "html"} /\ next.leaf = md.leaf
       \/ ~blank /\ next.leaf \in {new.leaf, old.leaf}
  BY <1>1, <1>10, <1>11, MdStartType DEF MdType
<1>13. /\ next.leaf = "html" => l.body = "html" \/ md.leaf = "html"
       /\ next.leaf = "fenced" => l.body \in Fences \/ md.leaf = "fenced"
       /\ blank /\ md.leaf # "html" => next.leaf \in {"none", "code", "fenced"}
  BY <1>8, <1>9, <1>12
<1> QED BY <1>3, <1>13 DEF next

\* The window's scan knows the fence that md4c is in.
Fenced(w, md) ==
  /\ md.leaf = "fenced" <=> w.fence # NoFence
  /\ md.fence = w.fence
  /\ md.leaf = "fenced" => md.inside = << >>

LEMMA WindowFields ==
  ASSUME NEW w, NEW l, w.fence \in MdFence
  PROVE  /\ WindowScan(w, l).fence =
              IF w.fence # NoFence THEN IF Closes(w.fence, l) THEN NoFence ELSE w.fence
              ELSE IF Shallow(l) /\ l.body \in Fences THEN Fence(l.body) ELSE NoFence
         /\ WindowScan(w, l).blank \in BOOLEAN
         /\ WindowScan(w, l).blank => w.fence = NoFence /\ l.mark = "none" /\ l.body = "blank"
<1> DEFINE blank == l.mark = "none" /\ l.body = "blank"
           next == WindowScan(w, l)
           Closing == w.fence # NoFence /\ Closes(w.fence, l)
           Staying == w.fence # NoFence /\ ~Closes(w.fence, l)
           Opening == w.fence = NoFence /\ Shallow(l) /\ l.body \in Fences
           Other == w.fence = NoFence /\ ~(Shallow(l) /\ l.body \in Fences)
<1>1. \/ Closing /\ next = [WindowStart EXCEPT !.fence = NoFence]
      \/ Staying /\ next = [WindowStart EXCEPT !.fence = w.fence]
      \/ Opening /\ next = [WindowStart EXCEPT !.fence = Fence(l.body)]
      \/ Other /\ next = [WindowStart EXCEPT !.blank = blank]
  BY Zenon DEF WindowScan
<1>2. \A f : [WindowStart EXCEPT !.fence = f].fence = f /\ [WindowStart EXCEPT !.fence = f].blank = FALSE
  BY DEF WindowStart
<1>3. \A b \in BOOLEAN : [WindowStart EXCEPT !.blank = b].fence = NoFence /\ [WindowStart EXCEPT !.blank = b].blank = b
  BY DEF WindowStart
<1>4. blank \in BOOLEAN
  OBVIOUS
<1>5. blank => l.mark = "none" /\ l.body = "blank"
  OBVIOUS
<1> HIDE DEF next, blank
<1>6. \/ Closing /\ next.fence = NoFence /\ next.blank = FALSE
      \/ Staying /\ next.fence = w.fence /\ next.blank = FALSE
      \/ Opening /\ next.fence = Fence(l.body) /\ next.blank = FALSE
      \/ Other /\ next.fence = NoFence /\ next.blank = blank
  BY <1>1, <1>2, <1>3, <1>4, Zenon
<1>7. next.fence = IF w.fence # NoFence THEN IF Closes(w.fence, l) THEN NoFence ELSE w.fence
                   ELSE IF Shallow(l) /\ l.body \in Fences THEN Fence(l.body) ELSE NoFence
  BY <1>6
<1>8. next.blank \in BOOLEAN
  BY <1>4, <1>6
<1>9. next.blank => w.fence = NoFence /\ l.mark = "none" /\ l.body = "blank"
  BY <1>5, <1>6
<1> QED BY <1>7, <1>8, <1>9 DEF next

\* Inside a fence of the top level a line with a mark is one of the fence.
LEMMA MdLineMarked ==
  ASSUME NEW md, MdInv(md), md.inside = << >>, md.leaf = "fenced", NEW l \in Lines, l.mark # "none"
  PROVE  MdScan(md, l) = [md EXCEPT !.finds = FALSE]
<1> DEFINE at == Place(md, l)
<1>1. md.hollow = 0
  BY DEF MdInv, MdType
<1>2. at.n = 0 /\ at.mark = l.mark
  BY <1>1, PlaceTop
<1> HIDE DEF at
<1>3. at.n = Len(md.inside)
  BY <1>2, EmptySeq
<1> QED BY <1>2, <1>3, Zenon DEF MdScan, MdLine, at

\* A line that is not one of the two kinds of fences leaves the scan's fence that of md4c.
LEMMA WindowsAlike ==
  ASSUME NEW md, MdInv(md), md.leaf # "html", NEW w, w.fence \in MdFence, Fenced(w, md), NEW l \in Lines,
         l.body \in Fences => l.mark = "none" /\ md.inside = << >> /\ ~(l.body = "info" /\ w.fence # NoFence)
  PROVE  Fenced(WindowScan(w, l), MdScan(md, l))
<1> DEFINE scanned == WindowScan(w, l)
           next == MdScan(md, l)
<1>1. /\ md \in MdType /\ md.hollow \in 0 .. 2 /\ (md.hollow > 0 => md.inside # << >>)
      /\ md.leaf # "fenced" => md.fence = NoFence
      /\ l.body \in Bodies
  BY LineType DEF MdInv, MdType
<1>2. scanned.fence = IF w.fence # NoFence THEN IF Closes(w.fence, l) THEN NoFence ELSE w.fence
                      ELSE IF Shallow(l) /\ l.body \in Fences THEN Fence(l.body) ELSE NoFence
  BY WindowFields
<1>3. MdInv(next)
  BY MdScanInv
<1> HIDE DEF scanned, next
<1>4. next.leaf # "fenced" => next.fence = NoFence
  BY <1>3 DEF MdInv
<1>5. CASE md.leaf = "fenced"
  <2>1. md.inside = << >> /\ md.hollow = 0 /\ w.fence # NoFence /\ md.fence = w.fence
    BY <1>1, <1>5 DEF Fenced
  <2>2. CASE l.mark # "none"
    <3>1. next = [md EXCEPT !.finds = FALSE]
      BY <1>5, <2>1, <2>2, MdLineMarked DEF next
    <3>2. next.leaf = "fenced" /\ next.fence = md.fence /\ next.inside = << >>
      BY <1>1, <1>5, <2>1, <3>1 DEF MdType
    <3>3. scanned.fence = w.fence
      BY <1>2, <2>1, <2>2 DEF Closes, Shallow
    <3> QED BY <2>1, <3>2, <3>3 DEF Fenced, next, scanned
  <2>3. CASE l.mark = "none" /\ l.indent < CodeIndent /\ l.body # "info" /\ Matches(md.fence, l.body)
    <3>1. next = [MdStart EXCEPT !.inside = << >>]
      BY <1>5, <2>1, <2>3, MdLineTop, Zenon DEF next
    <3>2. next.leaf = "none" /\ next.fence = NoFence
      BY <3>1, MdStartType DEF MdType
    <3>3. scanned.fence = NoFence
      BY <1>2, <2>1, <2>3 DEF Closes, Shallow
    <3> QED BY <3>2, <3>3 DEF Fenced, next, scanned
  <2>4. CASE l.mark = "none" /\ ~(l.indent < CodeIndent /\ l.body # "info" /\ Matches(md.fence, l.body))
    <3>1. next = [md EXCEPT !.finds = FALSE]
      BY <1>5, <2>1, <2>4, MdLineTop, Zenon DEF next
    <3>2. next.leaf = "fenced" /\ next.fence = md.fence /\ next.inside = << >>
      BY <1>1, <1>5, <2>1, <3>1 DEF MdType
    <3>3. ~Closes(w.fence, l)
      <4>1. Matches(w.fence, l.body) => l.body \in Fences
        BY DEF Matches
      <4> QED BY <2>1, <2>4, <4>1 DEF Closes, Shallow
    <3>4. scanned.fence = w.fence
      BY <1>2, <2>1, <3>3
    <3> QED BY <2>1, <3>2, <3>4 DEF Fenced, next, scanned
  <2> QED BY <2>2, <2>3, <2>4
<1>6. CASE md.leaf # "fenced" /\ l.body \notin Fences
  <2>1. next.leaf # "fenced"
    BY <1>6, MdScanKind DEF next
  <2>2. scanned.fence = NoFence
    BY <1>2, <1>6 DEF Fenced
  <2> QED BY <1>4, <2>1, <2>2 DEF Fenced, next, scanned
<1>7. CASE md.leaf # "fenced" /\ l.body \in Fences
  <2>1. md.inside = << >> /\ md.hollow = 0 /\ w.fence = NoFence /\ l.mark = "none" /\ l.body # "blank"
    BY <1>1, <1>7 DEF Fenced, Fences
  <2>2. next = Leaf(md, << >>, TRUE, l.indent, l.body, l)
    BY <1>7, <2>1, MdLineTop, Zenon DEF next
  <2>3. CASE l.indent < CodeIndent
    <3> DEFINE opened == [[MdStart EXCEPT !.inside = << >>] EXCEPT !.leaf = "fenced", !.fence = Fence(l.body)]
    <3>1. l.body \notin {"blank", "equals", "dashes", "atx"}
      BY <1>7 DEF Fences
    <3>2. next = opened
      BY <1>7, <2>2, <2>3, <3>1, Zenon DEF Leaf
    <3>3. opened.leaf = "fenced" /\ opened.fence = Fence(l.body) /\ opened.inside = << >>
      BY MdStartType DEF MdType
    <3>4. scanned.fence = Fence(l.body) /\ Fence(l.body) # NoFence
      BY <1>2, <1>7, <2>1, <2>3, FenceType DEF Shallow
    <3> HIDE DEF opened
    <3>5. next.leaf = "fenced" /\ next.fence = Fence(l.body) /\ next.inside = << >>
      BY <3>2, <3>3
    <3> QED BY <3>4, <3>5 DEF Fenced, next, scanned
  <2>4. CASE ~(l.indent < CodeIndent)
    <3> DEFINE to == [MdStart EXCEPT !.inside = << >>]
               stays == IF md.leaf = "text" THEN md.inside ELSE << >>
    <3>1. l.body \notin {"blank", "html"}
      BY <1>7 DEF Fences
    <3>2. \/ next = [to EXCEPT !.leaf = "code"]
          \/ next = [to EXCEPT !.leaf = "text", !.id = l.anchored, !.inside = stays]
      BY <2>2, <2>4, <3>1, Zenon DEF Leaf
    <3>3. to \in MdType
      BY MdStartType DEF MdType
    <3> HIDE DEF to, stays
    <3>4. next.leaf # "fenced"
      BY <3>2, <3>3 DEF MdType
    <3>5. scanned.fence = NoFence
      BY <1>2, <2>1, <2>4 DEF Shallow
    <3> QED BY <1>4, <3>4, <3>5 DEF Fenced, next, scanned
  <2> QED BY <2>3, <2>4
<1> QED BY <1>5, <1>6, <1>7

WindowsInv ==
  /\ MdInv(walk.md) /\ walk.md.leaf # "html"
  /\ walk.w.fence \in MdFence
  /\ walk.w.blank => walk.w.fence = NoFence /\ walk.md.leaf \in {"none", "code", "fenced"}
  /\ ~walk.astray => Fenced(walk.w, walk.md)

LEMMA WindowsStart == WindowsInit => WindowsInv
<1> SUFFICES ASSUME WindowsInit PROVE WindowsInv
  OBVIOUS
<1>1. walk.md = MdStart /\ walk.w = WindowStart
  BY DEF WindowsInit, WalkStart
<1>2. WindowStart.fence = NoFence /\ WindowStart.blank = FALSE
  BY DEF WindowStart
<1>3. NoFence \in MdFence
  BY DEF NoFence, MdFence
<1>4. MdInv(MdStart)
  BY MdStartType DEF MdInv
<1>5. Fenced(WindowStart, MdStart)
  BY <1>2, MdStartType DEF Fenced
<1> QED BY <1>1, <1>2, <1>3, <1>4, <1>5, MdStartType DEF WindowsInv

LEMMA WindowsStep == WindowsInv /\ [WindowsNext]_<<walk, lines>> => WindowsInv'
<1> SUFFICES ASSUME WindowsInv, [WindowsNext]_<<walk, lines>> PROVE WindowsInv'
  OBVIOUS
<1>1. CASE WindowsNext
  <2>1. PICK l \in WindowLines : walk' = Walk(walk, l)
    BY <1>1 DEF WindowsNext
  <2>2. l \in Lines /\ l.body # "html"
    BY DEF WindowLines
  <2> DEFINE md == MdScan(walk.md, l)
             w == WindowScan(walk.w, l)
             astray == (walk.astray /\ ~Agreed(walk)) \/ Astray(walk, l)
  <2>3. walk'.md = md /\ walk'.w = w /\ walk'.astray = astray
    BY <2>1 DEF Walk
  <2>4. MdInv(walk.md) /\ walk.md.leaf # "html" /\ walk.w.fence \in MdFence
    BY DEF WindowsInv
  <2>5. MdInv(md)
    BY <2>2, <2>4, MdScanInv
  <2>6. /\ md.leaf # "html"
        /\ l.mark = "none" /\ l.body = "blank" => md.leaf \in {"none", "code", "fenced"}
    BY <2>2, <2>4, MdScanKind
  <2>7. w.fence \in MdFence
    <3>1. NoFence \in MdFence
      BY DEF NoFence, MdFence
    <3>2. w.fence \in {NoFence, walk.w.fence} \/ (l.body \in Fences /\ w.fence = Fence(l.body))
      BY <2>4, WindowFields
    <3> QED BY <2>4, <3>1, <3>2, FenceType
  <2>8. w.blank => w.fence = NoFence /\ md.leaf \in {"none", "code", "fenced"}
    <3>1. w.blank => walk.w.fence = NoFence /\ l.mark = "none" /\ l.body = "blank"
      BY <2>4, WindowFields
    <3>2. l.body = "blank" => l.body \notin Fences
      BY DEF Fences
    <3>3. walk.w.fence = NoFence /\ l.body \notin Fences => w.fence = NoFence
      BY <2>4, WindowFields
    <3> QED BY <2>6, <3>1, <3>2, <3>3
  <2>9. ~astray => Fenced(w, md)
    <3> SUFFICES ASSUME ~astray PROVE Fenced(w, md)
      OBVIOUS
    <3>1. Fenced(walk.w, walk.md)
      <4>1. CASE ~walk.astray
        BY <4>1 DEF WindowsInv
      <4>2. CASE Agreed(walk)
        BY <2>4, <4>2 DEF Agreed, Fenced, MdInv
      <4> QED BY <4>1, <4>2
    <3>2. l.body \in Fences =>
            l.mark = "none" /\ walk.md.inside = << >> /\ ~(l.body = "info" /\ walk.w.fence # NoFence)
      BY DEF Astray
    <3> QED BY <2>2, <2>4, <3>1, <3>2, WindowsAlike
  <2> HIDE DEF md, w, astray
  <2> QED BY <2>3, <2>5, <2>6, <2>7, <2>8, <2>9 DEF WindowsInv
<1>2. CASE UNCHANGED <<walk, lines>>
  <2>1. walk' = walk
    BY <1>2
  <2> QED BY <2>1 DEF WindowsInv
<1> QED BY <1>1, <1>2

LEMMA WindowsMean == WindowsInv => WindowsExact
<1> SUFFICES ASSUME WindowsInv, NEW cut \in Cuts(walk.w),
                    ~(cut.line.indent > 0 /\ Place(walk.md, cut.line).n > 0),
                    ~(cut.shown = "part" /\ NumberOnly(cut.line)),
                    ~(walk.astray /\ ~Agreed(walk))
             PROVE  Invisible(walk.md, cut.line)
  BY Zenon DEF WindowsExact
<1> DEFINE l == cut.line
           md == walk.md
           at == Place(md, l)
<1>1. /\ walk.w.blank
      /\ l \in WindowLines /\ (StartsTopBlock(l) \/ (cut.shown = "part" /\ NumberOnly(l)))
  BY DEF Cuts
<1>2. l \in Lines /\ l.mark = "none" /\ l.body # "blank" /\ l.body # "html" /\ l.indent \in Nat
  BY <1>1, LineType DEF WindowLines, StartsTopBlock, Shallow
<1>3. MdInv(md) /\ md \in MdType /\ md.inside \in Seq(MdOpen)
  BY DEF WindowsInv, MdInv, MdType
<1>4. walk.w.fence = NoFence /\ md.leaf \in {"none", "code", "fenced"}
  BY <1>1 DEF WindowsInv
<1>5. md.leaf \in {"none", "code"}
  <2>1. CASE ~walk.astray
    BY <1>4, <2>1 DEF WindowsInv, Fenced
  <2>2. CASE Agreed(walk)
    BY <2>2 DEF Agreed
  <2> QED BY <2>1, <2>2
<1>6. at \in Unmarked(l) /\ at \in AtType
  BY <1>2, <1>3, PlaceUnmarked DEF Unmarked
<1>7. at.n = 0 /\ at.mark = "none" /\ at.indent = l.indent
  <2>1. at.mark = "none" /\ (at.n = 0 => at.indent = l.indent) /\ (l.indent = 0 => at.n = 0) /\ at.n \in Nat
    BY <1>6 DEF Unmarked, AtType
  <2>2. ~(l.indent > 0 /\ at.n > 0)
    OBVIOUS
  <2> HIDE DEF at
  <2> QED BY <1>2, <2>1, <2>2
<1> HIDE DEF at
<1>8. ~Brother(md, at) /\ ~Child(md, at, l) /\ ~Blank(at, l)
  BY <1>2, <1>7 DEF Brother, Child, Blank
<1>9. SubSeq(md.inside, 1, at.n) = << >>
  BY <1>3, <1>7, SubSeqEmpty
<1>10. Eaten(md, at, l.body) = l.body
  BY <1>5 DEF Eaten
<1>11. PICK all \in BOOLEAN : all = (at.n = Len(md.inside))
  OBVIOUS
<1>12. md.leaf \notin {"fenced", "html", "text"}
  BY <1>5
<1>13. MdScan(md, l) = Leaf(md, << >>, all, l.indent, l.body, l)
  BY <1>7, <1>8, <1>9, <1>10, <1>11, <1>12, Zenon DEF MdScan, MdLine, at
<1>14. MdScan(MdStart, l) = Leaf(MdStart, << >>, TRUE, l.indent, l.body, l)
  <2>1. MdInv(MdStart)
    BY MdStartType DEF MdInv
  <2>2. MdStart.inside = << >> /\ MdStart.hollow = 0 /\ MdStart.leaf \notin {"fenced", "html"}
    BY MdStartType
  <2> QED BY <1>2, <2>1, <2>2, MdLineTop, Zenon
<1>15. MdScan(md, l) = MdScan(MdStart, l)
  <2>1. md.leaf # "text" /\ MdStart.leaf # "text"
    BY <1>12, MdStartType
  <2>2. Leaf(md, << >>, all, l.indent, l.body, l) = Leaf(MdStart, << >>, TRUE, l.indent, l.body, l)
    BY <2>1, Zenon DEF Leaf
  <2> QED BY <1>13, <1>14, <2>2
<1> QED BY <1>5, <1>7, <1>8, <1>15 DEF Invisible, at

\* Wherever the C renderer's window may be cut, the rest of content.md is parsed as if it had
\* never been cut, in documents of any length with any indents, up to the lines named in
\* WindowsExact (mm_window_end).
THEOREM WindowsAlwaysExact == WindowsSpec => []WindowsExact
<1>1. WindowsInit => WindowsInv
  BY WindowsStart
<1>2. WindowsInv /\ [WindowsNext]_<<walk, lines>> => WindowsInv'
  BY WindowsStep
<1>3. WindowsInv => WindowsExact
  BY WindowsMean
<1> QED BY <1>1, <1>2, <1>3, PTL DEF WindowsSpec

----------------------------------------------------------------------------
(* TextBlocks. *)

Texts    == [n : Nat, type : Words \union Breaks]
TextSeq  == Seq(Texts)
Rendered == [out : Seq(TextSeq), block : TextSeq]

\* There is a NUL in it.
Nul(b) == \E i \in DOMAIN b : b[i].type = "nul"

LEMMA NoTextSeq == << >> \in TextSeq /\ Trim(<< >>) = << >> /\ ~Nul(<< >>)
<1>1. << >> \in TextSeq /\ DOMAIN << >> = {}
  BY EmptySeq DEF TextSeq
<1>2. {i \in DOMAIN << >> : << >>[i].type \notin Breaks} = {}
  BY <1>1
<1>3. Trim(<< >>) = << >>
  BY <1>2 DEF Trim
<1> QED BY <1>1, <1>3 DEF Nul

\* A text's block without the breaks at its ends.
LEMMA TrimIs ==
  ASSUME NEW b \in TextSeq
  PROVE  \/ Trim(b) = << >> /\ ~Nul(b)
         \/ \E m \in 1 .. Len(b), n \in 1 .. Len(b) :
              /\ Trim(b) = SubSeq(b, m, n) /\ m <= n
              /\ \A i \in DOMAIN b : b[i].type = "nul" => m <= i /\ i <= n
<1> DEFINE words == {i \in DOMAIN b : b[i].type \notin Breaks}
<1>1. Len(b) \in Nat /\ DOMAIN b = 1 .. Len(b)
  BY LenProperties DEF TextSeq
<1>2. words \subseteq 1 .. Len(b) /\ words \subseteq Nat
  BY <1>1
<1>3. \A i \in DOMAIN b : b[i].type = "nul" => i \in words
  BY DEF Breaks
<1>4. Trim(b) = IF words = {} THEN << >>
                ELSE SubSeq(b, CHOOSE i \in words : \A j \in words : i <= j, CHOOSE i \in words : \A j \in words : j <= i)
  BY DEF Trim
<1> HIDE DEF words
<1>5. CASE words = {}
  BY <1>3, <1>4, <1>5 DEF Nul
<1>6. CASE words # {}
  <2> DEFINE m == CHOOSE i \in words : \A j \in words : i <= j
             n == CHOOSE i \in words : \A j \in words : j <= i
  <2>1. m \in words /\ \A j \in words : m <= j
    BY <1>2, <1>6, LeastNat
  <2>2. n \in words /\ \A j \in words : j <= n
    <3>1. \E i \in words : \A j \in words : j <= i
      BY <1>1, <1>2, <1>6, GreatestNat
    <3> QED BY <3>1
  <2>3. Trim(b) = SubSeq(b, m, n)
    BY <1>4, <1>6
  <2> HIDE DEF m, n
  <2>4. m \in 1 .. Len(b) /\ n \in 1 .. Len(b) /\ m <= n
    BY <1>2, <2>1, <2>2
  <2>5. \A i \in DOMAIN b : b[i].type = "nul" => m <= i /\ i <= n
    BY <1>3, <2>1, <2>2
  <2> QED BY <2>3, <2>4, <2>5
<1> QED BY <1>5, <1>6

LEMMA TrimKeeps ==
  ASSUME NEW b \in TextSeq
  PROVE  Trim(b) \in TextSeq /\ (Nul(b) => Nul(Trim(b)))
<1> USE DEF TextSeq
<1>1. Len(b) \in Nat /\ DOMAIN b = 1 .. Len(b)
  BY LenProperties
<1>2. CASE Trim(b) = << >> /\ ~Nul(b)
  BY <1>2, NoTextSeq
<1>3. CASE \E m \in 1 .. Len(b), n \in 1 .. Len(b) :
              /\ Trim(b) = SubSeq(b, m, n) /\ m <= n
              /\ \A i \in DOMAIN b : b[i].type = "nul" => m <= i /\ i <= n
  <2>1. PICK m \in 1 .. Len(b), n \in 1 .. Len(b) :
              /\ Trim(b) = SubSeq(b, m, n) /\ m <= n
              /\ \A i \in DOMAIN b : b[i].type = "nul" => m <= i /\ i <= n
    BY <1>3
  <2>2. /\ Trim(b) \in Seq(Texts) /\ Len(Trim(b)) = n - m + 1 /\ DOMAIN Trim(b) = 1 .. n - m + 1
        /\ \A i \in 1 .. n - m + 1 : Trim(b)[i] = b[m + i - 1]
    BY <1>1, <2>1, SubSeqProperties, LenProperties
  <2>3. ASSUME Nul(b) PROVE Nul(Trim(b))
    <3>1. PICK i \in 1 .. Len(b) : b[i].type = "nul"
      BY <1>1, <2>3 DEF Nul
    <3>2. i - m + 1 \in 1 .. n - m + 1 /\ m + (i - m + 1) - 1 = i
      BY <1>1, <2>1, <3>1
    <3>3. Trim(b)[i - m + 1] = b[i]
      BY <2>2, <3>2
    <3> QED BY <2>2, <3>1, <3>2, <3>3 DEF Nul
  <2> QED BY <2>2, <2>3
<1> QED BY <1>2, <1>3, TrimIs

LEMMA UnanchoredKeeps ==
  ASSUME NEW b \in TextSeq
  PROVE  Unanchored(b) \in TextSeq /\ (Nul(b) => Nul(Unanchored(b)))
<1> DEFINE t == Trim(b)
<1>1. t \in TextSeq /\ (Nul(b) => Nul(t))
  BY TrimKeeps
<1> HIDE DEF t
<1>2. CASE t # << >> /\ Last(t).type = "anchor"
  <2>1. Len(t) \in Nat /\ Len(t) # 0 /\ DOMAIN t = 1 .. Len(t)
    BY <1>1, <1>2, EmptySeq, LenProperties DEF TextSeq
  <2>2. Unanchored(b) = SubSeq(t, 1, Len(t) - 1)
    BY <1>2 DEF Unanchored, t
  <2> DEFINE u == SubSeq(t, 1, Len(t) - 1)
  <2>3. /\ u \in Seq(Texts) /\ DOMAIN u = 1 .. Len(t) - 1
        /\ \A i \in 1 .. Len(t) - 1 : u[i] = t[i]
    <3>1. u \in Seq(Texts) /\ Len(u) = Len(t) - 1 /\ \A i \in 1 .. Len(t) - 1 : u[i] = t[i]
      BY <1>1, <2>1, SubSeqProperties DEF TextSeq
    <3> QED BY <3>1, LenProperties
  <2> HIDE DEF u
  <2>4. ASSUME Nul(t) PROVE Nul(u)
    <3>1. PICK i \in 1 .. Len(t) : t[i].type = "nul"
      BY <2>1, <2>4 DEF Nul
    <3>2. i # Len(t)
      BY <1>2, <3>1 DEF Last
    <3>3. i \in 1 .. Len(t) - 1
      <4>1. PICK n \in Nat : n = Len(t)
        BY <2>1
      <4> QED BY <3>1, <3>2, <4>1
    <3> QED BY <2>3, <3>1, <3>3 DEF Nul
  <2> QED BY <1>1, <2>2, <2>3, <2>4 DEF u, TextSeq
<1>3. CASE ~(t # << >> /\ Last(t).type = "anchor")
  BY <1>3 DEF Unanchored, t
<1> QED BY <1>2, <1>3

LEMMA AppendedKeeps ==
  ASSUME NEW out \in Seq(TextSeq), NEW b \in TextSeq
  PROVE  /\ Appended(out, b) \in Seq(TextSeq)
         /\ HasNul(out) \/ Nul(b) => HasNul(Appended(out, b))
         /\ b = << >> => Appended(out, b) = out
<1> DEFINE t == Trim(b)
<1>1. t \in TextSeq /\ (Nul(b) => Nul(t)) /\ (b = << >> => t = << >>)
  BY TrimKeeps, NoTextSeq
<1>2. t = << >> => ~Nul(t)
  BY NoTextSeq
<1> HIDE DEF t
<1>3. CASE t = << >>
  BY <1>1, <1>2, <1>3 DEF Appended, t
<1>4. CASE t # << >>
  <2>1. Appended(out, b) = Append(out, t)
    BY <1>4 DEF Appended, t
  <2> DEFINE more == Append(out, t)
  <2>2. /\ Len(out) \in Nat /\ DOMAIN out = 1 .. Len(out)
        /\ more \in Seq(TextSeq) /\ DOMAIN more = 1 .. Len(out) + 1
        /\ \A i \in 1 .. Len(out) : more[i] = out[i]
        /\ more[Len(out) + 1] = t
    <3>1. /\ more \in Seq(TextSeq) /\ Len(more) = Len(out) + 1
          /\ \A i \in 1 .. Len(out) : more[i] = out[i]
          /\ more[Len(out) + 1] = t
      BY <1>1, AppendProperties
    <3> QED BY <3>1, LenProperties
  <2> HIDE DEF more
  <2>3. HasNul(out) => HasNul(more)
    BY <2>2 DEF HasNul
  <2>4. Nul(t) => HasNul(more)
    <3>1. Len(out) + 1 \in DOMAIN more
      BY <2>2
    <3> QED BY <2>2, <3>1 DEF HasNul, Nul
  <2> QED BY <1>1, <1>4, <2>1, <2>2, <2>3, <2>4 DEF more
<1> QED BY <1>3, <1>4

ProseType ==
  [open : Seq(Containers \union Leaves), opened : Nat, last : Leaves \union {"none"}, leaf : TextSeq,
   texts : Nat, meant : Seq(TextSeq), cpp : Rendered, ts : Rendered]

\* The C++ library's block: in a leaf its texts, elsewhere what a tight item said last.
CppAlike ==
  IF InLeaf THEN prose.cpp.block = prose.leaf /\ prose.cpp.out = prose.meant
  ELSE /\ Appended(prose.cpp.out, prose.cpp.block) = prose.meant
       /\ prose.cpp.block # << >> => prose.last = "bare"

ProseInv ==
  /\ prose \in ProseType
  /\ prose.leaf # << >> => InLeaf /\ Around # "hr"
  /\ \A i \in 1 .. Len(prose.open) - 1 : prose.open[i] \in Containers
  /\ prose.ts.out = prose.meant /\ prose.ts.block = prose.leaf
  /\ HasNul(prose.meant) \/ Nul(prose.leaf) \/ CppAlike

LEMMA Flushed ==
  ASSUME NEW r \in Rendered
  PROVE  /\ FlushBlock(r) \in Rendered
         /\ FlushBlock(r).out = Appended(r.out, r.block) /\ FlushBlock(r).block = << >>
<1>1. r.out \in Seq(TextSeq) /\ r.block \in TextSeq
  BY DEF Rendered
<1>2. Appended(r.out, r.block) \in Seq(TextSeq)
  BY <1>1, AppendedKeeps
<1>3. PICK b \in TextSeq : b = << >>
  BY NoTextSeq
<1>4. FlushBlock(r) = [out |-> Appended(r.out, r.block), block |-> b]
  BY <1>3 DEF FlushBlock
<1> QED BY <1>2, <1>3, <1>4 DEF Rendered

LEMMA FlushedHeading ==
  ASSUME NEW r \in Rendered
  PROVE  /\ FlushHeading(r) \in Rendered
         /\ FlushHeading(r).out = Appended(r.out, Unanchored(r.block)) /\ FlushHeading(r).block = << >>
<1> DEFINE u == [r EXCEPT !.block = Unanchored(r.block)]
<1>1. Unanchored(r.block) \in TextSeq
  BY UnanchoredKeeps DEF Rendered
<1>2. u \in Rendered /\ u.out = r.out /\ u.block = Unanchored(r.block)
  BY <1>1 DEF Rendered
<1>3. FlushHeading(r) = FlushBlock(u)
  BY DEF FlushHeading
<1> HIDE DEF u
<1> QED BY <1>2, <1>3, Flushed

LEMMA TextBlocksStart == TextBlocksInit => ProseInv
<1> SUFFICES ASSUME TextBlocksInit PROVE ProseInv
  OBVIOUS
<1>1. << >> \in Seq(Containers \union Leaves) /\ << >> \in TextSeq /\ << >> \in Seq(TextSeq) /\ Len(<< >>) = 0
  BY EmptySeq DEF TextSeq
<1>2. PICK b \in TextSeq, o \in Seq(TextSeq), n \in Seq(Containers \union Leaves) :
        b = << >> /\ o = << >> /\ n = << >>
  BY <1>1
<1>3. NoText = [out |-> o, block |-> b]
  BY <1>2 DEF NoText
<1>4. NoText \in Rendered /\ NoText.out = o /\ NoText.block = b
  BY <1>3 DEF Rendered
<1>5. prose = [open |-> n, opened |-> 0, last |-> "none", leaf |-> b, texts |-> 0, meant |-> o,
               cpp |-> NoText, ts |-> NoText]
  BY <1>2 DEF TextBlocksInit, ProseStart
<1>6. /\ prose \in ProseType /\ prose.open = << >> /\ prose.leaf = << >> /\ prose.meant = << >>
      /\ prose.cpp.out = << >> /\ prose.cpp.block = << >> /\ prose.ts.out = << >> /\ prose.ts.block = << >>
  BY <1>2, <1>4, <1>5 DEF ProseType
<1>7. ~InLeaf
  BY <1>6 DEF InLeaf, Around, Leaves
<1>8. Appended(prose.cpp.out, prose.cpp.block) = prose.meant
  BY <1>1, <1>6, AppendedKeeps
<1>9. \A i \in 1 .. Len(prose.open) - 1 : prose.open[i] \in Containers
  BY <1>1, <1>6
<1> QED BY <1>6, <1>7, <1>8, <1>9 DEF ProseInv, CppAlike

\* What a block that is entered is in, and what one that is left was in.
LEMMA AroundIs ==
  ASSUME NEW open \in Seq(Containers \union Leaves), open # << >>,
         \A i \in 1 .. Len(open) - 1 : open[i] \in Containers
  PROVE  /\ Last(open) \in Containers \union Leaves
         /\ Front(open) \in Seq(Containers \union Leaves)
         /\ \A i \in 1 .. Len(Front(open)) - 1 : Front(open)[i] \in Containers
         /\ Front(open) # << >> => Last(Front(open)) \in Containers
<1> DEFINE S == Containers \union Leaves
           front == SubSeq(open, 1, Len(open) - 1)
<1> HIDE DEF S
<1>1. open \in Seq(S)
  BY DEF S
<1>2. PICK n \in Nat : n = Len(open) /\ n # 0
  BY <1>1, EmptySeq
<1>3. \A i \in 1 .. n : open[i] \in S
  BY <1>1, <1>2, ElementOfSeq
<1>4. /\ front \in Seq(S) /\ Len(front) = n - 1
      /\ \A i \in 1 .. n - 1 : front[i] = open[i]
  <2>1. 1 \in Int /\ n - 1 \in Int /\ \A i \in 1 .. n - 1 : open[i] \in S
    BY <1>2, <1>3
  <2>2. front = SubSeq(open, 1, n - 1)
    BY <1>2
  <2>3. /\ SubSeq(open, 1, n - 1) \in Seq(S)
        /\ Len(SubSeq(open, 1, n - 1)) = IF 1 <= n - 1 THEN (n - 1) - 1 + 1 ELSE 0
        /\ \A i \in 1 .. (n - 1) - 1 + 1 : SubSeq(open, 1, n - 1)[i] = open[1 + i - 1]
    BY <2>1, SubSeqProperties
  <2> QED BY <1>2, <2>2, <2>3
<1>5. Front(open) = front
  BY DEF Front
<1> HIDE DEF front
<1>6. Last(open) \in S
  BY <1>2, <1>3 DEF Last
<1>7. front # << >> => Last(front) \in Containers
  <2>1. front # << >> => n - 1 # 0
    BY <1>2, <1>4, EmptySeq
  <2> QED BY <1>2, <1>4, <2>1 DEF Last
<1>8. \A i \in 1 .. Len(front) - 1 : front[i] \in Containers
  BY <1>2, <1>4
<1> QED BY <1>4, <1>5, <1>6, <1>7, <1>8 DEF S

LEMMA CppEnters ==
  ASSUME NEW r \in Rendered, NEW kind \in Containers \union Leaves
  PROVE  /\ CppEnter(r, kind) \in Rendered
         /\ kind = "bare" => CppEnter(r, kind) = r
         /\ kind # "bare" => /\ CppEnter(r, kind).out = Appended(r.out, r.block)
                             /\ CppEnter(r, kind).block = << >>
BY Flushed DEF CppEnter

LEMMA CppLeaves ==
  ASSUME NEW r \in Rendered, NEW kind \in Containers \union Leaves
  PROVE  /\ CppLeave(r, kind) \in Rendered
         /\ kind = "h" => CppLeave(r, kind) = FlushHeading(r)
         /\ kind \in {"p", "code", "item", "tight item"} => CppLeave(r, kind) = FlushBlock(r)
         /\ kind \in {"bare", "quote", "hr"} => CppLeave(r, kind) = r
BY Flushed, FlushedHeading DEF CppLeave, Containers, Leaves

LEMMA TsLeaves ==
  ASSUME NEW r \in Rendered, NEW kind \in Containers \union Leaves
  PROVE  /\ TsLeave(r, kind) \in Rendered
         /\ kind = "h" => TsLeave(r, kind) = FlushHeading(r)
         /\ kind \in {"p", "bare", "code"} => TsLeave(r, kind) = FlushBlock(r)
         /\ kind \notin {"h", "p", "bare", "code"} => TsLeave(r, kind) = r
BY Flushed, FlushedHeading DEF TsLeave, Containers, Leaves

LEMMA EnterKeeps ==
  ASSUME ProseInv, NEW kind \in Containers \union Leaves, EnterBlock(kind)
  PROVE  ProseInv'
<1> DEFINE last == IF kind \in {"item", "tight item"} THEN "none" ELSE prose.last
           cpp == CppEnter(prose.cpp, kind)
           open == Append(prose.open, kind)
<1>1. /\ prose \in ProseType /\ prose.open \in Seq(Containers \union Leaves) /\ prose.cpp \in Rendered
      /\ prose.cpp.out \in Seq(TextSeq) /\ prose.cpp.block \in TextSeq /\ prose.meant \in Seq(TextSeq)
      /\ prose.opened + 1 \in Nat
  BY DEF ProseInv, ProseType, Rendered
<1>2. ~InLeaf /\ FitsIn(kind)
  BY DEF EnterBlock
<1>3. prose.leaf = << >>
  BY <1>2 DEF ProseInv
<1>4. cpp \in Rendered /\ (kind = "bare" => cpp = prose.cpp)
      /\ (kind # "bare" => cpp.out = Appended(prose.cpp.out, prose.cpp.block) /\ cpp.block = << >>)
  BY <1>1, CppEnters
<1>5. last \in Leaves \union {"none"} /\ (kind \notin {"item", "tight item"} => last = prose.last)
  BY <1>1 DEF ProseType
<1>6. PICK n \in Nat : n = Len(prose.open)
  BY <1>1, LenProperties
<1>7. /\ open \in Seq(Containers \union Leaves) /\ open # << >> /\ Len(open) = n + 1
      /\ \A i \in 1 .. n : open[i] = prose.open[i]
      /\ open[n + 1] = kind
  BY <1>1, <1>6, AppendProperties
<1>8. prose' = [prose EXCEPT !.open = open, !.opened = prose.opened + 1, !.cpp = cpp, !.last = last]
  BY DEF EnterBlock
<1> HIDE DEF open, cpp, last
<1>9. /\ prose' \in ProseType /\ prose'.open = open /\ prose'.cpp = cpp /\ prose'.last = last
      /\ prose'.leaf = prose.leaf /\ prose'.meant = prose.meant /\ prose'.ts = prose.ts
  <2>1. PICK o \in Nat : o = prose.opened + 1
    BY <1>1
  <2> DEFINE next == [prose EXCEPT !.open = open, !.opened = o, !.cpp = cpp, !.last = last]
  <2>2. prose' = next
    BY <1>8, <2>1
  <2>3. /\ next \in ProseType /\ next.open = open /\ next.cpp = cpp /\ next.last = last
        /\ next.leaf = prose.leaf /\ next.meant = prose.meant /\ next.ts = prose.ts
    BY <1>1, <1>4, <1>5, <1>7 DEF ProseType
  <2> HIDE DEF next
  <2> QED BY <2>2, <2>3
<1>10. Around' = kind
  BY <1>7, <1>9 DEF Around, Last
<1>11. \A i \in 1 .. n : prose.open[i] \in Containers
  <2>1. ASSUME n # 0 PROVE prose.open[n] \notin Leaves /\ prose.open[n] \in Containers \union Leaves
    <3>1. prose.open # << >> /\ n \in 1 .. Len(prose.open)
      BY <1>6, <2>1, EmptySeq
    <3>2. Around = prose.open[n]
      BY <1>6, <3>1 DEF Around, Last
    <3>3. prose.open[n] \in Containers \union Leaves
      BY <1>1, <3>1, ElementOfSeq
    <3> QED BY <1>2, <3>2, <3>3 DEF InLeaf
  <2>2. \A i \in 1 .. n - 1 : prose.open[i] \in Containers
    BY <1>6 DEF ProseInv
  <2> QED BY <2>1, <2>2
<1>12. \A i \in 1 .. Len(open) - 1 : open[i] \in Containers
  BY <1>7, <1>11
<1>13. ASSUME ~HasNul(prose.meant), ~Nul(prose.leaf)
       PROVE  CppAlike'
  <2>1. Appended(prose.cpp.out, prose.cpp.block) = prose.meant /\ (prose.cpp.block # << >> => prose.last = "bare")
    BY <1>2, <1>13 DEF ProseInv, CppAlike
  <2>2. Appended(prose.meant, << >>) = prose.meant
    BY <1>1, NoTextSeq, AppendedKeeps
  <2>3. cpp.block = << >> /\ cpp.out = prose.meant
    <3>1. CASE kind = "bare"
      <4>1. prose.cpp.block = << >>
        BY <1>2, <2>1, <3>1 DEF FitsIn
      <4>2. Appended(prose.cpp.out, << >>) = prose.cpp.out
        BY <1>1, NoTextSeq, AppendedKeeps
      <4> QED BY <1>4, <2>1, <3>1, <4>1, <4>2
    <3>2. CASE kind # "bare"
      BY <1>4, <2>1, <3>2
    <3> QED BY <3>1, <3>2
  <2> QED BY <1>3, <1>9, <2>2, <2>3 DEF CppAlike
<1>14. prose'.leaf # << >> => InLeaf' /\ Around' # "hr"
  BY <1>3, <1>9
<1> QED BY <1>9, <1>12, <1>13, <1>14 DEF ProseInv

LEMMA TextKeeps ==
  ASSUME ProseInv, NEW type \in Words \union Breaks, AddText(type)
  PROVE  ProseInv'
<1> DEFINE t == [n |-> prose.texts, type |-> type]
           cpp == CppText(prose.cpp, t)
           ts == TsText(prose.ts, t)
           leaf == Append(prose.leaf, t)
<1>1. /\ prose \in ProseType /\ prose.leaf \in TextSeq /\ prose.cpp \in Rendered /\ prose.ts \in Rendered
      /\ prose.cpp.block \in TextSeq /\ prose.ts.block \in TextSeq
      /\ prose.texts \in Nat /\ prose.texts + 1 \in Nat
  BY DEF ProseInv, ProseType, Rendered
<1>2. InLeaf /\ Around # "hr"
  BY DEF AddText
<1>3. t \in Texts /\ t.type = type
  BY <1>1 DEF Texts
<1>4. prose' = [prose EXCEPT !.texts = prose.texts + 1, !.leaf = leaf, !.cpp = cpp, !.ts = ts]
  BY DEF AddText
<1> HIDE DEF t
<1>5. \A b \in TextSeq : Append(b, t) \in TextSeq
  BY <1>3, AppendProperties DEF TextSeq
<1>6. leaf \in TextSeq /\ (~Nul(leaf) => ~Nul(prose.leaf) /\ type # "nul")
  <2>1. PICK n \in Nat : n = Len(prose.leaf)
    BY <1>1, LenProperties DEF TextSeq
  <2>2. /\ leaf \in Seq(Texts) /\ Len(leaf) = n + 1 /\ (\A i \in 1 .. n : leaf[i] = prose.leaf[i])
        /\ leaf[n + 1] = t
    BY <1>1, <1>3, <2>1, AppendProperties DEF TextSeq
  <2>3. DOMAIN leaf = 1 .. n + 1 /\ DOMAIN prose.leaf = 1 .. n
    BY <1>1, <2>1, <2>2, LenProperties DEF TextSeq
  <2> HIDE DEF leaf
  <2>4. Nul(prose.leaf) => Nul(leaf)
    BY <2>2, <2>3 DEF Nul
  <2>5. type = "nul" => Nul(leaf)
    <3>1. n + 1 \in DOMAIN leaf
      BY <2>3
    <3> QED BY <1>3, <2>2, <3>1 DEF Nul
  <2> QED BY <2>2, <2>4, <2>5 DEF TextSeq
<1>7. ts \in Rendered /\ ts.out = prose.ts.out /\ ts.block = Append(prose.ts.block, t)
  BY <1>1, <1>5 DEF TsText, Gets, Rendered
<1>8. cpp \in Rendered /\ (type # "nul" => cpp.out = prose.cpp.out /\ cpp.block = Append(prose.cpp.block, t))
  BY <1>1, <1>3, <1>5 DEF CppText, Gets, Rendered
<1>9. leaf = Append(prose.leaf, t)
  OBVIOUS
<1> HIDE DEF leaf, cpp, ts
<1>10. /\ prose' \in ProseType /\ prose'.open = prose.open /\ prose'.leaf = leaf /\ prose'.cpp = cpp
       /\ prose'.ts = ts /\ prose'.meant = prose.meant /\ prose'.last = prose.last
  BY <1>1, <1>4, <1>6, <1>7, <1>8 DEF ProseType
<1>11. Around' = Around /\ InLeaf' = InLeaf
  BY <1>10 DEF Around, InLeaf
<1>12. ASSUME ~HasNul(prose'.meant), ~Nul(prose'.leaf)
       PROVE  CppAlike'
  <2>1. ~HasNul(prose.meant) /\ ~Nul(prose.leaf) /\ type # "nul"
    BY <1>6, <1>10, <1>12
  <2>2. prose.cpp.block = prose.leaf /\ prose.cpp.out = prose.meant
    BY <1>2, <2>1 DEF ProseInv, CppAlike
  <2> QED BY <1>2, <1>8, <1>9, <1>10, <1>11, <2>1, <2>2 DEF CppAlike
<1>13. prose'.ts.out = prose'.meant /\ prose'.ts.block = prose'.leaf
  BY <1>7, <1>9, <1>10 DEF ProseInv
<1>14. \A i \in 1 .. Len(prose'.open) - 1 : prose'.open[i] \in Containers
  BY <1>10 DEF ProseInv
<1> QED BY <1>2, <1>10, <1>11, <1>12, <1>13, <1>14 DEF ProseInv

LEMMA LeaveKeeps ==
  ASSUME ProseInv, LeaveBlock
  PROVE  ProseInv'
<1> DEFINE kind == Around
           said == IF kind = "h" THEN Unanchored(prose.leaf) ELSE prose.leaf
           last == IF InLeaf THEN kind ELSE prose.last
           cpp == CppLeave(prose.cpp, kind)
           ts == TsLeave(prose.ts, kind)
           intended == Appended(prose.meant, said)
           open == Front(prose.open)
<1>1. /\ prose \in ProseType /\ prose.leaf \in TextSeq /\ prose.cpp \in Rendered /\ prose.ts \in Rendered
      /\ prose.cpp.block \in TextSeq /\ prose.cpp.out \in Seq(TextSeq) /\ prose.meant \in Seq(TextSeq)
      /\ prose.open \in Seq(Containers \union Leaves) /\ prose.last \in Leaves \union {"none"}
  BY DEF ProseInv, ProseType, Rendered
<1>2. prose.open # << >> /\ kind = Last(prose.open)
  BY DEF LeaveBlock, Around
<1>3. \A i \in 1 .. Len(prose.open) - 1 : prose.open[i] \in Containers
  BY DEF ProseInv
<1>4. /\ kind \in Containers \union Leaves /\ open \in Seq(Containers \union Leaves)
      /\ \A i \in 1 .. Len(open) - 1 : open[i] \in Containers
      /\ open # << >> => Last(open) \in Containers
  BY <1>1, <1>2, <1>3, AroundIs
<1>5. PICK b \in TextSeq : b = << >>
  BY NoTextSeq
<1>6. prose' = [prose EXCEPT !.open = open, !.leaf = b, !.last = last, !.cpp = cpp, !.ts = ts, !.meant = intended]
  BY <1>5, Zenon DEF LeaveBlock
<1>7. InLeaf <=> kind \in Leaves
  BY DEF InLeaf
<1>8. prose.leaf # << >> => kind \in Leaves \ {"hr"}
  BY <1>7 DEF ProseInv
<1>9. prose.ts.out = prose.meant /\ prose.ts.block = prose.leaf
  BY DEF ProseInv
<1>10. HasNul(prose.meant) \/ Nul(prose.leaf) \/ CppAlike
  BY DEF ProseInv
<1>11. /\ kind = "h" => said = Unanchored(prose.leaf)
       /\ kind # "h" => said = prose.leaf
  OBVIOUS
<1>12. last \in Leaves \union {"none"} /\ (kind \in Leaves => last = kind) /\ (kind \notin Leaves => last = prose.last)
  BY <1>1, <1>4, <1>7
<1> HIDE DEF kind, open, last, said
<1>13. said \in TextSeq /\ (Nul(prose.leaf) => Nul(said))
  BY <1>1, <1>11, UnanchoredKeeps
<1>14. /\ intended \in Seq(TextSeq) /\ (HasNul(prose.meant) \/ Nul(said) => HasNul(intended))
       /\ said = << >> => intended = prose.meant
  BY <1>1, <1>13, AppendedKeeps
<1>15. /\ cpp \in Rendered
       /\ kind = "h" => cpp = FlushHeading(prose.cpp)
       /\ kind \in {"p", "code", "item", "tight item"} => cpp = FlushBlock(prose.cpp)
       /\ kind \in {"bare", "quote", "hr"} => cpp = prose.cpp
  BY <1>1, <1>4, CppLeaves
<1>16. /\ ts \in Rendered
       /\ kind = "h" => ts = FlushHeading(prose.ts)
       /\ kind \in {"p", "bare", "code"} => ts = FlushBlock(prose.ts)
       /\ kind \notin {"h", "p", "bare", "code"} => ts = prose.ts
  BY <1>1, <1>4, TsLeaves
<1>17. intended = Appended(prose.meant, said)
  OBVIOUS
<1> HIDE DEF cpp, ts, intended
<1>18. /\ prose' \in ProseType /\ prose'.open = open /\ prose'.leaf = << >> /\ prose'.last = last
       /\ prose'.cpp = cpp /\ prose'.ts = ts /\ prose'.meant = intended
  BY <1>1, <1>4, <1>5, <1>6, <1>12, <1>14, <1>15, <1>16 DEF ProseType
<1>19. ~InLeaf'
  <2>1. Around' \in Containers \union {"none"}
    BY <1>4, <1>18 DEF Around
  <2> QED BY <2>1 DEF InLeaf, Containers, Leaves
<1>20. ts.out = intended /\ ts.block = << >>
  <2>1. CASE kind = "h"
    BY <1>1, <1>9, <1>11, <1>16, <1>17, <2>1, FlushedHeading
  <2>2. CASE kind \in {"p", "bare", "code"}
    BY <1>1, <1>9, <1>11, <1>16, <1>17, <2>2, Flushed
  <2>3. CASE kind \notin {"h", "p", "bare", "code"}
    <3>1. prose.leaf = << >> /\ said = << >>
      BY <1>8, <1>11, <2>3 DEF Leaves
    <3> QED BY <1>9, <1>14, <1>16, <2>3, <3>1
  <2> QED BY <2>1, <2>2, <2>3
<1>21. ASSUME ~HasNul(intended)
       PROVE  Appended(cpp.out, cpp.block) = intended /\ (cpp.block # << >> => last = "bare")
  <2>1. CppAlike
    BY <1>10, <1>13, <1>14, <1>21
  <2>2. ASSUME cpp.block = << >>, cpp.out = intended
        PROVE  Appended(cpp.out, cpp.block) = intended /\ (cpp.block # << >> => last = "bare")
    BY <1>14, <2>2, NoTextSeq, AppendedKeeps
  <2>3. CASE kind = "h"
    <3>1. prose.cpp.block = prose.leaf /\ prose.cpp.out = prose.meant
      BY <1>7, <2>1, <2>3 DEF CppAlike, Leaves
    <3>2. cpp.block = << >> /\ cpp.out = intended
      BY <1>1, <1>11, <1>15, <1>17, <2>3, <3>1, FlushedHeading
    <3> QED BY <2>2, <3>2
  <2>4. CASE kind \in {"p", "code"}
    <3>1. prose.cpp.block = prose.leaf /\ prose.cpp.out = prose.meant
      BY <1>7, <2>1, <2>4 DEF CppAlike, Leaves
    <3>2. said = prose.leaf /\ cpp = FlushBlock(prose.cpp)
      BY <1>11, <1>15, <2>4
    <3>3. cpp.block = << >> /\ cpp.out = intended
      BY <1>1, <1>17, <3>1, <3>2, Flushed
    <3> QED BY <2>2, <3>3
  <2>5. CASE kind \in {"item", "tight item"}
    <3>1. kind \notin Leaves /\ prose.leaf = << >> /\ said = << >>
      BY <1>8, <1>11, <2>5 DEF Leaves
    <3>2. Appended(prose.cpp.out, prose.cpp.block) = prose.meant
      BY <1>7, <2>1, <3>1 DEF CppAlike
    <3>3. cpp.block = << >> /\ cpp.out = intended
      BY <1>1, <1>14, <1>15, <2>5, <3>1, <3>2, Flushed
    <3> QED BY <2>2, <3>3
  <2>6. CASE kind = "bare"
    <3>1. prose.cpp.block = prose.leaf /\ prose.cpp.out = prose.meant /\ last = "bare"
      BY <1>7, <1>12, <2>1, <2>6 DEF CppAlike, Leaves
    <3> QED BY <1>11, <1>15, <1>17, <2>6, <3>1
  <2>7. CASE kind = "quote"
    <3>1. kind \notin Leaves /\ prose.leaf = << >> /\ said = << >>
      BY <1>8, <1>11, <2>7 DEF Leaves
    <3> QED BY <1>7, <1>12, <1>14, <1>15, <2>1, <2>7, <3>1 DEF CppAlike
  <2>8. CASE kind = "hr"
    <3>1. prose.leaf = << >> /\ said = << >> /\ kind \in Leaves
      BY <1>8, <1>11, <2>8 DEF Leaves
    <3>2. cpp.block = << >> /\ cpp.out = intended
      BY <1>7, <1>14, <1>15, <2>1, <2>8, <3>1 DEF CppAlike
    <3> QED BY <2>2, <3>2
  <2> QED BY <1>4, <2>3, <2>4, <2>5, <2>6, <2>7, <2>8 DEF Containers, Leaves
<1>22. ~HasNul(prose'.meant) /\ ~Nul(prose'.leaf) => CppAlike'
  BY <1>18, <1>19, <1>21 DEF CppAlike
<1>23. /\ prose'.leaf = << >> /\ prose'.ts.out = prose'.meant /\ prose'.ts.block = prose'.leaf
       /\ \A i \in 1 .. Len(prose'.open) - 1 : prose'.open[i] \in Containers
  BY <1>4, <1>18, <1>20
<1> QED BY <1>18, <1>22, <1>23 DEF ProseInv

LEMMA TextBlocksStep == ProseInv /\ [TextBlocksNext]_prose => ProseInv'
<1> SUFFICES ASSUME ProseInv, [TextBlocksNext]_prose PROVE ProseInv'
  OBVIOUS
<1>1. ASSUME NEW kind \in Containers \union Leaves, EnterBlock(kind) PROVE ProseInv'
  BY <1>1, EnterKeeps
<1>2. ASSUME NEW type \in Words \union Breaks, AddText(type) PROVE ProseInv'
  BY <1>2, TextKeeps
<1>3. CASE LeaveBlock
  BY <1>3, LeaveKeeps
<1>4. CASE UNCHANGED prose
  BY <1>4 DEF ProseInv, CppAlike, InLeaf, Around
<1> QED BY <1>1, <1>2, <1>3, <1>4 DEF TextBlocksNext

LEMMA TextBlocksMean == ProseInv => TextBlocksAgree
<1> SUFFICES ASSUME ProseInv, prose.open = << >>, ~HasNul(prose.meant)
             PROVE  FlushBlock(prose.cpp).out = prose.meant /\ FlushBlock(prose.ts).out = prose.meant
  BY DEF TextBlocksAgree
<1>1. /\ prose.cpp \in Rendered /\ prose.ts \in Rendered /\ prose.meant \in Seq(TextSeq)
  BY DEF ProseInv, ProseType
<1>2. ~InLeaf
  BY DEF InLeaf, Around, Leaves
<1>3. prose.leaf = << >>
  BY <1>2 DEF ProseInv
<1>4. Appended(prose.cpp.out, prose.cpp.block) = prose.meant
  BY <1>2, <1>3, NoTextSeq DEF ProseInv, CppAlike
<1>5. Appended(prose.meant, << >>) = prose.meant
  BY <1>1, NoTextSeq, AppendedKeeps
<1>6. prose.ts.out = prose.meant /\ prose.ts.block = << >>
  BY <1>3 DEF ProseInv
<1> QED BY <1>1, <1>4, <1>5, <1>6, Flushed

\* The plain text that markdown_to_text and renderText make of a document is the same, and every
\* text of it is in a block of its own, however deep its blocks are nested, however many they
\* are, and whatever is in them.
THEOREM TextBlocksAlwaysAgree == TextBlocksSpec => []TextBlocksAgree
<1> QED BY TextBlocksStart, TextBlocksStep, TextBlocksMean, PTL DEF TextBlocksSpec

----------------------------------------------------------------------------
(* HeadingIds. *)

ChunkTypes == {"normal", "entity", "html", "code", "span"}
ChunkTexts == {"word", "anchor", "front", "back", ""}
Chunks     == [type : ChunkTypes, text : ChunkTexts]
Headline   == [n : Nat, place : Places, pieces : Seq(Pieces)]

LEMMA OneElement ==
  ASSUME NEW S, NEW e \in S
  PROVE  << e >> \in Seq(S) /\ Len(<< e >>) = 1 /\ << e >>[1] = e
<1>1. << e >> \in Seq(S)
  OBVIOUS
<1>2. Len(<< e >>) = 1 /\ << e >>[1] = e
  OBVIOUS
<1> QED BY <1>1, <1>2

LEMMA ChunkType ==
  ASSUME NEW type \in ChunkTypes, NEW text \in ChunkTexts
  PROVE  /\ Chunk(type, text) \in Seq(Chunks) /\ Len(Chunk(type, text)) = 1
         /\ Chunk(type, text)[1].type = type /\ Chunk(type, text)[1].text = text
<1>1. PICK c \in Chunks : c = [type |-> type, text |-> text] /\ c.type = type /\ c.text = text
  <2> DEFINE chunk == [type |-> type, text |-> text]
  <2>1. chunk \in Chunks
    BY DEF Chunks
  <2>2. chunk.type = type /\ chunk.text = text
    OBVIOUS
  <2> HIDE DEF chunk
  <2>3. \E c \in Chunks : c = chunk /\ c.type = type /\ c.text = text
    BY <2>1, <2>2
  <2> QED BY <2>3 DEF chunk
<1>2. Chunk(type, text) = << c >>
  BY <1>1 DEF Chunk
<1> QED BY <1>1, <1>2, OneElement

LEMMA CallbacksType ==
  ASSUME NEW p \in Pieces
  PROVE  Callbacks(p) \in Seq(Chunks)
<1>1. /\ Chunk("normal", "word") \in Seq(Chunks) /\ Chunk("normal", "anchor") \in Seq(Chunks)
      /\ Chunk("normal", "front") \in Seq(Chunks) /\ Chunk("normal", "back") \in Seq(Chunks)
      /\ Chunk("code", "anchor") \in Seq(Chunks) /\ Chunk("entity", "word") \in Seq(Chunks)
      /\ Chunk("html", "word") \in Seq(Chunks) /\ Span \in Seq(Chunks)
  <2>1. /\ "normal" \in ChunkTypes /\ "code" \in ChunkTypes /\ "entity" \in ChunkTypes
        /\ "html" \in ChunkTypes /\ "span" \in ChunkTypes
    BY DEF ChunkTypes
  <2>2. /\ "word" \in ChunkTexts /\ "anchor" \in ChunkTexts /\ "front" \in ChunkTexts
        /\ "back" \in ChunkTexts /\ "" \in ChunkTexts
    BY DEF ChunkTexts
  <2>3. \A type \in ChunkTypes, text \in ChunkTexts : Chunk(type, text) \in Seq(Chunks)
    BY ChunkType
  <2> QED BY <2>1, <2>2, <2>3, Zenon DEF Span
<1>2. ASSUME NEW s \in Seq(Chunks), NEW t \in Seq(Chunks) PROVE s \o t \in Seq(Chunks)
  BY ConcatProperties
<1>3. CASE p \in {"word", "anchor", "entity", "tag"}
  BY <1>1, <1>3 DEF Callbacks
<1>4. CASE p = "escaped"
  BY <1>1, <1>2, <1>4 DEF Callbacks
<1>5. CASE p = "inner"
  <2>1. Chunk("normal", "front") \o Span \in Seq(Chunks)
    BY <1>1, <1>2
  <2>2. Chunk("normal", "front") \o Span \o Chunk("normal", "word") \in Seq(Chunks)
    BY <1>1, <1>2, <2>1
  <2>3. Chunk("normal", "front") \o Span \o Chunk("normal", "word") \o Span \in Seq(Chunks)
    BY <1>1, <1>2, <2>2
  <2>4. Chunk("normal", "front") \o Span \o Chunk("normal", "word") \o Span \o Chunk("normal", "back") \in Seq(Chunks)
    BY <1>1, <1>2, <2>3
  <2> QED BY <1>5, <2>4, Zenon DEF Callbacks
<1>6. CASE p \in {"stressed", "alt", "code"}
  <2>1. Span \o Chunk("normal", "anchor") \in Seq(Chunks) /\ Span \o Chunk("code", "anchor") \in Seq(Chunks)
    BY <1>1, <1>2
  <2>2. Span \o Chunk("normal", "anchor") \o Span \in Seq(Chunks)
    BY <1>1, <1>2, <2>1
  <2>3. Span \o Chunk("code", "anchor") \o Span \in Seq(Chunks)
    BY <1>1, <1>2, <2>1
  <2> QED BY <1>6, <2>2, <2>3 DEF Callbacks
<1> QED BY <1>3, <1>4, <1>5, <1>6 DEF Pieces

LEMMA CallbacksSteps ==
  ASSUME NEW h \in Headline
  PROVE  \E at : /\ at[0] = << >>
                 /\ \A k \in 1 .. Len(h.pieces) : at[k] = at[k - 1] \o Callbacks(h.pieces[k])
                 /\ CallbacksOf(h) = at[Len(h.pieces)]
<1> DEFINE pieces == h.pieces
           n == Len(pieces)
           X == Seq(Chunks)
           none == << >>
           by == [p \in X \X (1 .. n) |-> p[1] \o Callbacks(pieces[p[2]])]
           Iter(g) == g = [s \in SUBSET (DOMAIN pieces) |->
                             IF s = {} THEN << >> ELSE g[s \ {Max(s)}] \o Callbacks(pieces[Max(s)])]
           partial == CHOOSE g : Iter(g)
<1>1. n \in Nat /\ DOMAIN pieces = 1 .. n /\ \A i \in 1 .. n : pieces[i] \in Pieces
  BY LenProperties, ElementOfSeq DEF Headline
<1>2. by \in [X \X (1 .. n) -> X] /\ none \in X
  <2>1. \A s \in X, i \in 1 .. n : s \o Callbacks(pieces[i]) \in X
    BY <1>1, CallbacksType, ConcatProperties
  <2> QED BY <2>1, EmptySeq
<1>3. PICK f : FoldsUpTo(f, n, X, none, by)
  <2> HIDE DEF n, by, X, none
  <2> QED BY <1>1, <1>2, FoldsExist
<1>4. ASSUME NEW s \in SUBSET (1 .. n), s # {}
      PROVE  by[<<f[s \ {Max(s)}], Max(s)>>] = f[s \ {Max(s)}] \o Callbacks(pieces[Max(s)])
  <2>1. Max(s) \in 1 .. n
    <3> HIDE DEF n, by
    <3> QED BY <1>1, <1>4, GreatestNat
  <2>2. f[s \ {Max(s)}] \in X
    BY <1>3 DEF FoldsUpTo
  <2> HIDE DEF n, X
  <2> QED BY <2>1, <2>2
<1>5. Iter(f)
  <2> HIDE DEF by, n, X, pieces
  <2> QED BY <1>1, <1>3, <1>4 DEF FoldsUpTo
<1>6. Iter(partial)
  <2> HIDE DEF Iter
  <2> QED BY <1>5
<1>7. CallbacksOf(h) = partial[1 .. n]
  BY <1>1 DEF CallbacksOf, FoldLeft, MapThenFoldSet
<1>8. partial[1 .. 0] = << >> /\ \A k \in 1 .. n : partial[1 .. k] = partial[1 .. k - 1] \o Callbacks(pieces[k])
  <2> HIDE DEF partial
  <2>1. 1 .. 0 = {} /\ 1 .. 0 \in SUBSET (1 .. n)
    OBVIOUS
  <2> HIDE DEF n, by
  <2>2. partial[1 .. 0] = << >>
    BY <1>1, <1>6, <2>1
  <2>3. ASSUME NEW k \in 1 .. n
        PROVE  partial[1 .. k] = partial[1 .. k - 1] \o Callbacks(pieces[k])
    <3>1. /\ 1 .. k \in SUBSET (1 .. n) /\ 1 .. k # {}
          /\ Max(1 .. k) = k /\ (1 .. k) \ {Max(1 .. k)} = 1 .. k - 1
      BY <1>1, Interval
    <3>2. partial[1 .. k] = partial[(1 .. k) \ {Max(1 .. k)}] \o Callbacks(pieces[Max(1 .. k)])
      BY <1>1, <1>6, <3>1
    <3> QED BY <3>1, <3>2
  <2> QED BY <2>2, <2>3
<1> DEFINE at == [k \in 0 .. n |-> partial[1 .. k]]
<1>9. /\ at[0] = << >>
      /\ \A k \in 1 .. n : at[k] = at[k - 1] \o Callbacks(pieces[k])
      /\ CallbacksOf(h) = at[n]
  <2> HIDE DEF partial, n, by, Iter, pieces
  <2>1. \A k \in 0 .. n : at[k] = partial[1 .. k]
    OBVIOUS
  <2>2. \A k \in 1 .. n : k \in 0 .. n /\ k - 1 \in 0 .. n
    BY <1>1
  <2>3. 0 \in 0 .. n /\ n \in 0 .. n
    BY <1>1
  <2> HIDE DEF at
  <2> QED BY <1>7, <1>8, <2>1, <2>2, <2>3
<1> QED BY <1>9

\* What md4c reports last of a heading that ends in a word, an anchor, an entity or a tag.
LEMMA PlainCallbacks ==
  ASSUME NEW p \in {"word", "anchor", "entity", "tag"}
  PROVE  /\ Len(Callbacks(p)) = 1
         /\ Callbacks(p)[1].text = IF p = "anchor" THEN "anchor" ELSE "word"
         /\ Callbacks(p)[1].type = IF p = "entity" THEN "entity" ELSE IF p = "tag" THEN "html" ELSE "normal"
<1>1. CASE p \in {"word", "anchor"}
  <2>1. p # "entity" /\ p # "tag" /\ p \in ChunkTexts /\ "normal" \in ChunkTypes
    BY <1>1 DEF ChunkTexts, ChunkTypes
  <2>2. Callbacks(p) = Chunk("normal", p)
    BY <1>1 DEF Callbacks
  <2> QED BY <1>1, <2>1, <2>2, ChunkType
<1>2. CASE p = "entity"
  <2>1. "entity" \in ChunkTypes /\ "word" \in ChunkTexts
    BY DEF ChunkTypes, ChunkTexts
  <2>2. Callbacks(p) = Chunk("entity", "word")
    BY <1>2 DEF Callbacks
  <2> QED BY <1>2, <2>1, <2>2, ChunkType
<1>3. CASE p = "tag"
  <2>1. "html" \in ChunkTypes /\ "word" \in ChunkTexts
    BY DEF ChunkTypes, ChunkTexts
  <2>2. Callbacks(p) = Chunk("html", "word")
    BY <1>3 DEF Callbacks
  <2> QED BY <1>3, <2>1, <2>2, ChunkType
<1> QED BY <1>1, <1>2, <1>3

LEMMA HeadingEnds ==
  ASSUME NEW h \in Headline, ~Broken(h)
  PROVE  /\ CallbacksOf(h) \in Seq(Chunks)
         /\ h.pieces = << >> => CallbacksOf(h) = << >>
         /\ h.pieces # << >> =>
              /\ Last(h.pieces) \in {"word", "anchor", "entity", "tag"} /\ CallbacksOf(h) # << >>
              /\ Last(CallbacksOf(h)) = Callbacks(Last(h.pieces))[1]
<1> DEFINE n == Len(h.pieces)
           chunks == CallbacksOf(h)
<1>1. n \in Nat /\ (\A i \in 1 .. n : h.pieces[i] \in Pieces) /\ (h.pieces # << >> => n # 0)
      /\ (h.pieces = << >> => n = 0)
  BY LenProperties, ElementOfSeq, EmptySeq DEF Headline
<1>2. PICK at : /\ at[0] = << >>
                /\ \A k \in 1 .. n : at[k] = at[k - 1] \o Callbacks(h.pieces[k])
                /\ chunks = at[n]
  BY CallbacksSteps
<1> HIDE DEF n, chunks
<1>3. \A k \in 0 .. n : at[k] \in Seq(Chunks)
  <2>1. at[0] \in Seq(Chunks)
    BY <1>2, EmptySeq
  <2>2. \A k \in 1 .. n : at[k - 1] \in Seq(Chunks) => at[k] \in Seq(Chunks)
    BY <1>1, <1>2, CallbacksType, ConcatProperties
  <2> QED BY <1>1, <2>1, <2>2, StaysIn
<1>4. chunks \in Seq(Chunks)
  BY <1>1, <1>2, <1>3
<1>5. h.pieces = << >> => chunks = << >>
  BY <1>1, <1>2
<1>6. ASSUME h.pieces # << >>
      PROVE  /\ Last(h.pieces) \in {"word", "anchor", "entity", "tag"} /\ chunks # << >>
             /\ Last(chunks) = Callbacks(Last(h.pieces))[1]
  <2> DEFINE p == Last(h.pieces)
             before == at[n - 1]
             piece == Callbacks(p)
  <2>1. n \in 1 .. n /\ p = h.pieces[n] /\ p \in Pieces
    BY <1>1, <1>6 DEF Last, n
  <2>2. p \in {"word", "anchor", "entity", "tag"}
    BY <1>6, <2>1 DEF Broken, EndsIn, Pieces
  <2>3. before \in Seq(Chunks) /\ piece \in Seq(Chunks) /\ Len(piece) = 1
    <3>1. n - 1 \in 0 .. n
      BY <1>1, <2>1
    <3> QED BY <1>3, <2>1, <2>2, <3>1, CallbacksType, PlainCallbacks
  <2>4. chunks = before \o piece
    BY <1>2, <2>1
  <2> HIDE DEF before, piece
  <2>5. PICK m \in Nat : m = Len(before)
    BY <2>3, LenProperties
  <2>6. Len(chunks) = m + 1 /\ chunks[m + 1] = piece[1]
    <3>1. /\ Len(before \o piece) = Len(before) + Len(piece)
          /\ \A i \in 1 .. Len(before) + Len(piece) :
               (before \o piece)[i] = IF i <= Len(before) THEN before[i] ELSE piece[i - Len(before)]
      BY <2>3, ConcatProperties
    <3>2. m + 1 \in 1 .. m + 1 /\ ~(m + 1 <= m) /\ (m + 1) - m = 1
      OBVIOUS
    <3> QED BY <2>3, <2>4, <2>5, <3>1, <3>2
  <2>7. chunks # << >>
    BY <2>5, <2>6, EmptySeq
  <2>8. Last(chunks) = piece[1]
    BY <2>6 DEF Last
  <2> QED BY <2>2, <2>7, <2>8 DEF piece
<1> QED BY <1>4, <1>5, <1>6 DEF chunks

\* If the last chunk is read, it is the last of those that are.
LEMMA LastIsRead ==
  ASSUME NEW chunks \in Seq(Chunks), chunks # << >>, NEW but, Last(chunks).type \notin but
  PROVE  EndsWithAnchor(chunks, but) <=> Last(chunks).text \in {"anchor", "back"}
<1> DEFINE read == {i \in DOMAIN chunks : chunks[i].type \notin but}
<1>1. PICK n \in Nat : n = Len(chunks) /\ n # 0 /\ DOMAIN chunks = 1 .. n
  BY LenProperties, EmptySeq
<1>2. n \in read /\ read \subseteq 1 .. n
  BY <1>1 DEF Last
<1>3. EndsWithAnchor(chunks, but) <=> read # {} /\ chunks[Max(read)].text \in {"anchor", "back"}
  BY DEF EndsWithAnchor
<1> HIDE DEF read
<1>4. Max(read) \in read /\ n <= Max(read)
  BY <1>1, <1>2, GreatestNat
<1>5. Max(read) = n
  <2>1. PICK m \in 1 .. n : m = Max(read)
    BY <1>2, <1>4
  <2> QED BY <1>4, <2>1
<1> QED BY <1>1, <1>2, <1>3, <1>5 DEF Last

LEMMA HeadingAgrees ==
  ASSUME NEW h \in Headline, ~Broken(h)
  PROVE  /\ RenderId(h) = CppId(h) /\ ScanId(h) = CppId(h)
         /\ Trailed(h) \/ TsId(h) = CppId(h)
<1> DEFINE chunks == CallbacksOf(h)
           anchored == EndsIn(h, {"anchor"})
<1> HIDE DEF chunks, anchored
<1>1. ScanId(h) = IdIf(h, anchored)
  <2>1. ~EndsIn(h, {"inner"}) /\ (EndsIn(h, {"anchor", "escaped"}) = anchored)
    BY DEF Broken, EndsIn, anchored
  <2> QED BY <2>1 DEF ScanId
<1>2. CASE h.pieces = << >>
  <2>1. chunks = << >> /\ ~anchored
    BY <1>2, HeadingEnds DEF chunks, anchored, EndsIn
  <2>2. DOMAIN chunks = {}
    BY <2>1
  <2>3. \A but : ~EndsWithAnchor(chunks, but)
    BY <2>2 DEF EndsWithAnchor
  <2> QED BY <1>1, <2>1, <2>3, Zenon DEF RenderId, CppId, TsId, IdIf, chunks
<1>3. CASE h.pieces # << >>
  <2> DEFINE p == Last(h.pieces)
             c == Last(chunks)
  <2>1. /\ chunks \in Seq(Chunks) /\ chunks # << >>
        /\ p \in {"word", "anchor", "entity", "tag"} /\ c = Callbacks(p)[1]
    BY <1>3, HeadingEnds DEF chunks
  <2>2. /\ c.text = IF p = "anchor" THEN "anchor" ELSE "word"
        /\ c.type = IF p = "entity" THEN "entity" ELSE IF p = "tag" THEN "html" ELSE "normal"
    BY <2>1, PlainCallbacks
  <2>3. anchored <=> p = "anchor"
    BY <1>3 DEF anchored, EndsIn
  <2>4. Trailed(h) <=> p \in {"entity", "tag"}
    BY <1>3 DEF Trailed, EndsIn
  <2> HIDE DEF p
  <2>5. c.type \notin {"span"} /\ (p \notin {"entity", "tag"} => c.type \notin {"span", "entity", "html"})
    BY <2>1, <2>2
  <2>6. c.text \in {"anchor", "back"} <=> p = "anchor"
    BY <2>2
  <2>7. c.type \in {"normal", "html"} /\ c.text = "anchor" <=> p = "anchor"
    BY <2>1, <2>2
  <2> HIDE DEF c
  <2>8. EndsWithAnchor(chunks, {"span"}) <=> anchored
    BY <2>1, <2>3, <2>5, <2>6, LastIsRead DEF c
  <2>9. Trailed(h) \/ (EndsWithAnchor(chunks, {"span", "entity", "html"}) <=> anchored)
    BY <2>1, <2>3, <2>4, <2>5, <2>6, LastIsRead DEF c
  <2>10. CppId(h) = IdIf(h, anchored)
    BY <2>8, Zenon DEF CppId, IdIf, chunks
  <2>11. Trailed(h) \/ TsId(h) = IdIf(h, anchored)
    BY <2>9, Zenon DEF TsId, IdIf, chunks
  <2>12. RenderId(h) = IdIf(h, anchored)
    BY <2>1, <2>3, <2>7, Zenon DEF RenderId, IdIf, chunks, c
  <2> QED BY <1>1, <2>10, <2>11, <2>12
<1> QED BY <1>2, <1>3

LEMMA UpTo ==
  ASSUME NEW n \in Nat, NEW T, 0 \in T, \A k \in 1 .. n : k - 1 \in T => k \in T
  PROVE  \A k \in 0 .. n : k \in T
<1> DEFINE f == [k \in 0 .. n |-> k]
<1>1. \A k \in 0 .. n : f[k] = k
  OBVIOUS
<1>2. 0 \in 0 .. n /\ \A k \in 1 .. n : k \in 0 .. n /\ k - 1 \in 0 .. n
  OBVIOUS
<1> HIDE DEF f
<1>3. f[0] \in T /\ \A k \in 1 .. n : f[k - 1] \in T => f[k] \in T
  BY <1>1, <1>2
<1>4. \A k \in 0 .. n : f[k] \in T
  BY <1>3, StaysIn
<1> QED BY <1>1, <1>4

\* A heading more is parsed, or none.
Parsed(hs, h) == IF h.place = "html" THEN hs ELSE Append(hs, h)

LEMMA ParsedSteps ==
  ASSUME heads \in Seq(Headline)
  PROVE  \E at : /\ at[0] = << >>
                 /\ \A k \in 1 .. Len(heads) : at[k] = Parsed(at[k - 1], heads[k])
                 /\ ParsedHeadings = at[Len(heads)]
<1> DEFINE n == Len(heads)
           X == Seq(Headline)
           none == << >>
           by == [p \in X \X (1 .. n) |-> Parsed(p[1], heads[p[2]])]
           Iter(g) == g = [s \in SUBSET (DOMAIN heads) |->
                             IF s = {} THEN << >> ELSE Parsed(g[s \ {Max(s)}], heads[Max(s)])]
           partial == CHOOSE g : Iter(g)
<1>1. n \in Nat /\ DOMAIN heads = 1 .. n /\ \A i \in 1 .. n : heads[i] \in Headline
  BY LenProperties, ElementOfSeq
<1>2. by \in [X \X (1 .. n) -> X] /\ none \in X
  <2>1. \A s \in X, i \in 1 .. n : Parsed(s, heads[i]) \in X
    BY <1>1, AppendProperties DEF Parsed
  <2> QED BY <2>1, EmptySeq
<1>3. PICK f : FoldsUpTo(f, n, X, none, by)
  <2> HIDE DEF n, by, X, none
  <2> QED BY <1>1, <1>2, FoldsExist
<1>4. ASSUME NEW s \in SUBSET (1 .. n), s # {}
      PROVE  by[<<f[s \ {Max(s)}], Max(s)>>] = Parsed(f[s \ {Max(s)}], heads[Max(s)])
  <2>1. Max(s) \in 1 .. n
    <3> HIDE DEF n, by
    <3> QED BY <1>1, <1>4, GreatestNat
  <2>2. f[s \ {Max(s)}] \in X
    BY <1>3 DEF FoldsUpTo
  <2> HIDE DEF n, X
  <2> QED BY <2>1, <2>2
<1>5. Iter(f)
  <2> HIDE DEF by, n, X
  <2> QED BY <1>1, <1>3, <1>4 DEF FoldsUpTo
<1>6. Iter(partial)
  <2> HIDE DEF Iter
  <2> QED BY <1>5
<1>7. ParsedHeadings = partial[1 .. n]
  BY <1>1 DEF ParsedHeadings, FoldLeft, MapThenFoldSet, Parsed
<1>8. partial[1 .. 0] = << >> /\ \A k \in 1 .. n : partial[1 .. k] = Parsed(partial[1 .. k - 1], heads[k])
  <2> HIDE DEF partial
  <2>1. 1 .. 0 = {} /\ 1 .. 0 \in SUBSET (1 .. n)
    OBVIOUS
  <2> HIDE DEF n, by
  <2>2. partial[1 .. 0] = << >>
    BY <1>1, <1>6, <2>1
  <2>3. ASSUME NEW k \in 1 .. n
        PROVE  partial[1 .. k] = Parsed(partial[1 .. k - 1], heads[k])
    <3>1. /\ 1 .. k \in SUBSET (1 .. n) /\ 1 .. k # {}
          /\ Max(1 .. k) = k /\ (1 .. k) \ {Max(1 .. k)} = 1 .. k - 1
      BY <1>1, Interval
    <3>2. partial[1 .. k] = Parsed(partial[(1 .. k) \ {Max(1 .. k)}], heads[Max(1 .. k)])
      BY <1>1, <1>6, <3>1
    <3> QED BY <3>1, <3>2
  <2> QED BY <2>2, <2>3
<1> DEFINE at == [k \in 0 .. n |-> partial[1 .. k]]
<1>9. /\ at[0] = << >>
      /\ \A k \in 1 .. n : at[k] = Parsed(at[k - 1], heads[k])
      /\ ParsedHeadings = at[n]
  <2> HIDE DEF partial, n, by, Iter
  <2>1. \A k \in 0 .. n : at[k] = partial[1 .. k]
    OBVIOUS
  <2>2. \A k \in 1 .. n : k \in 0 .. n /\ k - 1 \in 0 .. n
    BY <1>1
  <2>3. 0 \in 0 .. n /\ n \in 0 .. n
    BY <1>1
  <2> HIDE DEF at
  <2> QED BY <1>7, <1>8, <2>1, <2>2, <2>3
<1> QED BY <1>9

\* Without raw HTML the headings that are parsed are those that are rendered.
LEMMA AllParsed ==
  ASSUME heads \in Seq(Headline), \A i \in DOMAIN heads : heads[i].place # "html"
  PROVE  Len(ParsedHeadings) = Len(heads) /\ DOMAIN ParsedHeadings = DOMAIN heads
         /\ \A i \in DOMAIN heads : ParsedHeadings[i] = heads[i]
<1> DEFINE n == Len(heads)
<1>1. n \in Nat /\ DOMAIN heads = 1 .. n /\ \A i \in 1 .. n : heads[i] \in Headline
  BY LenProperties, ElementOfSeq
<1>2. PICK at : /\ at[0] = << >>
                /\ \A k \in 1 .. n : at[k] = Parsed(at[k - 1], heads[k])
                /\ ParsedHeadings = at[n]
  BY ParsedSteps
<1> DEFINE T == {k \in 0 .. n : at[k] \in Seq(Headline) /\ Len(at[k]) = k /\ \A i \in 1 .. k : at[k][i] = heads[i]}
<1> HIDE DEF n
<1>3. 0 \in T
  <2>1. << >> \in Seq(Headline) /\ Len(<< >>) = 0 /\ 1 .. 0 = {} /\ 0 \in 0 .. n
    BY <1>1, EmptySeq
  <2> QED BY <1>2, <2>1
<1>4. ASSUME NEW k \in 1 .. n, k - 1 \in T
      PROVE  k \in T
  <2> DEFINE s == at[k - 1]
  <2>1. s \in Seq(Headline) /\ Len(s) = k - 1 /\ \A i \in 1 .. k - 1 : s[i] = heads[i]
    BY <1>4
  <2>2. at[k] = Append(s, heads[k]) /\ heads[k] \in Headline
    BY <1>1, <1>2 DEF Parsed
  <2> HIDE DEF s
  <2>3. /\ Append(s, heads[k]) \in Seq(Headline) /\ Len(Append(s, heads[k])) = Len(s) + 1
        /\ \A i \in 1 .. Len(s) : Append(s, heads[k])[i] = s[i]
        /\ Append(s, heads[k])[Len(s) + 1] = heads[k]
    BY <2>1, <2>2, AppendProperties
  <2>4. (k - 1) + 1 = k /\ k \in 0 .. n
    BY <1>1
  <2>5. at[k] \in Seq(Headline) /\ Len(at[k]) = k
    BY <2>1, <2>2, <2>3, <2>4
  <2>6. \A i \in 1 .. k : at[k][i] = heads[i]
    <3> SUFFICES ASSUME NEW i \in 1 .. k PROVE at[k][i] = heads[i]
      OBVIOUS
    <3>1. CASE i = k
      BY <2>1, <2>2, <2>3, <2>4, <3>1
    <3>2. CASE i \in 1 .. k - 1
      BY <2>1, <2>2, <2>3, <3>2
    <3> QED BY <1>1, <3>1, <3>2
  <2> QED BY <2>4, <2>5, <2>6
<1>5. n \in T
  <2> HIDE DEF T
  <2>1. \A k \in 0 .. n : k \in T
    BY <1>1, <1>3, <1>4, UpTo
  <2> QED BY <1>1, <2>1
<1>6. /\ ParsedHeadings \in Seq(Headline) /\ Len(ParsedHeadings) = n
      /\ \A i \in 1 .. n : ParsedHeadings[i] = heads[i]
  BY <1>2, <1>5
<1>7. DOMAIN ParsedHeadings = 1 .. n
  BY <1>6, LenProperties
<1> QED BY <1>1, <1>6, <1>7 DEF n

LEMMA IdsMean == heads \in Seq(Headline) => IdsAreTheirs
<1> SUFFICES ASSUME heads \in Seq(Headline), \A i \in DOMAIN heads : heads[i].place # "html",
                    NEW i \in DOMAIN heads, ~Broken(heads[i])
             PROVE  /\ CppHtmlIds[i] = CppId(heads[i]) /\ EventIds[i] = CppId(heads[i])
                    /\ Trailed(heads[i]) \/ TsHtmlIds[i] = CppId(heads[i])
                    /\ heads[i].place = "top" => ScanIds[i] = CppId(heads[i])
  BY DEF IdsAreTheirs
<1>1. heads[i] \in Headline /\ ~(i > Len(heads))
  <2>1. Len(heads) \in Nat /\ DOMAIN heads = 1 .. Len(heads)
    BY LenProperties
  <2> QED BY <2>1, ElementOfSeq
<1>2. /\ Len(ParsedHeadings) = Len(heads) /\ DOMAIN ParsedHeadings = DOMAIN heads
      /\ ParsedHeadings[i] = heads[i]
  BY AllParsed
<1>3. /\ RenderId(heads[i]) = CppId(heads[i]) /\ ScanId(heads[i]) = CppId(heads[i])
      /\ Trailed(heads[i]) \/ TsId(heads[i]) = CppId(heads[i])
  BY <1>1, HeadingAgrees
<1>4. ASSUME NEW ids, DOMAIN ids = DOMAIN heads, Len(ids) = Len(heads)
      PROVE  Applied(ids)[i] = ids[i]
  BY <1>1, <1>4 DEF Applied
<1> QED BY <1>1, <1>2, <1>3, <1>4 DEF CppHtmlIds, TsHtmlIds, EventIds, ScanIds, Applied

\* Every rendering gives a heading the id that stands in it, the events of the C renderer and
\* the anchors of the C reader among them, in documents with any number of headings of any
\* length, up to those named in IdsAreTheirs.
THEOREM IdsAreAlwaysTheirs == HeadingIdsSpec => []IdsAreTheirs
<1>1. HeadingIdsInit => heads \in Seq(Headline)
  BY EmptySeq DEF HeadingIdsInit
<1>2. heads \in Seq(Headline) /\ [HeadingIdsNext]_heads => (heads \in Seq(Headline))'
  <2> SUFFICES ASSUME heads \in Seq(Headline), [HeadingIdsNext]_heads
               PROVE  heads' \in Seq(Headline)
    OBVIOUS
  <2>1. Len(heads) \in Nat /\ heads \in [1 .. Len(heads) -> Headline]
    BY LenProperties
  <2>2. ASSUME NEW place \in Places, AddHeading(place) PROVE heads' \in Seq(Headline)
    <3>1. << >> \in Seq(Pieces)
      BY EmptySeq
    <3>2. PICK none \in Seq(Pieces) : none = << >>
      BY <3>1
    <3>3. [n |-> Len(heads) + 1, place |-> place, pieces |-> none] \in Headline
      BY <2>1, <2>2 DEF Headline
    <3>4. heads' = Append(heads, [n |-> Len(heads) + 1, place |-> place, pieces |-> none])
      BY <2>2, <3>2 DEF AddHeading
    <3> QED BY <3>3, <3>4, AppendProperties
  <2>3. ASSUME NEW p \in Pieces, AddPiece(p) PROVE heads' \in Seq(Headline)
    <3> DEFINE n == Len(heads)
               h == [heads[n] EXCEPT !.pieces = Append(heads[n].pieces, p)]
    <3>1. n \in 1 .. n
      BY <2>1, <2>3, EmptySeq DEF AddPiece
    <3>2. heads[n] \in Headline
      BY <3>1, ElementOfSeq
    <3>3. Append(heads[n].pieces, p) \in Seq(Pieces)
      BY <2>3, <3>2, AppendProperties DEF Headline
    <3>4. h \in Headline
      BY <3>2, <3>3 DEF Headline
    <3>5. heads' = [heads EXCEPT ![n] = h]
      BY <2>3 DEF AddPiece
    <3> HIDE DEF h, n
    <3>6. heads' \in [1 .. n -> Headline]
      BY <2>1, <3>4, <3>5 DEF n
    <3>7. n \in Nat
      BY <2>1 DEF n
    <3> QED BY <3>6, <3>7
  <2> QED BY <2>2, <2>3 DEF HeadingIdsNext
<1> QED BY <1>1, <1>2, IdsMean, PTL DEF HeadingIdsSpec

----------------------------------------------------------------------------
(* RenderWalk. *)

Leads == Targets \union {NoLink}
Happenings == {"enter doc", "leave doc", "p", "code", "quote", "stray"}
Tells == [event : Happenings, link : Leads, member : BOOLEAN]

LEMMA EventType ==
  ASSUME NEW name \in Happenings, NEW to \in Leads
  PROVE  Event(name, to) \in Tells /\ << Event(name, to) >> \in Seq(Tells)
<1>1. Event(name, to) \in Tells
  <2> DEFINE member == to \in Members
  <2>1. member \in BOOLEAN
    OBVIOUS
  <2> HIDE DEF member
  <2>2. [event |-> name, link |-> to, member |-> member] \in Tells
    BY <2>1 DEF Tells
  <2> QED BY <2>2 DEF Event, member
<1> HIDE DEF Event
<1> QED BY <1>1, OneElement

LEMMA BlockType ==
  ASSUME NEW b \in Blocks
  PROVE  b.kind \in {"use"} \union Looking /\ b.to \in Leads /\ (b.kind \in Defining => b.to \in Targets)
BY DEF Blocks, Looking, Defining, Leads

LEMMA EventsOfType ==
  ASSUME NEW b \in Blocks, NEW dest \in Leads
  PROVE  EventsOf(b, dest) \in Seq(Tells)
<1>1. NoLink \in Leads
  BY DEF Leads
<1>2. b.kind \in {"use"} \union Looking
  BY BlockType
<1>3. << >> \in Seq(Tells)
  BY EmptySeq
<1> HIDE DEF Event
<1> QED BY <1>1, <1>2, <1>3, EventType DEF EventsOf, Looking, Happenings

LEMMA EventsSteps ==
  ASSUME NEW bs \in Seq(Blocks), NEW dest \in Leads
  PROVE  \E at : /\ at[0] = << >>
                 /\ \A k \in 1 .. Len(bs) : at[k] = at[k - 1] \o EventsOf(bs[k], dest)
                 /\ Events(bs, dest) = at[Len(bs)]
<1> DEFINE n == Len(bs)
           X == Seq(Tells)
           none == << >>
           by == [p \in X \X (1 .. n) |-> p[1] \o EventsOf(bs[p[2]], dest)]
           Iter(g) == g = [s \in SUBSET (DOMAIN bs) |->
                             IF s = {} THEN << >> ELSE g[s \ {Max(s)}] \o EventsOf(bs[Max(s)], dest)]
           iter0 == CHOOSE g : Iter(g)
<1>1. n \in Nat /\ DOMAIN bs = 1 .. n /\ \A i \in 1 .. n : bs[i] \in Blocks
  BY LenProperties, ElementOfSeq
<1>2. by \in [X \X (1 .. n) -> X] /\ none \in X
  <2>1. \A s \in X, i \in 1 .. n : s \o EventsOf(bs[i], dest) \in X
    BY <1>1, EventsOfType, ConcatProperties
  <2> QED BY <2>1, EmptySeq
<1>3. PICK f : FoldsUpTo(f, n, X, none, by)
  <2> HIDE DEF n, by, X, none
  <2> QED BY <1>1, <1>2, FoldsExist
<1>4. ASSUME NEW s \in SUBSET (1 .. n), s # {}
      PROVE  by[<<f[s \ {Max(s)}], Max(s)>>] = f[s \ {Max(s)}] \o EventsOf(bs[Max(s)], dest)
  <2>1. Max(s) \in 1 .. n
    <3> HIDE DEF n, by
    <3> QED BY <1>1, <1>4, GreatestNat
  <2>2. f[s \ {Max(s)}] \in X
    BY <1>3 DEF FoldsUpTo
  <2> HIDE DEF n, X
  <2> QED BY <2>1, <2>2
<1>5. Iter(f)
  <2> HIDE DEF by, n, X
  <2> QED BY <1>1, <1>3, <1>4 DEF FoldsUpTo
<1>6. Iter(iter0)
  <2> HIDE DEF Iter
  <2> QED BY <1>5
<1>7. Events(bs, dest) = iter0[1 .. n]
  BY <1>1 DEF Events, FoldLeft, MapThenFoldSet
<1>8. iter0[1 .. 0] = << >> /\ \A k \in 1 .. n : iter0[1 .. k] = iter0[1 .. k - 1] \o EventsOf(bs[k], dest)
  <2> HIDE DEF iter0
  <2>1. 1 .. 0 = {} /\ 1 .. 0 \in SUBSET (1 .. n)
    OBVIOUS
  <2> HIDE DEF n, by
  <2>2. iter0[1 .. 0] = << >>
    BY <1>1, <1>6, <2>1
  <2>3. ASSUME NEW k \in 1 .. n
        PROVE  iter0[1 .. k] = iter0[1 .. k - 1] \o EventsOf(bs[k], dest)
    <3>1. /\ 1 .. k \in SUBSET (1 .. n) /\ 1 .. k # {}
          /\ Max(1 .. k) = k /\ (1 .. k) \ {Max(1 .. k)} = 1 .. k - 1
      BY <1>1, Interval
    <3>2. iter0[1 .. k] = iter0[(1 .. k) \ {Max(1 .. k)}] \o EventsOf(bs[Max(1 .. k)], dest)
      BY <1>1, <1>6, <3>1
    <3> QED BY <3>1, <3>2
  <2> QED BY <2>2, <2>3
<1> DEFINE at == [k \in 0 .. n |-> iter0[1 .. k]]
<1>9. /\ at[0] = << >>
      /\ \A k \in 1 .. n : at[k] = at[k - 1] \o EventsOf(bs[k], dest)
      /\ Events(bs, dest) = at[n]
  <2> HIDE DEF iter0, n, by, Iter
  <2>1. \A k \in 0 .. n : at[k] = iter0[1 .. k]
    OBVIOUS
  <2>2. \A k \in 1 .. n : k \in 0 .. n /\ k - 1 \in 0 .. n
    BY <1>1
  <2>3. 0 \in 0 .. n /\ n \in 0 .. n
    BY <1>1
  <2> HIDE DEF at
  <2> QED BY <1>7, <1>8, <2>1, <2>2, <2>3
<1> QED BY <1>9

LEMMA CarriedSteps ==
  ASSUME NEW bs \in Seq(Blocks)
  PROVE  \E at : /\ at[0] = << >>
                 /\ \A k \in 1 .. Len(bs) : at[k] = IF Carries(bs[k]) THEN Append(at[k - 1], bs[k]) ELSE at[k - 1]
                 /\ CarriedLines(bs) = at[Len(bs)]
<1> DEFINE n == Len(bs)
           X == Seq(Blocks)
           none == << >>
           More(carried, b) == IF Carries(b) THEN Append(carried, b) ELSE carried
           by == [p \in X \X (1 .. n) |-> More(p[1], bs[p[2]])]
           Iter(g) == g = [s \in SUBSET (DOMAIN bs) |->
                             IF s = {} THEN << >> ELSE More(g[s \ {Max(s)}], bs[Max(s)])]
           iter0 == CHOOSE g : Iter(g)
<1>1. n \in Nat /\ DOMAIN bs = 1 .. n /\ \A i \in 1 .. n : bs[i] \in Blocks
  BY LenProperties, ElementOfSeq
<1>2. by \in [X \X (1 .. n) -> X] /\ none \in X
  <2>1. \A s \in X, i \in 1 .. n : More(s, bs[i]) \in X
    BY <1>1, AppendProperties
  <2> HIDE DEF More
  <2> QED BY <2>1, EmptySeq
<1>3. PICK f : FoldsUpTo(f, n, X, none, by)
  <2> HIDE DEF n, by, X, none
  <2> QED BY <1>1, <1>2, FoldsExist
<1>4. ASSUME NEW s \in SUBSET (1 .. n), s # {}
      PROVE  by[<<f[s \ {Max(s)}], Max(s)>>] = More(f[s \ {Max(s)}], bs[Max(s)])
  <2>1. Max(s) \in 1 .. n
    <3> HIDE DEF n, by
    <3> QED BY <1>1, <1>4, GreatestNat
  <2>2. f[s \ {Max(s)}] \in X
    BY <1>3 DEF FoldsUpTo
  <2> HIDE DEF n, X, More
  <2> QED BY <2>1, <2>2
<1>5. Iter(f)
  <2> HIDE DEF by, n, X, More
  <2> QED BY <1>1, <1>3, <1>4 DEF FoldsUpTo
<1>6. Iter(iter0)
  <2> HIDE DEF Iter
  <2> QED BY <1>5
<1>7. CarriedLines(bs) = iter0[1 .. n]
  BY <1>1 DEF CarriedLines, FoldLeft, MapThenFoldSet
<1> HIDE DEF More
<1>8. iter0[1 .. 0] = << >> /\ \A k \in 1 .. n : iter0[1 .. k] = More(iter0[1 .. k - 1], bs[k])
  <2> HIDE DEF iter0
  <2>1. 1 .. 0 = {} /\ 1 .. 0 \in SUBSET (1 .. n)
    OBVIOUS
  <2> HIDE DEF n, by
  <2>2. iter0[1 .. 0] = << >>
    BY <1>1, <1>6, <2>1
  <2>3. ASSUME NEW k \in 1 .. n
        PROVE  iter0[1 .. k] = More(iter0[1 .. k - 1], bs[k])
    <3>1. /\ 1 .. k \in SUBSET (1 .. n) /\ 1 .. k # {}
          /\ Max(1 .. k) = k /\ (1 .. k) \ {Max(1 .. k)} = 1 .. k - 1
      BY <1>1, Interval
    <3>2. iter0[1 .. k] = More(iter0[(1 .. k) \ {Max(1 .. k)}], bs[Max(1 .. k)])
      BY <1>1, <1>6, <3>1
    <3> QED BY <3>1, <3>2
  <2> QED BY <2>2, <2>3
<1> DEFINE at == [k \in 0 .. n |-> iter0[1 .. k]]
<1>9. /\ at[0] = << >>
      /\ \A k \in 1 .. n : at[k] = More(at[k - 1], bs[k])
      /\ CarriedLines(bs) = at[n]
  <2> HIDE DEF iter0, n, by, Iter
  <2>1. \A k \in 0 .. n : at[k] = iter0[1 .. k]
    OBVIOUS
  <2>2. \A k \in 1 .. n : k \in 0 .. n /\ k - 1 \in 0 .. n
    BY <1>1
  <2>3. 0 \in 0 .. n /\ n \in 0 .. n
    BY <1>1
  <2> HIDE DEF at
  <2> QED BY <1>7, <1>8, <2>1, <2>2, <2>3
<1> QED BY <1>9 DEF More

\* Steps from anywhere add the events of their blocks.
LEMMA EventsAre ==
  ASSUME NEW bs \in Seq(Blocks), NEW dest \in Leads, NEW e, NEW before \in Seq(Tells), e[0] = before,
         \A k \in 1 .. Len(bs) : e[k] = e[k - 1] \o EventsOf(bs[k], dest)
  PROVE  e[Len(bs)] = before \o Events(bs, dest) /\ Events(bs, dest) \in Seq(Tells)
<1> DEFINE n == Len(bs)
<1>1. n \in Nat /\ \A i \in 1 .. n : bs[i] \in Blocks
  BY LenProperties, ElementOfSeq
<1>2. PICK at : /\ at[0] = << >>
                /\ \A k \in 1 .. n : at[k] = at[k - 1] \o EventsOf(bs[k], dest)
                /\ Events(bs, dest) = at[n]
  BY EventsSteps
<1> DEFINE T == {k \in 0 .. n : at[k] \in Seq(Tells) /\ e[k] = before \o at[k]}
<1> HIDE DEF n
<1>3. 0 \in T
  <2>1. << >> \in Seq(Tells) /\ before \o << >> = before /\ 0 \in 0 .. n
    BY <1>1, EmptySeq, ConcatEmptySeq
  <2> QED BY <1>2, <2>1
<1>4. ASSUME NEW k \in 1 .. n, k - 1 \in T PROVE k \in T
  <2>1. at[k - 1] \in Seq(Tells) /\ e[k - 1] = before \o at[k - 1] /\ k \in 0 .. n
    BY <1>1, <1>4
  <2>2. EventsOf(bs[k], dest) \in Seq(Tells)
    BY <1>1, EventsOfType
  <2>3. (before \o at[k - 1]) \o EventsOf(bs[k], dest) = before \o (at[k - 1] \o EventsOf(bs[k], dest))
    <3>1. PICK t \in Seq(Tells), u \in Seq(Tells) : t = at[k - 1] /\ u = EventsOf(bs[k], dest)
      BY <2>1, <2>2
    <3>2. (before \o t) \o u = before \o (t \o u)
      BY ConcatAssociative
    <3> QED BY <3>1, <3>2
  <2>4. at[k - 1] \o EventsOf(bs[k], dest) \in Seq(Tells)
    BY <2>1, <2>2, ConcatProperties
  <2>5. e[k] = e[k - 1] \o EventsOf(bs[k], dest)
    BY DEF n
  <2> QED BY <1>2, <2>1, <2>3, <2>4, <2>5
<1>5. n \in T
  <2> HIDE DEF T
  <2>1. \A k \in 0 .. n : k \in T
    BY <1>1, <1>3, <1>4, UpTo
  <2> QED BY <1>1, <2>1
<1> QED BY <1>2, <1>5 DEF n

\* The events up to a place and those of the blocks behind it.
LEMMA EventsSplit ==
  ASSUME NEW bs \in Seq(Blocks), NEW dest \in Leads, NEW a \in Nat, NEW n \in Nat, a + n <= Len(bs)
  PROVE  Events(SubSeq(bs, 1, a + n), dest) =
           Events(SubSeq(bs, 1, a), dest) \o Events(SubSeq(bs, a + 1, a + n), dest)
<1>1. Len(bs) \in Nat /\ \A i \in 1 .. Len(bs) : bs[i] \in Blocks
  BY LenProperties, ElementOfSeq
<1>2. PICK e : /\ e[0] = << >>
               /\ \A k \in 1 .. Len(bs) : e[k] = e[k - 1] \o EventsOf(bs[k], dest)
  BY EventsSteps
<1>3. ASSUME NEW m \in Nat, m <= Len(bs)
      PROVE  Events(SubSeq(bs, 1, m), dest) = e[m] /\ e[m] \in Seq(Tells)
  <2> DEFINE s == SubSeq(bs, 1, m)
  <2>1. s \in Seq(Blocks) /\ Len(s) = m /\ \A i \in 1 .. m : s[i] = bs[i]
    <3>1. \A i \in 1 .. m : bs[i] \in Blocks
      BY <1>1, <1>3
    <3> QED BY <1>3, <3>1, SubSeqProperties
  <2> HIDE DEF s
  <2>2. << >> \in Seq(Tells)
    BY EmptySeq
  <2>3. \A k \in 1 .. Len(s) : e[k] = e[k - 1] \o EventsOf(s[k], dest)
    <3> SUFFICES ASSUME NEW k \in 1 .. m PROVE e[k] = e[k - 1] \o EventsOf(s[k], dest)
      BY <2>1
    <3>1. k \in 1 .. Len(bs)
      BY <1>1, <1>3
    <3> QED BY <1>2, <2>1, <3>1
  <2>4. e[Len(s)] = << >> \o Events(s, dest) /\ Events(s, dest) \in Seq(Tells)
    BY <1>2, <2>1, <2>2, <2>3, EventsAre
  <2>5. << >> \o Events(s, dest) = Events(s, dest)
    BY <2>4, ConcatEmptySeq
  <2> QED BY <2>1, <2>4, <2>5 DEF s
<1> DEFINE s == SubSeq(bs, a + 1, a + n)
           g == [k \in 0 .. n |-> e[a + k]]
<1>4. s \in Seq(Blocks) /\ Len(s) = n /\ \A i \in 1 .. n : s[i] = bs[a + i]
  <2>1. \A i \in a + 1 .. a + n : bs[i] \in Blocks
    BY <1>1
  <2>2. /\ SubSeq(bs, a + 1, a + n) \in Seq(Blocks)
        /\ Len(SubSeq(bs, a + 1, a + n)) = IF a + 1 <= a + n THEN (a + n) - (a + 1) + 1 ELSE 0
        /\ \A i \in 1 .. (a + n) - (a + 1) + 1 : SubSeq(bs, a + 1, a + n)[i] = bs[(a + 1) + i - 1]
    BY <2>1, SubSeqProperties
  <2>3. (a + n) - (a + 1) + 1 = n /\ (a + 1 <= a + n <=> n # 0) /\ \A i \in 1 .. n : (a + 1) + i - 1 = a + i
    OBVIOUS
  <2> QED BY <2>2, <2>3
<1> HIDE DEF s
<1>5. \A k \in 1 .. Len(s) : g[k] = g[k - 1] \o EventsOf(s[k], dest)
  <2> SUFFICES ASSUME NEW k \in 1 .. n PROVE g[k] = g[k - 1] \o EventsOf(s[k], dest)
    BY <1>4
  <2>1. k \in 0 .. n /\ k - 1 \in 0 .. n /\ a + k \in 1 .. Len(bs) /\ (a + k) - 1 = a + (k - 1)
    BY <1>1
  <2>2. e[a + k] = e[(a + k) - 1] \o EventsOf(bs[a + k], dest)
    BY <1>2, <2>1
  <2>3. g[k] = e[a + k] /\ g[k - 1] = e[a + (k - 1)]
    BY <2>1
  <2> HIDE DEF g
  <2> QED BY <1>4, <2>1, <2>2, <2>3
<1>6. g[0] = e[a] /\ g[n] = e[a + n]
  OBVIOUS
<1> HIDE DEF g
<1>7. e[a] \in Seq(Tells) /\ Events(SubSeq(bs, 1, a), dest) = e[a]
  BY <1>1, <1>3
<1>8. g[Len(s)] = e[a] \o Events(s, dest)
  BY <1>4, <1>5, <1>6, <1>7, EventsAre
<1>9. Events(SubSeq(bs, 1, a + n), dest) = e[a + n]
  BY <1>3
<1> QED BY <1>4, <1>6, <1>7, <1>8, <1>9 DEF s

\* What is told so far, and what is still to be told.
LEMMA PrefixOf ==
  ASSUME NEW S, NEW s \in Seq(S), NEW t \in Seq(S)
  PROVE  IsPrefix(s, s \o t)
<1>1. PICK n \in Nat, m \in Nat : n = Len(s) /\ m = Len(t)
  BY LenProperties
<1>2. s \o t \in Seq(S) /\ Len(s \o t) = n + m
  BY <1>1, ConcatProperties
<1>3. SubSeq(s \o t, 1, Len(s)) = SubSeq(s, 1, Len(s))
  <2>1. CASE n = 0
    BY <1>1, <2>1, SubSeqEmpty
  <2>2. CASE n # 0
    <3>1. 1 \in 1 .. Len(s) /\ Len(s) \in 1 .. Len(s)
      BY <1>1, <2>2
    <3> QED BY <3>1, SubSeqOfConcat1
  <2> QED BY <2>1, <2>2
<1> QED BY <1>1, <1>2, <1>3 DEF IsPrefix

Cat(s, t) == s \o t
LEMMA Regroup == \A S : \A s \in Seq(S), t \in Seq(S), u \in Seq(S) : Cat(Cat(s, t), u) = Cat(s, Cat(t, u))
BY ConcatAssociative DEF Cat

\* Of a stopped parse some of the events.
LEMMA PrefixOfSome ==
  ASSUME NEW S, NEW s \in Seq(S), NEW e \in Seq(S), NEW t \in Seq(S), NEW k \in 0 .. Len(e)
  PROVE  IsPrefix(s \o SubSeq(e, 1, k), (s \o e) \o t) /\ s \o SubSeq(e, 1, k) \in Seq(S)
<1> DEFINE a == SubSeq(e, 1, k)
           b == SubSeq(e, k + 1, Len(e))
<1>1. Len(e) \in Nat /\ \A i \in 1 .. Len(e) : e[i] \in S
  BY LenProperties, ElementOfSeq
<1>2. a \in Seq(S) /\ b \in Seq(S)
  <2>1. \A i \in 1 .. k : e[i] \in S
    BY <1>1
  <2>2. \A i \in k + 1 .. Len(e) : e[i] \in S
    BY <1>1
  <2> QED BY <1>1, <2>1, <2>2, SubSeqProperties
<1>3. a \o b = e
  <2>1. 1 \in 1 .. Len(e) + 1 /\ k \in 1 - 1 .. Len(e) /\ Len(e) \in k .. Len(e)
    BY <1>1
  <2>2. a \o b = SubSeq(e, 1, Len(e))
    BY <2>1, ConcatAdjacentSubSeq
  <2> QED BY <2>2, SubSeqFull
<1> HIDE DEF a, b
<1>4. s \o a \in Seq(S) /\ b \o t \in Seq(S)
  BY <1>2, ConcatProperties
<1>5. (s \o e) \o t = (s \o a) \o (b \o t)
  <2>1. s \o (a \o b) = (s \o a) \o b
    BY <1>2
  <2>2. ((s \o a) \o b) \o t = (s \o a) \o (b \o t)
    <3>1. PICK x \in Seq(S) : x = s \o a
      BY <1>4
    <3>2. Cat(Cat(x, b), t) = Cat(x, Cat(b, t))
      BY <1>2, Regroup
    <3> QED BY <3>1, <3>2 DEF Cat
  <2> QED BY <1>3, <2>1, <2>2
<1>6. IsPrefix(s \o a, (s \o a) \o (b \o t))
  BY <1>4, PrefixOf
<1> QED BY <1>4, <1>5, <1>6 DEF a

\* The first definition counts.
LEMMA ResolvedIs ==
  ASSUME NEW bs \in Seq(Blocks)
  PROVE  /\ (\A i \in 1 .. Len(bs) : bs[i].kind \notin Defining) => Resolved(bs) = NoLink
         /\ \A i \in 1 .. Len(bs) :
              bs[i].kind \in Defining /\ (\A j \in 1 .. i - 1 : bs[j].kind \notin Defining) => Resolved(bs) = bs[i].to
         /\ Resolved(bs) \in Leads
<1> DEFINE defs == {i \in 1 .. Len(bs) : bs[i].kind \in Defining}
           first == IF defs # {} THEN Min(defs) ELSE 0
<1>1. Len(bs) \in Nat /\ (\A i \in 1 .. Len(bs) : bs[i] \in Blocks) /\ defs \subseteq Nat
  BY LenProperties, ElementOfSeq
<1>2. Resolved(bs) = IF first = 0 THEN NoLink ELSE bs[first].to
  BY DEF Resolved, SelectInSeq
<1>3. defs # {} => Min(defs) \in defs /\ \A j \in defs : Min(defs) <= j
  <2> HIDE DEF defs
  <2> SUFFICES ASSUME defs # {} PROVE Min(defs) \in defs /\ \A j \in defs : Min(defs) <= j
    OBVIOUS
  <2>1. \E i \in defs : \A j \in defs : i <= j
    BY <1>1, LeastNat
  <2> QED BY <2>1 DEF Min
<1>4. ASSUME defs = {} PROVE Resolved(bs) = NoLink /\ NoLink \in Leads
  BY <1>2, <1>4 DEF Leads
<1>5. ASSUME defs # {}
      PROVE  /\ first = Min(defs) /\ first \in 1 .. Len(bs) /\ bs[first].kind \in Defining
             /\ Resolved(bs) = bs[first].to /\ bs[first].to \in Leads
             /\ \A j \in 1 .. Len(bs) : bs[j].kind \in Defining => first <= j
  <2>1. first = Min(defs) /\ Min(defs) \in defs /\ \A j \in defs : first <= j
    BY <1>3, <1>5
  <2>2. first \in 1 .. Len(bs) /\ bs[first].kind \in Defining /\ first # 0
    BY <1>1, <2>1
  <2>3. \A j \in 1 .. Len(bs) : bs[j].kind \in Defining => first <= j
    BY <2>1
  <2> HIDE DEF first, defs
  <2>4. Resolved(bs) = bs[first].to
    BY <1>2, <2>2
  <2>5. bs[first].to \in Leads
    BY <1>1, <2>2, BlockType
  <2> QED BY <2>1, <2>2, <2>3, <2>4, <2>5
<1>6. (\A i \in 1 .. Len(bs) : bs[i].kind \notin Defining) => Resolved(bs) = NoLink
  BY <1>4
<1>7. ASSUME NEW i \in 1 .. Len(bs), bs[i].kind \in Defining, \A j \in 1 .. i - 1 : bs[j].kind \notin Defining
      PROVE  Resolved(bs) = bs[i].to
  <2>1. defs # {}
    BY <1>7
  <2> HIDE DEF defs, first
  <2>2. first \in 1 .. Len(bs) /\ bs[first].kind \in Defining /\ Resolved(bs) = bs[first].to /\ first <= i
    BY <1>5, <1>7, <2>1
  <2>3. ~(first \in 1 .. i - 1)
    BY <1>7, <2>2
  <2>4. first = i
    <3>1. PICK m \in 1 .. Len(bs) : m = first
      BY <2>2
    <3> QED BY <1>1, <2>2, <2>3, <3>1
  <2> QED BY <2>2, <2>4
<1>8. Resolved(bs) \in Leads
  <2> HIDE DEF defs, first
  <2> QED BY <1>4, <1>5
<1> QED BY <1>6, <1>7, <1>8

\* Documents without one of the lines that are taken differently.
Usual(bs) == \A i \in DOMAIN bs : bs[i].kind \in {"use", "def", "fenced"}

LEMMA CarriedAre ==
  ASSUME NEW bs \in Seq(Blocks), Usual(bs)
  PROVE  /\ CarriedLines(bs) \in Seq(Blocks)
         /\ \A i \in 1 .. Len(CarriedLines(bs)) : CarriedLines(bs)[i].kind = "def"
         /\ CarriedLines(bs) = << >> => \A i \in 1 .. Len(bs) : bs[i].kind \notin Defining
         /\ CarriedLines(bs) # << >> =>
              \E i \in 1 .. Len(bs) : /\ CarriedLines(bs)[1] = bs[i] /\ bs[i].kind = "def"
                                      /\ \A j \in 1 .. i - 1 : bs[j].kind \notin Defining
<1> DEFINE n == Len(bs)
           HoldsAt(c, k) ==
             /\ c \in Seq(Blocks)
             /\ \A i \in 1 .. Len(c) : c[i].kind = "def"
             /\ c = << >> => \A i \in 1 .. k : bs[i].kind \notin Defining
             /\ c # << >> => \E i \in 1 .. k : /\ c[1] = bs[i] /\ bs[i].kind = "def"
                                               /\ \A j \in 1 .. i - 1 : bs[j].kind \notin Defining
<1>1. n \in Nat /\ DOMAIN bs = 1 .. n /\ \A i \in 1 .. n : bs[i] \in Blocks
  BY LenProperties, ElementOfSeq
<1>2. PICK at : /\ at[0] = << >>
                /\ \A k \in 1 .. n : at[k] = IF Carries(bs[k]) THEN Append(at[k - 1], bs[k]) ELSE at[k - 1]
                /\ CarriedLines(bs) = at[n]
  BY CarriedSteps
<1>3. \A i \in 1 .. n : (Carries(bs[i]) <=> bs[i].kind = "def") /\ (bs[i].kind \in Defining <=> bs[i].kind = "def")
  BY <1>1 DEF Usual, Carries, Defining
<1> DEFINE T == {k \in 0 .. n : HoldsAt(at[k], k)}
<1> HIDE DEF n
<1>4. 0 \in T
  <2>1. << >> \in Seq(Blocks) /\ Len(<< >>) = 0 /\ 1 .. 0 = {}
    BY EmptySeq
  <2>2. HoldsAt(<< >>, 0)
    BY <2>1
  <2>3. at[0] = << >> /\ 0 \in 0 .. n
    BY <1>1, <1>2
  <2>4. HoldsAt(at[0], 0)
    <3> HIDE DEF HoldsAt
    <3> QED BY <2>2, <2>3
  <2> HIDE DEF HoldsAt
  <2> QED BY <2>3, <2>4
<1>5. ASSUME NEW k \in 1 .. n, k - 1 \in T PROVE k \in T
  <2> DEFINE c == at[k - 1]
  <2>1. /\ c \in Seq(Blocks) /\ (\A i \in 1 .. Len(c) : c[i].kind = "def") /\ k \in 0 .. n /\ k \in Nat
        /\ c = << >> => \A i \in 1 .. k - 1 : bs[i].kind \notin Defining
        /\ c # << >> => \E i \in 1 .. k - 1 : /\ c[1] = bs[i] /\ bs[i].kind = "def"
                                              /\ \A j \in 1 .. i - 1 : bs[j].kind \notin Defining
    BY <1>1, <1>5
  <2>2. CASE bs[k].kind # "def"
    <3>1. at[k] = c
      BY <1>2, <1>3, <2>2
    <3> HIDE DEF c
    <3>2. \A i \in 1 .. k : i \in 1 .. k - 1 \/ i = k
      BY <2>1
    <3>3. c = << >> => \A i \in 1 .. k : bs[i].kind \notin Defining
      BY <1>3, <2>1, <2>2, <3>2
    <3>4. \A i \in 1 .. k - 1 : i \in 1 .. k
      BY <2>1
    <3>5. HoldsAt(c, k)
      BY <2>1, <3>3, <3>4
    <3> QED BY <2>1, <3>1, <3>5
  <2>3. CASE bs[k].kind = "def"
    <3> DEFINE d == Append(c, bs[k])
    <3>1. at[k] = d
      BY <1>2, <1>3, <2>3
    <3> HIDE DEF c
    <3>2. /\ d \in Seq(Blocks) /\ d # << >> /\ Len(d) = Len(c) + 1 /\ Len(c) \in Nat
          /\ (\A i \in 1 .. Len(c) : d[i] = c[i]) /\ d[Len(c) + 1] = bs[k]
      BY <1>1, <2>1, AppendProperties, LenProperties
    <3> HIDE DEF d
    <3>3. \A i \in 1 .. Len(d) : d[i].kind = "def"
      <4> TAKE i \in 1 .. Len(d)
      <4>1. i \in 1 .. Len(c) \/ i = Len(c) + 1
        BY <3>2
      <4> QED BY <2>1, <2>3, <3>2, <4>1
    <3>4. CASE c = << >>
      <4>1. Len(c) = 0 /\ d[1] = bs[k]
        BY <3>2, <3>4, EmptySeq
      <4>2. k \in 1 .. k /\ \A j \in 1 .. k - 1 : bs[j].kind \notin Defining
        BY <2>1, <3>4
      <4>3. HoldsAt(d, k)
        BY <2>3, <3>2, <3>3, <4>1, <4>2
      <4> QED BY <2>1, <3>1, <4>3
    <3>5. CASE c # << >>
      <4>1. PICK i \in 1 .. k - 1 : /\ c[1] = bs[i] /\ bs[i].kind = "def"
                                    /\ \A j \in 1 .. i - 1 : bs[j].kind \notin Defining
        BY <2>1, <3>5
      <4>2. 1 \in 1 .. Len(c) /\ i \in 1 .. k
        BY <2>1, <3>2, <3>5, <4>1, EmptySeq
      <4>3. d[1] = bs[i]
        BY <3>2, <4>1, <4>2
      <4>4. HoldsAt(d, k)
        BY <3>2, <3>3, <4>1, <4>2, <4>3
      <4> QED BY <2>1, <3>1, <4>4
    <3> QED BY <3>4, <3>5
  <2> QED BY <2>2, <2>3
<1>6. n \in T
  <2> HIDE DEF T
  <2>1. \A k \in 0 .. n : k \in T
    BY <1>1, <1>4, <1>5, UpTo
  <2> QED BY <1>1, <2>1
<1>7. HoldsAt(CarriedLines(bs), n)
  <2> HIDE DEF HoldsAt
  <2> QED BY <1>2, <1>6
<1> QED BY <1>7 DEF n

\* A window with the carried lines in front sees the definition that the whole document sees.
LEMMA WindowSees ==
  ASSUME NEW bs \in Seq(Blocks), Usual(bs), NEW window \in Seq(Blocks),
         \A i \in 1 .. Len(window) : \E j \in 1 .. Len(bs) : window[i] = bs[j]
  PROVE  LET carried == CarriedLines(bs)
         IN  /\ Stray(carried) = << >>
             /\ Resolved([i \in DOMAIN Definitions(carried) |-> AsDefinition(carried[i])] \o window) = Resolved(bs)
<1> DEFINE c == CarriedLines(bs)
           defs == [i \in DOMAIN Definitions(c) |-> AsDefinition(c[i])]
<1>1. /\ c \in Seq(Blocks) /\ (\A i \in 1 .. Len(c) : c[i].kind = "def")
      /\ c = << >> => \A i \in 1 .. Len(bs) : bs[i].kind \notin Defining
      /\ c # << >> => \E i \in 1 .. Len(bs) : /\ c[1] = bs[i] /\ bs[i].kind = "def"
                                              /\ \A j \in 1 .. i - 1 : bs[j].kind \notin Defining
  BY CarriedAre
<1> HIDE DEF c
<1>2. PICK n \in Nat : n = Len(c) /\ DOMAIN c = 1 .. n
  BY <1>1, LenProperties
<1>3. Definitions(c) = c /\ Stray(c) = << >>
  <2>1. {i \in 1 .. Len(c) : NoDefinition(c[i])} = {}
    BY <1>1 DEF NoDefinition
  <2>2. SelectInSeq(c, NoDefinition) = 0
    BY <2>1 DEF SelectInSeq
  <2>3. Definitions(c) = c
    BY <2>2 DEF Definitions
  <2> QED BY <2>3 DEF Stray
<1>4. \A i \in 1 .. n : AsDefinition(c[i]) \in Blocks /\ AsDefinition(c[i]).kind = "def" /\ AsDefinition(c[i]).to = c[i].to
  <2> TAKE i \in 1 .. n
  <2>1. c[i] \in Blocks /\ c[i].kind = "def"
    BY <1>1, <1>2, ElementOfSeq
  <2>2. c[i].to \in Targets
    BY <2>1, BlockType DEF Defining
  <2>3. "def" \in Looking \ {"alike"}
    BY DEF Looking
  <2> QED BY <2>2, <2>3 DEF AsDefinition, Blocks
<1>5. /\ defs \in Seq(Blocks) /\ Len(defs) = n
      /\ \A i \in 1 .. n : defs[i].kind = "def" /\ defs[i].to = c[i].to
  <2>1. defs = [i \in 1 .. n |-> AsDefinition(c[i])]
    BY <1>2, <1>3
  <2> DEFINE f == [i \in 1 .. n |-> AsDefinition(c[i])]
  <2>2. f \in [1 .. n -> Blocks]
    BY <1>4
  <2>3. \A i \in 1 .. n : f[i] = AsDefinition(c[i])
    OBVIOUS
  <2> HIDE DEF f, defs
  <2>4. f \in Seq(Blocks) /\ Len(f) = n
    BY <2>2
  <2> QED BY <1>4, <2>1, <2>3, <2>4 DEF f
<1> HIDE DEF defs
<1> DEFINE all == defs \o window
<1>6. PICK m \in Nat : m = Len(window)
  BY LenProperties
<1>7. /\ all \in Seq(Blocks) /\ Len(all) = n + m
      /\ \A i \in 1 .. n + m : all[i] = IF i <= n THEN defs[i] ELSE window[i - n]
  <2>1. all \in Seq(Blocks) /\ Len(all) = Len(defs) + Len(window)
        /\ \A i \in 1 .. Len(defs) + Len(window) : all[i] = IF i <= Len(defs) THEN defs[i] ELSE window[i - Len(defs)]
    BY <1>5, ConcatProperties
  <2> QED BY <1>5, <1>6, <2>1
<1> HIDE DEF all
<1>8. CASE c = << >>
  <2>1. n = 0
    BY <1>2, <1>8, EmptySeq
  <2>2. \A i \in 1 .. Len(all) : all[i].kind \notin Defining
    <3> TAKE i \in 1 .. Len(all)
    <3>1. i \in 1 .. n + m /\ ~(i <= n) /\ i - n = i /\ i \in 1 .. m
      BY <1>2, <1>6, <1>7, <2>1
    <3>2. all[i] = window[i]
      BY <1>7, <3>1
    <3> QED BY <1>1, <1>6, <1>8, <3>1, <3>2
  <2>3. Resolved(all) = NoLink /\ Resolved(bs) = NoLink
    BY <1>1, <1>7, <1>8, <2>2, ResolvedIs
  <2> QED BY <1>3, <2>3 DEF all, defs, c
<1>9. CASE c # << >>
  <2>1. PICK i \in 1 .. Len(bs) : /\ c[1] = bs[i] /\ bs[i].kind = "def"
                                  /\ \A j \in 1 .. i - 1 : bs[j].kind \notin Defining
    BY <1>1, <1>9
  <2>2. Resolved(bs) = bs[i].to
    BY <2>1, ResolvedIs DEF Defining
  <2>3. n # 0 /\ 1 \in 1 .. n
    BY <1>1, <1>2, <1>9, EmptySeq
  <2>4. all[1] = defs[1] /\ 1 \in 1 .. Len(all) /\ defs[1].kind = "def" /\ defs[1].to = c[1].to /\ 1 .. 1 - 1 = {}
    BY <1>5, <1>6, <1>7, <2>3
  <2>5. Resolved(all) = all[1].to
    BY <1>7, <2>4, ResolvedIs DEF Defining
  <2> QED BY <1>3, <2>1, <2>2, <2>4, <2>5 DEF all, defs, c
<1> QED BY <1>8, <1>9

LEMMA EventsTold ==
  ASSUME NEW bs \in Seq(Blocks), NEW dest \in Leads
  PROVE  Events(bs, dest) \in Seq(Tells)
<1>1. PICK at : /\ at[0] = << >>
                /\ \A k \in 1 .. Len(bs) : at[k] = at[k - 1] \o EventsOf(bs[k], dest)
                /\ Events(bs, dest) = at[Len(bs)]
  BY EventsSteps
<1>2. << >> \in Seq(Tells)
  BY EmptySeq
<1> QED BY <1>1, <1>2, EventsAre

LEMMA DocTold == DocEnter \in Seq(Tells) /\ DocLeave \in Seq(Tells) /\ << >> \in Seq(Tells)
<1>1. "enter doc" \in Happenings /\ "leave doc" \in Happenings /\ NoLink \in Leads
  BY DEF Happenings, Leads
<1> QED BY <1>1, EventType, EmptySeq DEF DocEnter, DocLeave

\* What a walk has told behind n blocks, and the events of a window of n blocks behind at.
Opening(at) == IF at = 0 THEN DocEnter ELSE << >>
Told(bs, n) == IF n = 0 THEN << >> ELSE DocEnter \o Events(SubSeq(bs, 1, n), Resolved(bs))
Telling(bs, at, n, leave) ==
  LET carried == CarriedLines(bs)
      window  == SubSeq(SubSeq(bs, at + 1, Len(bs)), 1, n)
      defs    == [i \in DOMAIN Definitions(carried) |-> AsDefinition(carried[i])]
  IN  Opening(at) \o Stray(carried) \o Events(window, Resolved(defs \o window)) \o leave

LEMMA WindowOf ==
  ASSUME NEW bs \in Seq(Blocks), NEW at \in Nat, NEW n \in Nat, at + n <= Len(bs)
  PROVE  /\ SubSeq(SubSeq(bs, at + 1, Len(bs)), 1, n) = SubSeq(bs, at + 1, at + n)
         /\ SubSeq(bs, at + 1, at + n) \in Seq(Blocks)
         /\ \A i \in 1 .. Len(SubSeq(bs, at + 1, at + n)) :
              \E j \in 1 .. Len(bs) : SubSeq(bs, at + 1, at + n)[i] = bs[j]
<1>1. PICK l \in Nat : l = Len(bs) /\ \A i \in 1 .. l : bs[i] \in Blocks
  BY LenProperties, ElementOfSeq
<1> DEFINE rest == SubSeq(bs, at + 1, l)
           w == SubSeq(rest, 1, n)
           v == SubSeq(bs, at + 1, at + n)
<1>2. rest \in Seq(Blocks) /\ Len(rest) = l - at /\ \A i \in 1 .. l - at : rest[i] = bs[at + i]
  <2>1. \A i \in at + 1 .. l : bs[i] \in Blocks
    BY <1>1
  <2> QED BY <1>1, <2>1, SubSeqProperties
<1> HIDE DEF rest
<1>3. w \in Seq(Blocks) /\ Len(w) = n /\ \A i \in 1 .. n : w[i] = rest[i]
  <2>1. \A i \in 1 .. n : rest[i] \in Blocks
    <3> TAKE i \in 1 .. n
    <3>1. i \in 1 .. Len(rest)
      BY <1>1, <1>2
    <3> QED BY <1>2, <3>1, ElementOfSeq
  <2> QED BY <1>1, <2>1, SubSeqProperties
<1>4. v \in Seq(Blocks) /\ Len(v) = n /\ \A i \in 1 .. n : v[i] = bs[at + i]
  <2>1. \A i \in at + 1 .. at + n : bs[i] \in Blocks
    BY <1>1
  <2> QED BY <1>1, <2>1, SubSeqProperties
<1> HIDE DEF w, v
<1>5. \A i \in 1 .. n : w[i] = v[i] /\ at + i \in 1 .. l
  <2> TAKE i \in 1 .. n
  <2>1. i \in 1 .. l - at /\ at + i \in 1 .. l
    BY <1>1
  <2> QED BY <1>2, <1>3, <1>4, <2>1
<1>6. w = v
  BY <1>3, <1>4, <1>5, SeqEqual
<1>7. \A i \in 1 .. Len(v) : \E j \in 1 .. Len(bs) : v[i] = bs[j]
  BY <1>1, <1>4, <1>5
<1> QED BY <1>1, <1>4, <1>6, <1>7 DEF rest, w, v

\* Behind the window the walk has told the blocks up to its end.
LEMMA WindowTells ==
  ASSUME NEW bs \in Seq(Blocks), Usual(bs), NEW at \in Nat, NEW n \in Nat \ {0}, at + n <= Len(bs),
         NEW leave \in Seq(Tells)
  PROVE  /\ Told(bs, at) \in Seq(Tells) /\ Told(bs, at + n) \in Seq(Tells) /\ Telling(bs, at, n, leave) \in Seq(Tells)
         /\ Cat(Told(bs, at), Telling(bs, at, n, leave)) = Cat(Told(bs, at + n), leave)
<1> DEFINE dest == Resolved(bs)
           w == SubSeq(bs, at + 1, at + n)
           e == Events(w, dest)
           before == Events(SubSeq(bs, 1, at), dest)
           to == Events(SubSeq(bs, 1, at + n), dest)
<1>1. dest \in Leads
  BY ResolvedIs
<1>2. w \in Seq(Blocks) /\ e \in Seq(Tells)
  BY <1>1, WindowOf, EventsTold
<1>3. Telling(bs, at, n, leave) = ((Opening(at) \o << >>) \o e) \o leave
  <2>1. w = SubSeq(SubSeq(bs, at + 1, Len(bs)), 1, n) /\ \A i \in 1 .. Len(w) : \E j \in 1 .. Len(bs) : w[i] = bs[j]
    BY WindowOf
  <2> HIDE DEF w
  <2>2. /\ Stray(CarriedLines(bs)) = << >>
        /\ Resolved([i \in DOMAIN Definitions(CarriedLines(bs)) |-> AsDefinition(CarriedLines(bs)[i])] \o w) = dest
    BY <1>2, <2>1, WindowSees
  <2> QED BY <2>1, <2>2 DEF Telling
<1>4. to \in Seq(Tells) /\ before \in Seq(Tells) /\ to = before \o e
  <2>1. SubSeq(bs, 1, at) \in Seq(Blocks) /\ SubSeq(bs, 1, at + n) \in Seq(Blocks)
    <3>1. Len(bs) \in Nat /\ \A i \in 1 .. Len(bs) : bs[i] \in Blocks
      BY LenProperties, ElementOfSeq
    <3>2. \A i \in 1 .. at + n : bs[i] \in Blocks
      BY <3>1
    <3> QED BY <3>2, SubSeqProperties
  <2> QED BY <1>1, <2>1, EventsSplit, EventsTold
<1>5. Opening(at) \in Seq(Tells) /\ DocEnter \in Seq(Tells)
  BY DocTold DEF Opening
<1> HIDE DEF w, dest, e, before, to
<1>6. PICK o \in Seq(Tells), d \in Seq(Tells), x \in Seq(Tells), b \in Seq(Tells), l \in Seq(Tells) :
         o = Opening(at) /\ d = DocEnter /\ x = e /\ b = before /\ l = leave
  BY <1>2, <1>4, <1>5
<1>7. o \o << >> = o
  BY ConcatEmptySeq
<1>8. Telling(bs, at, n, leave) = (o \o x) \o l
  BY <1>3, <1>6, <1>7
<1>9. Told(bs, at + n) = d \o (b \o x) /\ d \o (b \o x) = (d \o b) \o x
  <2>1. at + n # 0
    OBVIOUS
  <2>2. Told(bs, at + n) = d \o to
    BY <1>6, <2>1 DEF Told, to, dest
  <2>3. Cat(Cat(d, b), x) = Cat(d, Cat(b, x))
    BY Regroup
  <2> QED BY <1>4, <1>6, <2>2, <2>3 DEF Cat
<1>10. o \o x \in Seq(Tells) /\ (o \o x) \o l \in Seq(Tells) /\ d \o b \in Seq(Tells) /\ (d \o b) \o x \in Seq(Tells)
  BY <1>6, ConcatProperties
<1>11. Told(bs, at) \in Seq(Tells) /\ Told(bs, at) \o (o \o x) = Told(bs, at + n)
  <2>1. CASE at = 0
    <3>1. Told(bs, at) = << >> /\ o = d
      BY <1>6, <2>1 DEF Told, Opening
    <3>2. SubSeq(bs, 1, at) = << >>
      BY <2>1, SubSeqEmpty
    <3>3. before = << >>
      <4>1. PICK f : f[0] = << >> /\ Events(SubSeq(bs, 1, at), dest) = f[Len(SubSeq(bs, 1, at))]
        <5>1. << >> \in Seq(Blocks)
          BY EmptySeq
        <5> QED BY <1>1, <3>2, <5>1, EventsSteps DEF dest
      <4>2. Len(SubSeq(bs, 1, at)) = 0
        BY <3>2, EmptySeq
      <4> QED BY <4>1, <4>2 DEF before
    <3>4. d \o b = d
      BY <1>6, <3>3, ConcatEmptySeq
    <3>5. PICK y \in Seq(Tells) : y = o \o x
      BY <1>10
    <3>6. << >> \o y = y
      BY ConcatEmptySeq
    <3> QED BY <1>9, <3>1, <3>4, <3>5, <3>6, DocTold
  <2>2. CASE at # 0
    <3>1. Told(bs, at) = d \o b /\ o = << >>
      BY <1>6, <2>2 DEF Told, Opening, before, dest
    <3>2. << >> \o x = x
      BY ConcatEmptySeq
    <3> QED BY <1>9, <1>10, <3>1, <3>2
  <2> QED BY <2>1, <2>2
<1>12. PICK t \in Seq(Tells), y \in Seq(Tells) : t = Told(bs, at) /\ y = o \o x
  BY <1>10, <1>11
<1>13. t \o (y \o l) = (t \o y) \o l
  <2>1. Cat(Cat(t, y), l) = Cat(t, Cat(y, l))
    BY Regroup
  <2> QED BY <2>1 DEF Cat
<1> QED BY <1>6, <1>8, <1>9, <1>10, <1>11, <1>12, <1>13 DEF Cat

LEMMA ToldOfAll ==
  ASSUME NEW bs \in Seq(Blocks), bs # << >>
  PROVE  TellWhole(bs) = Told(bs, Len(bs)) \o DocLeave
<1>1. SubSeq(bs, 1, Len(bs)) = bs /\ Len(bs) # 0
  BY SubSeqFull, EmptySeq, LenProperties
<1> QED BY <1>1 DEF TellWhole, Told

\* At any block the walk has told a part of the whole, and what is left to be told.
LEMMA ToldIsPart ==
  ASSUME NEW bs \in Seq(Blocks), NEW n \in 0 .. Len(bs)
  PROVE  Told(bs, n) \in Seq(Tells) /\ \E t \in Seq(Tells) : TellWhole(bs) = Told(bs, n) \o t
<1> DEFINE dest == Resolved(bs)
           a == Events(SubSeq(bs, 1, n), dest)
           b == Events(SubSeq(bs, n + 1, Len(bs)), dest)
<1>1. dest \in Leads /\ Len(bs) \in Nat /\ \A i \in 1 .. Len(bs) : bs[i] \in Blocks
  BY ResolvedIs, LenProperties, ElementOfSeq
<1>2. SubSeq(bs, 1, n) \in Seq(Blocks) /\ SubSeq(bs, n + 1, Len(bs)) \in Seq(Blocks)
  <2>1. (\A i \in 1 .. n : bs[i] \in Blocks) /\ (\A i \in n + 1 .. Len(bs) : bs[i] \in Blocks)
    BY <1>1
  <2> QED BY <1>1, <2>1, SubSeqProperties
<1>3. a \in Seq(Tells) /\ b \in Seq(Tells)
  BY <1>1, <1>2, EventsTold
<1>4. Events(bs, dest) = a \o b
  <2>1. PICK k \in Nat : k = Len(bs) - n
    BY <1>1
  <2> HIDE DEF dest, a, b
  <2>2. n + k = Len(bs) /\ n + k <= Len(bs) /\ n \in Nat /\ dest \in Leads
    BY <1>1, <2>1
  <2>3. Events(SubSeq(bs, 1, n + k), dest) = Events(SubSeq(bs, 1, n), dest) \o Events(SubSeq(bs, n + 1, n + k), dest)
    BY <1>1, <2>2, EventsSplit
  <2> QED BY <2>2, <2>3, SubSeqFull DEF a, b
<1> HIDE DEF dest, a, b
<1>5. PICK d \in Seq(Tells), x \in Seq(Tells), y \in Seq(Tells), l \in Seq(Tells) :
         d = DocEnter /\ x = a /\ y = b /\ l = DocLeave
  BY <1>3, DocTold
<1>6. TellWhole(bs) = (d \o (x \o y)) \o l
  BY <1>4, <1>5 DEF TellWhole, dest
<1>7. d \o x \in Seq(Tells) /\ y \o l \in Seq(Tells) /\ x \o y \in Seq(Tells) /\ d \o (x \o y) \in Seq(Tells)
      /\ (d \o (x \o y)) \o l \in Seq(Tells)
  BY ConcatProperties
<1>8. (d \o (x \o y)) \o l = (d \o x) \o (y \o l)
  <2>1. Cat(Cat(d, x), y) = Cat(d, Cat(x, y))
    BY Regroup
  <2>2. PICK z \in Seq(Tells) : z = d \o x
    BY <1>7
  <2>3. Cat(Cat(z, y), l) = Cat(z, Cat(y, l))
    BY Regroup
  <2> QED BY <2>1, <2>2, <2>3 DEF Cat
<1>9. CASE n = 0
  <2>1. PICK z \in Seq(Tells) : z = TellWhole(bs)
    BY <1>6, <1>7
  <2>2. << >> \o z = z /\ Told(bs, n) = << >>
    BY <1>9, ConcatEmptySeq DEF Told
  <2> QED BY <2>1, <2>2, DocTold
<1>10. CASE n # 0
  <2>1. Told(bs, n) = d \o x
    BY <1>5, <1>10 DEF Told, a, dest
  <2> QED BY <1>6, <1>7, <1>8, <2>1
<1> QED BY <1>9, <1>10

LEMMA CarriedType ==
  ASSUME NEW bs \in Seq(Blocks)
  PROVE  CarriedLines(bs) \in Seq(Blocks)
<1>1. PICK n \in Nat : n = Len(bs) /\ \A i \in 1 .. n : bs[i] \in Blocks
  BY LenProperties, ElementOfSeq
<1>2. PICK at : /\ at[0] = << >>
                /\ \A k \in 1 .. n : at[k] = IF Carries(bs[k]) THEN Append(at[k - 1], bs[k]) ELSE at[k - 1]
                /\ CarriedLines(bs) = at[n]
  BY <1>1, CarriedSteps
<1> DEFINE T == {k \in 0 .. n : at[k] \in Seq(Blocks)}
<1>3. 0 \in T
  <2>1. at[0] \in Seq(Blocks) /\ 0 \in 0 .. n
    BY <1>2, EmptySeq
  <2> QED BY <2>1
<1>4. ASSUME NEW k \in 1 .. n, k - 1 \in T PROVE k \in T
  <2>1. at[k - 1] \in Seq(Blocks) /\ bs[k] \in Blocks /\ k \in 0 .. n
    BY <1>1, <1>4
  <2>2. at[k] = at[k - 1] \/ at[k] = Append(at[k - 1], bs[k])
    BY <1>2
  <2>3. Append(at[k - 1], bs[k]) \in Seq(Blocks)
    BY <2>1, AppendProperties
  <2>4. at[k] \in Seq(Blocks)
    BY <2>1, <2>2, <2>3
  <2> QED BY <2>1, <2>4
<1> HIDE DEF T
<1>5. \A k \in 0 .. n : k \in T
  BY <1>3, <1>4, UpTo
<1> QED BY <1>2, <1>5 DEF T

LEMMA NothingIsPart == ASSUME NEW bs \in Seq(Blocks) PROVE IsPrefix(<< >>, TellWhole(bs))
<1>1. 0 \in 0 .. Len(bs)
  BY LenProperties
<1>2. PICK t \in Seq(Tells) : TellWhole(bs) = Told(bs, 0) \o t
  BY <1>1, ToldIsPart
<1>3. Told(bs, 0) = << >>
  BY DEF Told
<1> QED BY <1>2, <1>3, DocTold, PrefixOf

----------------------------------------------------------------------------
Standing == {"none", "walking", "done", "E_CONTENT_SEALED", "E_RANGE", "E_IO", "E_ABORTED", "E_PARSE"}
Pages == [blocks : Seq(Blocks), sealed : BOOLEAN]
Iters == [status : Standing, carried : Seq(Blocks), at : Nat, room : Nat]

\* The iterator stands before a block that is left, with the definitions of this document.
WalkStands ==
  iter.status = "walking" =>
    /\ iter.carried = CarriedLines(page.blocks) /\ iter.at <= Len(page.blocks)
    /\ page.blocks # << >> => iter.at < Len(page.blocks)
    /\ Usual(page.blocks) => told = Told(page.blocks, iter.at)
SealedUntold == page.sealed => told = << >> /\ iter.status \in {"none", "E_CONTENT_SEALED", "E_IO"}
DoneAll      == iter.status = "done" /\ Usual(page.blocks) /\ page.blocks # << >> => told = TellWhole(page.blocks)
ToldPart     == Usual(page.blocks) => IsPrefix(told, TellWhole(page.blocks))
WalkInv ==
  /\ page \in Pages /\ iter \in Iters
  /\ iter = NoWalk => told = << >>
  /\ WalkStands /\ SealedUntold /\ DoneAll /\ ToldPart

LEMMA NoWalkType == NoWalk \in Iters /\ NoWalk.status = "none"
BY EmptySeq DEF NoWalk, Iters, Standing

LEMMA PageStartType == PageStart \in Pages
<1>1. PICK none \in Seq(Blocks), no \in BOOLEAN : none = << >> /\ no = FALSE
  BY EmptySeq
<1> QED BY <1>1 DEF PageStart, Pages

\* A step that ends the walk and tells nothing.
LEMMA StopsKeeps ==
  ASSUME WalkInv, NEW status \in Standing \ {"none", "walking", "done"}, Stops(status),
         page.sealed => status \in {"E_CONTENT_SEALED", "E_IO"}, UNCHANGED <<page, told>>
  PROVE  WalkInv'
<1>1. iter \in Iters /\ iter' = [iter EXCEPT !.status = status]
  BY DEF WalkInv, Stops
<1>2. iter' \in Iters /\ iter'.status = status
  BY <1>1 DEF Iters
<1>3. iter'.status # "none" /\ iter'.status # "walking" /\ iter'.status # "done"
  BY <1>2
<1>4. iter' # NoWalk
  BY <1>3, NoWalkType
<1> QED BY <1>2, <1>3, <1>4 DEF WalkInv, WalkStands, SealedUntold, DoneAll, ToldPart, NoWalk

\* What is written before the walk.
LEMMA WritingKeeps ==
  ASSUME WalkInv, iter = NoWalk, page' \in Pages, UNCHANGED <<iter, told>>
  PROVE  WalkInv'
<1>1. told = << >> /\ iter.status = "none"
  BY NoWalkType DEF WalkInv
<1>2. page'.blocks \in Seq(Blocks)
  BY DEF Pages
<1>3. IsPrefix(told', TellWhole(page'.blocks))
  BY <1>1, <1>2, NothingIsPart
<1> QED BY <1>1, <1>3 DEF WalkInv, WalkStands, SealedUntold, DoneAll, ToldPart, NoWalk

LEMMA BeginKeeps == ASSUME WalkInv, NEW room \in Buffers, RenderBegin(room) PROVE WalkInv'
<1> DEFINE carried == CarriedLines(page.blocks)
           status == IF page.sealed THEN "E_CONTENT_SEALED" ELSE IF PrefixLines(carried) >= room THEN "E_RANGE" ELSE "walking"
<1>1. iter = NoWalk /\ UNCHANGED <<page, told>> /\ iter' = [status |-> status, carried |-> carried, at |-> 0, room |-> room]
  BY DEF RenderBegin
<1>2. page \in Pages /\ page.blocks \in Seq(Blocks) /\ room \in Nat /\ told = << >>
  BY <1>1, RenderWalkConstants DEF WalkInv, Pages
<1>3. carried \in Seq(Blocks)
  BY <1>2, CarriedType
<1>4. status \in {"E_CONTENT_SEALED", "E_RANGE", "walking"} /\ (page.sealed => status = "E_CONTENT_SEALED")
  OBVIOUS
<1> HIDE DEF status, carried
<1>5. iter' \in Iters /\ iter'.status = status /\ iter'.carried = carried /\ iter'.at = 0
  BY <1>1, <1>2, <1>3, <1>4 DEF Iters, Standing
<1>6. iter' # NoWalk
  BY <1>4, <1>5, NoWalkType
<1>7. WalkStands'
  <2>1. Len(page.blocks) \in Nat /\ (page.blocks # << >> => Len(page.blocks) # 0)
    BY <1>2, LenProperties, EmptySeq
  <2>2. told' = Told(page'.blocks, iter'.at)
    BY <1>1, <1>2, <1>5 DEF Told
  <2> QED BY <1>1, <1>5, <2>1, <2>2 DEF WalkStands, carried
<1> QED BY <1>1, <1>2, <1>4, <1>5, <1>6, <1>7 DEF WalkInv, SealedUntold, DoneAll, ToldPart

LEMMA NothingKeeps == ASSUME WalkInv, RenderNothing PROVE WalkInv'
<1>1. /\ iter.status = "walking" /\ Rest = << >> /\ iter' = [iter EXCEPT !.status = "done"] /\ UNCHANGED <<page, told>>
      /\ iter \in Iters /\ page \in Pages
  BY DEF RenderNothing, Walking, Stops, WalkInv
<1>2. page.blocks = << >>
  <2>1. SUFFICES ASSUME page.blocks # << >> PROVE FALSE
    OBVIOUS
  <2>2. PICK at \in Nat, n \in Nat : at = iter.at /\ n = Len(page.blocks) /\ at < n /\ \A i \in 1 .. n : page.blocks[i] \in Blocks
    <3>1. page.blocks \in Seq(Blocks) /\ iter.at \in Nat
      BY <1>1 DEF Pages, Iters
    <3> QED BY <1>1, <2>1, <3>1, LenProperties, ElementOfSeq DEF WalkInv, WalkStands
  <2>3. \A i \in at + 1 .. n : page.blocks[i] \in Blocks
    BY <2>2
  <2> DEFINE s == SubSeq(page.blocks, at + 1, n)
  <2>4. Len(s) = n - at
    BY <2>2, <2>3, SubSeqProperties
  <2>5. s = << >>
    BY <1>1, <2>2 DEF Rest
  <2> HIDE DEF s
  <2>6. Len(<< >>) = 0
    BY EmptySeq
  <2> QED BY <2>2, <2>4, <2>5, <2>6
<1>3. iter' \in Iters /\ iter'.status = "done"
  BY <1>1 DEF Iters, Standing
<1>4. iter' # NoWalk /\ ~page.sealed
  BY <1>1, <1>3, NoWalkType DEF WalkInv, SealedUntold
<1> QED BY <1>1, <1>2, <1>3, <1>4 DEF WalkInv, WalkStands, SealedUntold, DoneAll, ToldPart

\* What md4c tells of the window that is taken: a part of the whole that follows what is told.
LEMMA WindowFollows ==
  ASSUME WalkInv, Walking, Rest # << >>, WindowEnds # {}, NEW n, n = WindowEnd
  PROVE  /\ n \in Nat \ {0} /\ iter.at + n <= Len(page.blocks) /\ ~page.sealed /\ page.blocks # << >>
         /\ Usual(page.blocks) =>
              /\ told \in Seq(Tells) /\ WindowEvents(n) \in Seq(Tells)
              /\ \E t \in Seq(Tells) : TellWhole(page.blocks) = (told \o WindowEvents(n)) \o t
              /\ LastWindow(n) => told \o WindowEvents(n) = TellWhole(page.blocks)
              /\ ~LastWindow(n) => told \o WindowEvents(n) = Told(page.blocks, iter.at + n)
<1>1. /\ page.blocks \in Seq(Blocks) /\ iter.at \in Nat /\ iter.status = "walking" /\ iter.at <= Len(page.blocks)
      /\ iter.carried = CarriedLines(page.blocks) /\ (Usual(page.blocks) => told = Told(page.blocks, iter.at))
  BY DEF WalkInv, WalkStands, Walking, Pages, Iters
<1> DEFINE bs == page.blocks
           at == iter.at
<1> HIDE DEF bs, at
<1>2. bs \in Seq(Blocks) /\ at \in Nat /\ at <= Len(bs)
  BY <1>1 DEF bs, at
<1>3. PICK l \in Nat : l = Len(bs) /\ \A i \in 1 .. l : bs[i] \in Blocks
  BY <1>2, LenProperties, ElementOfSeq
<1>4. Rest \in Seq(Blocks) /\ Len(Rest) = l - at
  <2>1. \A i \in at + 1 .. l : bs[i] \in Blocks
    BY <1>2, <1>3
  <2>2. Rest = SubSeq(bs, at + 1, l)
    BY <1>3 DEF Rest, bs, at
  <2> DEFINE s == SubSeq(bs, at + 1, l)
  <2>3. s \in Seq(Blocks) /\ Len(s) = l - at
    BY <1>2, <1>3, <2>1, SubSeqProperties
  <2> HIDE DEF s
  <2> QED BY <2>2, <2>3 DEF s
<1>5. PICK r \in Nat : r = Len(Rest) /\ r = l - at /\ r # 0
  <2>1. Len(Rest) # 0
    BY <1>4, EmptySeq
  <2>2. Len(Rest) \in Nat
    BY <1>4, LenProperties
  <2> QED BY <1>4, <2>1, <2>2
<1>6. WindowEnds \subseteq 1 .. r
  <2>1. CASE LinesOf(Rest) <= Space
    <3>1. WindowEnds = {Len(Rest)}
      BY <2>1 DEF WindowEnds
    <3>2. r \in 1 .. r /\ Len(Rest) = r
      BY <1>5
    <3>3. Len(Rest) \in 1 .. r
      BY <3>2
    <3> QED BY <3>1, <3>3
  <2>2. CASE ~(LinesOf(Rest) <= Space)
    <3>1. WindowEnds \subseteq 1 .. Len(Rest) - 1
      BY <2>2 DEF WindowEnds
    <3>2. PICK q : q = Len(Rest)
      OBVIOUS
    <3> HIDE DEF Rest, WindowEnds
    <3> QED BY <1>5, <3>1, <3>2
  <2> QED BY <2>1, <2>2
<1>7. n \in 1 .. r
  <2> DEFINE D == {d \in Nat : \E x \in WindowEnds : d = r - x}
  <2>1. Max(WindowEnds) \in WindowEnds /\ \A y \in WindowEnds : y <= Max(WindowEnds)
    BY <1>6, GreatestNat
  <2>2. \E x \in WindowEnds : \A y \in WindowEnds : y <= x
    BY <2>1
  <2>3. WindowEnd \in WindowEnds
    <3> HIDE DEF WindowEnds
    <3> QED BY <2>2 DEF WindowEnd
  <2> QED BY <1>6, <2>3
<1>8. n \in Nat \ {0} /\ at + n <= l /\ l # 0
  BY <1>2, <1>5, <1>7
<1>9. ~page.sealed /\ bs # << >>
  <2>1. ~page.sealed
    BY <1>1 DEF WalkInv, SealedUntold
  <2>2. bs # << >>
    BY <1>3, <1>8, EmptySeq
  <2> QED BY <2>1, <2>2
<1>10. ASSUME Usual(bs)
       PROVE  /\ told \in Seq(Tells) /\ WindowEvents(n) \in Seq(Tells)
              /\ \E t \in Seq(Tells) : TellWhole(bs) = (told \o WindowEvents(n)) \o t
              /\ LastWindow(n) => told \o WindowEvents(n) = TellWhole(bs)
              /\ ~LastWindow(n) => told \o WindowEvents(n) = Told(bs, at + n)
  <2> DEFINE leave == IF LastWindow(n) THEN DocLeave ELSE << >>
  <2>1. leave \in Seq(Tells)
    BY DocTold
  <2>2. WindowEvents(n) = Telling(bs, at, n, leave)
    BY <1>1 DEF WindowEvents, Telling, Rest, Opening, bs, at
  <2> HIDE DEF leave
  <2>3. /\ Told(bs, at) \in Seq(Tells) /\ Told(bs, at + n) \in Seq(Tells) /\ WindowEvents(n) \in Seq(Tells)
        /\ Told(bs, at) \o WindowEvents(n) = Told(bs, at + n) \o leave
    <3>1. at + n <= Len(bs) /\ n \in Nat \ {0}
      BY <1>3, <1>8
    <3>2. Told(bs, at) \in Seq(Tells) /\ Told(bs, at + n) \in Seq(Tells)
      BY <1>2, <1>10, <2>1, <3>1, WindowTells
    <3>3. Telling(bs, at, n, leave) \in Seq(Tells)
      BY <1>2, <1>10, <2>1, <3>1, WindowTells
    <3>4. Cat(Told(bs, at), Telling(bs, at, n, leave)) = Cat(Told(bs, at + n), leave)
      BY <1>2, <1>10, <2>1, <3>1, WindowTells
    <3> QED BY <2>2, <3>2, <3>3, <3>4 DEF Cat
  <2>4. told = Told(bs, at)
    BY <1>1, <1>10 DEF bs, at
  <2>5. CASE LastWindow(n)
    <3>1. at + n = Len(bs)
      BY <1>2, <1>3, <1>8, <2>5 DEF LastWindow, bs, at
    <3>2. leave = DocLeave
      BY <2>5 DEF leave
    <3>3. told \o WindowEvents(n) = TellWhole(bs)
      BY <1>2, <1>9, <2>3, <2>4, <3>1, <3>2, ToldOfAll
    <3>4. TellWhole(bs) \in Seq(Tells)
      <4>1. PICK t \in Seq(Tells), e \in Seq(Tells) : t = told /\ e = WindowEvents(n)
        BY <2>3, <2>4
      <4>2. t \o e \in Seq(Tells)
        BY ConcatProperties
      <4> QED BY <3>3, <4>1, <4>2
    <3>5. TellWhole(bs) \o << >> = TellWhole(bs)
      BY <3>4, ConcatEmptySeq
    <3> QED BY <2>3, <2>4, <2>5, <3>3, <3>5, DocTold
  <2>6. CASE ~LastWindow(n)
    <3>1. leave = << >> /\ Told(bs, at + n) \o << >> = Told(bs, at + n)
      BY <2>3, <2>6, ConcatEmptySeq DEF leave
    <3>2. told \o WindowEvents(n) = Told(bs, at + n)
      BY <2>3, <2>4, <3>1
    <3>3. at + n \in 0 .. Len(bs)
      BY <1>2, <1>3, <1>8
    <3>4. \E t \in Seq(Tells) : TellWhole(bs) = Told(bs, at + n) \o t
      BY <1>2, <3>3, ToldIsPart
    <3> QED BY <2>3, <2>4, <2>6, <3>2, <3>4
  <2> QED BY <2>5, <2>6
<1> QED BY <1>3, <1>8, <1>9, <1>10 DEF bs, at

LEMMA NextKeeps == ASSUME WalkInv, RenderNext PROVE WalkInv'
<1> DEFINE bs == page.blocks
           status == IF LastWindow(WindowEnd) THEN "done" ELSE iter.status
<1>1. PICK n : n = WindowEnd
  OBVIOUS
<1>2. /\ iter.status = "walking" /\ Rest # << >> /\ WindowEnds # {}
      /\ told' = told \o WindowEvents(n) /\ iter' = [iter EXCEPT !.at = iter.at + n, !.status = status]
      /\ UNCHANGED page /\ iter \in Iters /\ page \in Pages
  BY <1>1 DEF RenderNext, Walking, WalkInv
<1>3. /\ n \in Nat \ {0} /\ iter.at + n <= Len(bs) /\ ~page.sealed /\ bs # << >>
      /\ Usual(bs) =>
           /\ told \in Seq(Tells) /\ WindowEvents(n) \in Seq(Tells)
           /\ \E t \in Seq(Tells) : TellWhole(bs) = (told \o WindowEvents(n)) \o t
           /\ LastWindow(n) => told \o WindowEvents(n) = TellWhole(bs)
           /\ ~LastWindow(n) => told \o WindowEvents(n) = Told(bs, iter.at + n)
  BY <1>1, <1>2, WindowFollows DEF Walking
<1>4. (LastWindow(n) => status = "done") /\ (~LastWindow(n) => status = "walking") /\ status \in {"done", "walking"}
  BY <1>1, <1>2
<1> HIDE DEF bs, status
<1>5. iter.at \in Nat /\ iter.at + n \in Nat /\ Len(bs) \in Nat /\ iter.carried = CarriedLines(bs)
  BY <1>2, <1>3, LenProperties DEF Iters, Pages, WalkInv, WalkStands, bs
<1>6. iter' \in Iters /\ iter'.status = status /\ iter'.at = iter.at + n /\ iter'.carried = iter.carried
  BY <1>2, <1>4, <1>5 DEF Iters, Standing
<1>7. iter' # NoWalk
  BY <1>4, <1>6, NoWalkType
<1>8. WalkStands'
  <2> SUFFICES ASSUME status = "walking"
               PROVE  /\ iter'.carried = CarriedLines(page'.blocks) /\ iter'.at <= Len(page'.blocks)
                      /\ page'.blocks # << >> => iter'.at < Len(page'.blocks)
                      /\ Usual(page'.blocks) => told' = Told(page'.blocks, iter'.at)
    BY <1>6 DEF WalkStands
  <2>1. ~LastWindow(n)
    BY <1>4
  <2>2. ~(iter.at + n >= Len(bs))
    BY <2>1 DEF LastWindow, bs
  <2> QED BY <1>2, <1>3, <1>5, <1>6, <2>1, <2>2 DEF bs
<1>9. DoneAll'
  <2> SUFFICES ASSUME status = "done", Usual(bs) PROVE told' = TellWhole(bs)
    BY <1>2, <1>6 DEF DoneAll, bs
  <2>1. LastWindow(n)
    BY <1>4
  <2> QED BY <1>2, <1>3, <2>1
<1>10. ToldPart'
  <2> SUFFICES ASSUME Usual(bs) PROVE IsPrefix(told', TellWhole(bs))
    BY <1>2 DEF ToldPart, bs
  <2>1. PICK t \in Seq(Tells), x \in Seq(Tells), e \in Seq(Tells) :
           x = told /\ e = WindowEvents(n) /\ TellWhole(bs) = (x \o e) \o t
    BY <1>3
  <2>2. x \o e \in Seq(Tells)
    BY ConcatProperties
  <2>3. IsPrefix(x \o e, (x \o e) \o t)
    BY <2>2, PrefixOf
  <2> QED BY <1>2, <2>1, <2>3
<1> QED BY <1>2, <1>3, <1>6, <1>7, <1>8, <1>9, <1>10 DEF WalkInv, SealedUntold

LEMMA ParseStopsKeeps == ASSUME WalkInv, ParseStops PROVE WalkInv'
<1> DEFINE bs == page.blocks
<1>1. PICK n : n = WindowEnd
  OBVIOUS
<1>2. PICK k \in 0 .. Len(WindowEvents(n)), status \in {"E_ABORTED", "E_PARSE"} :
         told' = told \o SubSeq(WindowEvents(n), 1, k) /\ Stops(status)
  BY <1>1 DEF ParseStops
<1>3. /\ iter.status = "walking" /\ Rest # << >> /\ WindowEnds # {}
      /\ iter' = [iter EXCEPT !.status = status] /\ UNCHANGED page /\ iter \in Iters /\ page \in Pages
  BY <1>2 DEF ParseStops, Walking, WalkInv, Stops
<1>4. /\ ~page.sealed
      /\ Usual(bs) =>
           /\ told \in Seq(Tells) /\ WindowEvents(n) \in Seq(Tells)
           /\ \E t \in Seq(Tells) : TellWhole(bs) = (told \o WindowEvents(n)) \o t
  BY <1>1, <1>3, WindowFollows DEF Walking
<1> HIDE DEF bs
<1>5. iter' \in Iters /\ iter'.status = status
  BY <1>3 DEF Iters, Standing
<1>6. iter' # NoWalk /\ iter'.status # "walking" /\ iter'.status # "done"
  BY <1>5, NoWalkType
<1>7. ToldPart'
  <2> SUFFICES ASSUME Usual(bs) PROVE IsPrefix(told', TellWhole(bs))
    BY <1>3 DEF ToldPart, bs
  <2>1. PICK t \in Seq(Tells), x \in Seq(Tells), e \in Seq(Tells) :
           x = told /\ e = WindowEvents(n) /\ TellWhole(bs) = (x \o e) \o t
    BY <1>4
  <2>2. k \in 0 .. Len(e)
    BY <2>1
  <2>3. IsPrefix(x \o SubSeq(e, 1, k), (x \o e) \o t)
    BY <2>2, PrefixOfSome
  <2> QED BY <1>2, <2>1, <2>3
<1> QED BY <1>3, <1>4, <1>5, <1>6, <1>7 DEF WalkInv, WalkStands, SealedUntold, DoneAll

\* However many windows it takes, however long the document is and however large the caller's
\* buffer, and wherever the walk stops, it tells the document as parsing it whole does, up to
\* the lines named in WalkTellsTheWhole.
THEOREM WalkAlwaysTellsTheWhole == RenderWalkSpec => []WalkTellsTheWhole
<1>1. RenderWalkInit => WalkInv
  <2> SUFFICES ASSUME RenderWalkInit PROVE WalkInv
    OBVIOUS
  <2>1. page \in Pages /\ iter \in Iters /\ iter.status = "none" /\ told = << >> /\ iter = NoWalk
    BY NoWalkType, PageStartType DEF RenderWalkInit
  <2>2. page.blocks \in Seq(Blocks)
    BY <2>1 DEF Pages
  <2>3. IsPrefix(told, TellWhole(page.blocks))
    BY <2>1, <2>2, NothingIsPart
  <2> QED BY <2>1, <2>3 DEF WalkInv, WalkStands, SealedUntold, DoneAll, ToldPart
<1>2. WalkInv /\ [RenderWalkNext]_<<page, iter, told>> => WalkInv'
  <2> SUFFICES ASSUME WalkInv, [RenderWalkNext]_<<page, iter, told>> PROVE WalkInv'
    OBVIOUS
  <2>1. page \in Pages
    BY DEF WalkInv
  <2>2. ASSUME NEW b \in Blocks, AddBlock(b) PROVE WalkInv'
    <3>1. Append(page.blocks, b) \in Seq(Blocks)
      BY <2>1, <2>2, AppendProperties DEF Pages
    <3>2. page' \in Pages
      <4>1. page' = [page EXCEPT !.blocks = Append(page.blocks, b)]
        BY <2>2 DEF AddBlock
      <4> QED BY <2>1, <3>1, <4>1 DEF Pages
    <3> QED BY <2>2, <3>2, WritingKeeps DEF AddBlock
  <2>3. ASSUME SealPage PROVE WalkInv'
    <3>1. page' \in Pages
      BY <2>1, <2>3 DEF SealPage, Pages
    <3> QED BY <2>3, <3>1, WritingKeeps DEF SealPage
  <2>4. ASSUME BeginFails PROVE WalkInv'
    BY <2>4, StopsKeeps DEF BeginFails, Standing
  <2>5. ASSUME TooSmall \/ ReadFails PROVE WalkInv'
    <3>1. ~page.sealed
      BY <2>5 DEF WalkInv, SealedUntold, TooSmall, ReadFails, Walking
    <3> QED BY <2>5, <3>1, StopsKeeps DEF TooSmall, ReadFails, Standing
  <2>6. CASE UNCHANGED <<page, iter, told>>
    BY <2>6 DEF WalkInv, WalkStands, SealedUntold, DoneAll, ToldPart
  <2> QED BY <2>2, <2>3, <2>4, <2>5, <2>6, BeginKeeps, NothingKeeps, NextKeeps, ParseStopsKeeps DEF RenderWalkNext
<1>3. WalkInv => WalkTellsTheWhole
  <2> SUFFICES ASSUME WalkInv, page.blocks # << >>,
                      \A i \in DOMAIN page.blocks :
                        page.blocks[i].kind \notin {"alike", "split", "inside", "quoted", "long"}
               PROVE  /\ IsPrefix(told, TellWhole(page.blocks))
                      /\ iter.status = "done" => told = TellWhole(page.blocks)
                      /\ page.sealed => told = << >>
    BY DEF WalkTellsTheWhole
  <2>1. \A i \in DOMAIN page.blocks : page.blocks[i] \in Blocks
    <3>1. page.blocks \in Seq(Blocks)
      BY DEF WalkInv, Pages
    <3>2. PICK bs \in Seq(Blocks) : bs = page.blocks
      BY <3>1
    <3>3. \A i \in DOMAIN bs : bs[i] \in Blocks
      BY LenProperties, ElementOfSeq
    <3> QED BY <3>2, <3>3
  <2>2. Usual(page.blocks)
    <3> SUFFICES ASSUME NEW i \in DOMAIN page.blocks PROVE page.blocks[i].kind \in {"use", "def", "fenced"}
      BY DEF Usual
    <3>1. page.blocks[i].kind \in {"use"} \union Looking
      BY <2>1, BlockType
    <3> QED BY <3>1 DEF Looking
  <2> QED BY <2>2 DEF WalkInv, DoneAll, ToldPart, SealedUntold
<1> QED BY <1>1, <1>2, <1>3, PTL DEF RenderWalkSpec

----------------------------------------------------------------------------
(* EpubImport. *)

\* A sequence without some of its elements is a sequence of the rest.
LEMMA AllButIs ==
  ASSUME NEW S, NEW s \in Seq(S), NEW out
  PROVE  AllBut(s, out) \in Seq(S) /\ \A i \in 1 .. Len(AllBut(s, out)) : AllBut(s, out)[i] # out
<1> DEFINE n == Len(s)
           X == Seq(S \ {out})
           none == << >>
           Kept(kept, part) == IF part = out THEN kept ELSE Append(kept, part)
           by == [p \in X \X (1 .. n) |-> Kept(p[1], s[p[2]])]
           Iter(g) == g = [t \in SUBSET (DOMAIN s) |-> IF t = {} THEN << >> ELSE Kept(g[t \ {Max(t)}], s[Max(t)])]
           partial == CHOOSE g : Iter(g)
<1>1. n \in Nat /\ DOMAIN s = 1 .. n /\ \A i \in 1 .. n : s[i] \in S
  BY LenProperties, ElementOfSeq
<1>2. by \in [X \X (1 .. n) -> X] /\ none \in X
  <2>1. \A x \in X, i \in 1 .. n : Kept(x, s[i]) \in X
    <3> SUFFICES ASSUME NEW x \in X, NEW i \in 1 .. n
                 PROVE  Kept(x, s[i]) \in X
      OBVIOUS
    <3>1. s[i] # out => s[i] \in S \ {out}
      BY <1>1
    <3>2. s[i] # out => Append(x, s[i]) \in X
      BY <3>1, AppendProperties
    <3> QED BY <3>2
  <2> HIDE DEF Kept
  <2> QED BY <2>1, EmptySeq
<1>3. PICK f : FoldsUpTo(f, n, X, none, by)
  <2> HIDE DEF n, by, X, none
  <2> QED BY <1>1, <1>2, FoldsExist
<1>4. ASSUME NEW t \in SUBSET (1 .. n), t # {}
      PROVE  by[<<f[t \ {Max(t)}], Max(t)>>] = Kept(f[t \ {Max(t)}], s[Max(t)])
  <2>1. Max(t) \in 1 .. n
    <3> HIDE DEF n, by
    <3> QED BY <1>1, <1>4, GreatestNat
  <2>2. f[t \ {Max(t)}] \in X
    BY <1>3 DEF FoldsUpTo
  <2> HIDE DEF n, X, Kept
  <2> QED BY <2>1, <2>2
<1>5. Iter(f)
  <2> HIDE DEF by, n, X, Kept
  <2> QED BY <1>1, <1>3, <1>4 DEF FoldsUpTo
<1>6. Iter(partial)
  <2> HIDE DEF Iter
  <2> QED BY <1>5
<1>7. AllBut(s, out) = partial[1 .. n]
  BY <1>1 DEF AllBut, FoldLeft, MapThenFoldSet
<1>8. partial[1 .. 0] = << >> /\ \A k \in 1 .. n : partial[1 .. k] = Kept(partial[1 .. k - 1], s[k])
  <2> HIDE DEF partial, Kept
  <2>1. 1 .. 0 = {} /\ 1 .. 0 \in SUBSET (1 .. n)
    OBVIOUS
  <2> HIDE DEF n, by
  <2>2. partial[1 .. 0] = << >>
    BY <1>1, <1>6, <2>1
  <2>3. ASSUME NEW k \in 1 .. n
        PROVE  partial[1 .. k] = Kept(partial[1 .. k - 1], s[k])
    <3>1. /\ 1 .. k \in SUBSET (1 .. n) /\ 1 .. k # {}
          /\ Max(1 .. k) = k /\ (1 .. k) \ {Max(1 .. k)} = 1 .. k - 1
      BY <1>1, Interval
    <3>2. partial[1 .. k] = Kept(partial[(1 .. k) \ {Max(1 .. k)}], s[Max(1 .. k)])
      BY <1>1, <1>6, <3>1
    <3> QED BY <3>1, <3>2
  <2> QED BY <2>2, <2>3
<1> DEFINE at == [k \in 0 .. n |-> partial[1 .. k]]
<1>9. /\ \A k \in 0 .. n : at[k] = partial[1 .. k]
      /\ \A k \in 1 .. n : k \in 0 .. n /\ k - 1 \in 0 .. n
      /\ 0 \in 0 .. n /\ n \in 0 .. n
  <2> HIDE DEF partial, n
  <2> QED BY <1>1
<1>10. \A k \in 0 .. n : at[k] \in X
  <2> HIDE DEF partial, n, by, Iter, at, Kept
  <2>1. at[0] \in X
    BY <1>2, <1>8, <1>9
  <2>2. ASSUME NEW k \in 1 .. n, at[k - 1] \in X
        PROVE  at[k] \in X
    <3>1. at[k] = Kept(at[k - 1], s[k])
      BY <1>8, <1>9
    <3>2. s[k] # out => s[k] \in S \ {out}
      BY <1>1
    <3>3. s[k] # out => Append(at[k - 1], s[k]) \in X
      BY <2>2, <3>2, AppendProperties
    <3> QED BY <2>2, <3>1, <3>3 DEF Kept
  <2> HIDE DEF X
  <2> QED BY <1>1, <2>1, <2>2, StaysIn
<1>11. AllBut(s, out) \in Seq(S \ {out})
  <2> HIDE DEF partial, n, by, Iter, at, Kept
  <2> QED BY <1>7, <1>9, <1>10
<1>12. S \ {out} \subseteq S
  OBVIOUS
<1>13. \A i \in 1 .. Len(AllBut(s, out)) : AllBut(s, out)[i] \in S \ {out}
  BY <1>11, ElementOfSeq
<1> QED BY <1>11, <1>12, <1>13, SeqMonotonic

\* What a name may be made of: the parts of titles and stems, and numbers.
Word  == (UNION {ToSet(text) : text \in ChapterTitles \cup {Stem[Last(from)] : from \in Paths}})
           \cup {"chapter", "image"} \cup Nat
Names == Seq(Word)

LEMMA TextIsNames ==
  ASSUME NEW text \in ChapterTitles \cup {Stem[Last(from)] : from \in Paths}
  PROVE  text \in Names
<1>1. IsSequence(text)
  BY EpubImportConstants
<1>2. Len(text) \in Nat /\ text = [i \in 1 .. Len(text) |-> text[i]]
  BY <1>1 DEF IsSequence
<1>3. DOMAIN text = 1 .. Len(text)
  BY <1>2
<1>4. \A i \in 1 .. Len(text) : text[i] \in Word
  BY <1>3 DEF Word, ToSet
<1>5. text \in [1 .. Len(text) -> Word]
  BY <1>2, <1>4
<1> QED BY <1>2, <1>5, SeqDef DEF Names

LEMMA SlugIsName ==
  ASSUME NEW text \in Names, NEW fallback \in Names
  PROVE  Slugify(text, fallback) \in Names
<1> DEFINE parts == AllBut(text, OtherScript)
           m     == IF Len(parts) < SlugLength THEN Len(parts) ELSE SlugLength
<1>1. parts \in Names
  BY AllButIs DEF Names
<1>2. Len(parts) \in Nat /\ SlugLength \in Nat
  BY <1>1, LenProperties, EpubImportConstants DEF Names
<1>3. m \in Int /\ 1 \in Int /\ \A i \in 1 .. m : i \in 1 .. Len(parts)
  BY <1>2
<1>4. \A i \in 1 .. m : parts[i] \in Word
  BY <1>1, <1>3, ElementOfSeq DEF Names
<1>5. SubSeq(parts, 1, m) \in Names
  <2> HIDE DEF m, parts
  <2> QED BY <1>3, <1>4, SubSeqProperties DEF Names
<1> QED BY <1>5 DEF Slugify

\* Among more numbered names than there are taken one is free, and the least such is found.
LEMMA OneIsFree ==
  ASSUME NEW taken, IsFiniteSet(taken), NEW a \in Nat, NEW name,
         \A m, n \in a .. a + Cardinality(taken) : name[m] = name[n] => m = n
  PROVE  LET free == {n \in a .. a + Cardinality(taken) : name[n] \notin taken}
         IN  Min(free) \in a .. a + Cardinality(taken) /\ name[Min(free)] \notin taken
<1> DEFINE c == Cardinality(taken)
           S == a .. a + c
           free == {n \in S : name[n] \notin taken}
<1>1. c \in Nat
  BY FS_CardinalityType
<1>2. IsFiniteSet(S) /\ Cardinality(S) = c + 1
  <2> HIDE DEF c
  <2>1. a \in Int /\ a + c \in Int /\ ~(a > a + c) /\ (a + c) - a + 1 = c + 1
    BY <1>1
  <2> QED BY <2>1, FS_Interval
<1>3. free # {}
  <2> SUFFICES ASSUME free = {} PROVE FALSE
    OBVIOUS
  <2> DEFINE f == [n \in S |-> name[n]]
  <2>1. f \in [S -> taken]
    OBVIOUS
  <2>2. c < Cardinality(S)
    <3> HIDE DEF c, S
    <3> QED BY <1>1, <1>2
  <2>3. \E m, n \in S : m # n /\ f[m] = f[n]
    <3> HIDE DEF f, S
    <3> QED BY <1>2, <2>1, <2>2, FS_PigeonHole
  <2> QED BY <2>3
<1>4. free \subseteq Nat
  <2> HIDE DEF c
  <2> QED BY <1>1
<1>5. \E x \in free : \A y \in free : x <= y
  <2> HIDE DEF free
  <2> QED BY <1>3, <1>4, LeastNat
<1>6. Min(free) \in free
  <2> HIDE DEF free
  <2> QED BY <1>5 DEF Min
<1> QED BY <1>6

LEMMA FreshIsFree ==
  ASSUME NEW stem \in Names, NEW taken, IsFiniteSet(taken)
  PROVE  Fresh(stem, taken) \in Names /\ Fresh(stem, taken) \notin taken
<1> DEFINE c == Cardinality(taken)
           name == [n \in 2 .. 2 + c |-> Append(stem, n)]
           free == {n \in 2 .. 2 + c : name[n] \notin taken}
<1>1. c \in Nat
  BY FS_CardinalityType
<1>2. \A n \in Nat : /\ Append(stem, n) \in Names /\ Len(stem) + 1 \in Nat
                     /\ Append(stem, n)[Len(stem) + 1] = n
  <2> SUFFICES ASSUME NEW n \in Nat
               PROVE  /\ Append(stem, n) \in Names /\ Len(stem) + 1 \in Nat
                      /\ Append(stem, n)[Len(stem) + 1] = n
    OBVIOUS
  <2>1. n \in Word
    BY DEF Word
  <2> QED BY <2>1, AppendProperties, LenProperties DEF Names
<1>3. \A n \in 2 .. 2 + c : n \in Nat /\ name[n] = Append(stem, n)
  <2> HIDE DEF c
  <2> QED BY <1>1
<1>4. \A m, n \in 2 .. 2 + c : name[m] = name[n] => m = n
  <2> HIDE DEF name, c
  <2> QED BY <1>2, <1>3
<1>5. Min(free) \in 2 .. 2 + c /\ name[Min(free)] \notin taken
  <2> HIDE DEF name
  <2> QED BY <1>4, OneIsFree
<1>6. {n \in 2 .. c + 2 : Append(stem, n) \notin taken} = free
  <2>1. c + 2 = 2 + c
    <3> HIDE DEF c
    <3> QED BY <1>1
  <2> HIDE DEF name, c
  <2> QED BY <1>3, <2>1
<1> HIDE DEF free, name, c
<1>7. stem \in taken => Fresh(stem, taken) = Append(stem, Min(free))
  BY <1>6 DEF Fresh, c
<1> QED BY <1>2, <1>3, <1>5, <1>7 DEF Fresh

LEMMA SectionIdIsFree ==
  ASSUME NEW slug \in Names, NEW used, IsFiniteSet(used), NEW i \in Nat
  PROVE  SectionId(slug, used, i) \in Names /\ SectionId(slug, used, i) \notin used
<1> DEFINE c == Cardinality(used)
           numbered(k) == slug \o [j \in 1 .. k |-> i]
           name == [k \in 0 .. 0 + c |-> numbered(k)]
           free == {k \in 0 .. 0 + c : name[k] \notin used}
<1>1. c \in Nat
  BY FS_CardinalityType
<1>2. ASSUME NEW k \in Nat
      PROVE  numbered(k) \in Names /\ Len(numbered(k)) = Len(slug) + k
  <2>1. [j \in 1 .. k |-> i] \in [1 .. k -> Word]
    BY DEF Word
  <2>2. [j \in 1 .. k |-> i] \in Names
    BY <2>1, SeqDef DEF Names
  <2>3. Len([j \in 1 .. k |-> i]) = k
    OBVIOUS
  <2> QED BY <2>2, <2>3, ConcatProperties DEF Names
<1>3. \A k \in 0 .. 0 + c : k \in Nat /\ name[k] = numbered(k)
  <2> HIDE DEF c, numbered
  <2> QED BY <1>1
<1>4. Len(slug) \in Nat
  BY LenProperties DEF Names
<1>5. \A m, n \in 0 .. 0 + c : name[m] = name[n] => m = n
  <2> HIDE DEF name, c, numbered
  <2> SUFFICES ASSUME NEW m \in 0 .. 0 + c, NEW n \in 0 .. 0 + c, name[m] = name[n]
               PROVE  m = n
    OBVIOUS
  <2>1. m \in Nat /\ n \in Nat /\ numbered(m) = numbered(n)
    BY <1>3
  <2>2. Len(numbered(m)) = Len(slug) + m /\ Len(numbered(n)) = Len(slug) + n
    BY <1>2, <2>1
  <2> QED BY <1>4, <2>1, <2>2
<1>6. Min(free) \in 0 .. 0 + c /\ name[Min(free)] \notin used
  <2> HIDE DEF name
  <2> QED BY <1>5, OneIsFree
<1>7. {k \in 0 .. c : numbered(k) \notin used} = free
  <2>1. 0 + c = c
    <3> HIDE DEF c
    <3> QED BY <1>1
  <2> HIDE DEF name, c, numbered
  <2> QED BY <1>3, <2>1
<1>8. SectionId(slug, used, i) = numbered(Min({k \in 0 .. c : numbered(k) \notin used}))
  BY DEF SectionId
<1> HIDE DEF free, name, c, numbered
<1> QED BY <1>2, <1>3, <1>6, <1>7, <1>8

\* The images that were met: each once, and under a name of its own.
Image      == [from : Paths, to : Names]
GoodImages == {images \in Seq(Image) : \A i, j \in 1 .. Len(images) :
                 images[i].from = images[j].from \/ images[i].to = images[j].to => i = j}
Registered(images, from) == \E i \in DOMAIN images : images[i].from = from
Longer(more, images) == Len(images) <= Len(more) /\ \A i \in 1 .. Len(images) : more[i] = images[i]

LEMMA ImagesAre ==
  ASSUME NEW images \in GoodImages
  PROVE  /\ Len(images) \in Nat /\ DOMAIN images = 1 .. Len(images)
         /\ \A i \in 1 .. Len(images) : images[i].from \in Paths /\ images[i].to \in Names
<1>1. images \in Seq(Image)
  BY DEF GoodImages
<1>2. Len(images) \in Nat /\ DOMAIN images = 1 .. Len(images) /\ \A i \in 1 .. Len(images) : images[i] \in Image
  BY <1>1, LenProperties, ElementOfSeq
<1> QED BY <1>2 DEF Image

LEMMA NamesTaken ==
  ASSUME NEW images \in GoodImages
  PROVE  IsFiniteSet({images[i].to : i \in DOMAIN images})
<1> DEFINE S == DOMAIN images
           T == {images[i].to : i \in S}
           f == [i \in S |-> images[i].to]
<1>1. f \in Surjection(S, T)
  BY DEF Surjection
<1>2. IsFiniteSet(S)
  BY ImagesAre, FS_Interval
<1> HIDE DEF f, T, S
<1>3. IsFiniteSet(T)
  BY <1>1, <1>2, FS_Surjection
<1> QED BY <1>3 DEF T, S

LEMMA RegisterIs ==
  ASSUME NEW images \in GoodImages, NEW from \in Paths
  PROVE  /\ Register(images, from) \in GoodImages /\ Longer(Register(images, from), images)
         /\ Registered(Register(images, from), from)
<1>1. /\ Len(images) \in Nat /\ DOMAIN images = 1 .. Len(images)
      /\ \A i \in 1 .. Len(images) : images[i].from \in Paths /\ images[i].to \in Names
  BY ImagesAre
<1>2. CASE Registered(images, from)
  <2>1. Register(images, from) = images
    BY <1>2 DEF Register, Registered
  <2>2. Longer(images, images)
    BY <1>1 DEF Longer
  <2> QED BY <1>2, <2>1, <2>2
<1>3. CASE ~Registered(images, from)
  <2> DEFINE taken == {images[i].to : i \in DOMAIN images}
             to == Fresh(Slugify(Stem[Last(from)], <<"image">>), taken)
             new == [from |-> from, to |-> to]
             more == Append(images, new)
             n == Len(images)
  <2>1. Register(images, from) = more
    BY <1>3 DEF Register, Registered
  <2>2. Stem[Last(from)] \in Names
    BY TextIsNames
  <2>3. <<"image">> \in Names
    <3>1. "image" \in Word
      BY DEF Word
    <3> QED BY <3>1 DEF Names
  <2>4. to \in Names /\ to \notin taken
    BY <2>2, <2>3, SlugIsName, NamesTaken, FreshIsFree
  <2> HIDE DEF to
  <2>5. new \in Image /\ new.from = from /\ new.to = to
    BY <2>4 DEF Image
  <2>6. images \in Seq(Image)
    BY DEF GoodImages
  <2> HIDE DEF new, taken
  <2>7. /\ more \in Seq(Image) /\ Len(more) = n + 1 /\ more[n + 1] = new
        /\ \A i \in 1 .. n : more[i] = images[i]
    BY <2>5, <2>6, AppendProperties
  <2>8. \A i \in 1 .. n : images[i].from # from /\ images[i].to # to
    BY <1>1, <1>3, <2>4 DEF taken, Registered
  <2>9. \A i, j \in 1 .. n : images[i].from = images[j].from \/ images[i].to = images[j].to => i = j
    BY DEF GoodImages
  <2> HIDE DEF more
  <2>10. \A i, j \in 1 .. n + 1 : more[i].from = more[j].from \/ more[i].to = more[j].to => i = j
    <3> SUFFICES ASSUME NEW i \in 1 .. n + 1, NEW j \in 1 .. n + 1,
                        more[i].from = more[j].from \/ more[i].to = more[j].to
                 PROVE  i = j
      OBVIOUS
    <3>1. CASE i \in 1 .. n /\ j \in 1 .. n
      BY <2>7, <2>9, <3>1
    <3>2. CASE i = n + 1 /\ j \in 1 .. n
      BY <2>5, <2>7, <2>8, <3>2
    <3>3. CASE i \in 1 .. n /\ j = n + 1
      BY <2>5, <2>7, <2>8, <3>3
    <3> HIDE DEF n
    <3>4. n \in Nat
      BY <1>1 DEF n
    <3> QED BY <3>1, <3>2, <3>3, <3>4
  <2>11. more \in GoodImages
    BY <2>7, <2>10 DEF GoodImages
  <2>12. Longer(more, images)
    BY <1>1, <2>7 DEF Longer
  <2>13. n + 1 \in DOMAIN more
    BY <1>1, <2>7, LenProperties
  <2>14. Registered(more, from)
    BY <2>5, <2>7, <2>13 DEF Registered
  <2> QED BY <2>1, <2>11, <2>12, <2>14
<1> QED BY <1>2, <1>3

LEMMA StillRegistered ==
  ASSUME NEW images \in GoodImages, NEW more \in GoodImages, NEW most \in GoodImages,
         Longer(more, images), Longer(most, more)
  PROVE  /\ Longer(most, images)
         /\ \A from : Registered(images, from) => Registered(more, from) /\ AssetOf(images, from) = AssetOf(more, from)
<1>1. /\ Len(images) \in Nat /\ DOMAIN images = 1 .. Len(images)
      /\ Len(more) \in Nat /\ DOMAIN more = 1 .. Len(more)
      /\ Len(most) \in Nat
  BY ImagesAre
<1>2. \A i \in 1 .. Len(images) : i \in 1 .. Len(more) /\ more[i] = images[i]
  BY <1>1 DEF Longer
<1>3. Longer(most, images)
  BY <1>1, <1>2 DEF Longer
<1>4. ASSUME NEW from, Registered(images, from)
      PROVE  Registered(more, from) /\ AssetOf(images, from) = AssetOf(more, from)
  <2>1. PICK i \in 1 .. Len(images) : images[i].from = from
    BY <1>1, <1>4 DEF Registered
  <2>2. i \in 1 .. Len(more) /\ more[i].from = from /\ more[i] = images[i]
    BY <1>2, <2>1
  <2>3. (CHOOSE k \in DOMAIN images : images[k].from = from) = i
    BY <1>1, <2>1 DEF GoodImages
  <2>4. (CHOOSE k \in DOMAIN more : more[k].from = from) = i
    BY <1>1, <2>2 DEF GoodImages
  <2> QED BY <1>1, <2>2, <2>3, <2>4 DEF Registered, AssetOf
<1> QED BY <1>3, <1>4

\* The images of a chapter are registered one after the other.
LEMMA RegisterSteps ==
  ASSUME NEW images \in GoodImages, NEW links \in Seq(Paths)
  PROVE  \E at : /\ at[0] = images
                 /\ \A k \in 1 .. Len(links) : at[k] = Register(at[k - 1], links[k])
                 /\ FoldLeft(Register, images, links) = at[Len(links)]
<1> DEFINE n == Len(links)
           by == [p \in GoodImages \X (1 .. n) |-> Register(p[1], links[p[2]])]
           Iter(g) == g = [t \in SUBSET (DOMAIN links) |->
                             IF t = {} THEN images ELSE Register(g[t \ {Max(t)}], links[Max(t)])]
           partial == CHOOSE g : Iter(g)
<1>1. n \in Nat /\ DOMAIN links = 1 .. n /\ \A i \in 1 .. n : links[i] \in Paths
  BY LenProperties, ElementOfSeq
<1>2. by \in [GoodImages \X (1 .. n) -> GoodImages]
  <2>1. \A x \in GoodImages, i \in 1 .. n : Register(x, links[i]) \in GoodImages
    BY <1>1, RegisterIs
  <2> QED BY <2>1
<1>3. PICK f : FoldsUpTo(f, n, GoodImages, images, by)
  <2> HIDE DEF n, by
  <2> QED BY <1>1, <1>2, FoldsExist
<1>4. ASSUME NEW t \in SUBSET (1 .. n), t # {}
      PROVE  by[<<f[t \ {Max(t)}], Max(t)>>] = Register(f[t \ {Max(t)}], links[Max(t)])
  <2>1. Max(t) \in 1 .. n
    <3> HIDE DEF n, by
    <3> QED BY <1>1, <1>4, GreatestNat
  <2>2. f[t \ {Max(t)}] \in GoodImages
    BY <1>3 DEF FoldsUpTo
  <2> HIDE DEF n
  <2> QED BY <2>1, <2>2
<1>5. Iter(f)
  <2> HIDE DEF by, n
  <2> QED BY <1>1, <1>3, <1>4 DEF FoldsUpTo
<1>6. Iter(partial)
  <2> HIDE DEF Iter
  <2> QED BY <1>5
<1>7. FoldLeft(Register, images, links) = partial[1 .. n]
  BY <1>1 DEF FoldLeft, MapThenFoldSet
<1>8. partial[1 .. 0] = images /\ \A k \in 1 .. n : partial[1 .. k] = Register(partial[1 .. k - 1], links[k])
  <2> HIDE DEF partial
  <2>1. 1 .. 0 = {} /\ 1 .. 0 \in SUBSET (1 .. n)
    OBVIOUS
  <2> HIDE DEF n, by
  <2>2. partial[1 .. 0] = images
    BY <1>1, <1>6, <2>1
  <2>3. ASSUME NEW k \in 1 .. n
        PROVE  partial[1 .. k] = Register(partial[1 .. k - 1], links[k])
    <3>1. /\ 1 .. k \in SUBSET (1 .. n) /\ 1 .. k # {}
          /\ Max(1 .. k) = k /\ (1 .. k) \ {Max(1 .. k)} = 1 .. k - 1
      BY <1>1, Interval
    <3>2. partial[1 .. k] = Register(partial[(1 .. k) \ {Max(1 .. k)}], links[Max(1 .. k)])
      BY <1>1, <1>6, <3>1
    <3> QED BY <3>1, <3>2
  <2> QED BY <2>2, <2>3
<1> DEFINE at == [k \in 0 .. n |-> partial[1 .. k]]
<1>9. /\ \A k \in 0 .. n : at[k] = partial[1 .. k]
      /\ \A k \in 1 .. n : k \in 0 .. n /\ k - 1 \in 0 .. n
      /\ 0 \in 0 .. n /\ n \in 0 .. n
  <2> HIDE DEF partial, n
  <2> QED BY <1>1
<1>10. /\ at[0] = images
       /\ \A k \in 1 .. n : at[k] = Register(at[k - 1], links[k])
       /\ FoldLeft(Register, images, links) = at[n]
  <2> HIDE DEF partial, n, by, Iter, at
  <2> QED BY <1>7, <1>8, <1>9
<1> HIDE DEF at, partial, by, Iter
<1> QED BY <1>10

LEMMA RegisterAll ==
  ASSUME NEW images \in GoodImages, NEW links \in Seq(Paths)
  PROVE  LET all == FoldLeft(Register, images, links)
         IN  /\ all \in GoodImages /\ Longer(all, images)
             /\ \A j \in DOMAIN links : Registered(all, links[j])
<1> DEFINE n == Len(links)
<1>1. n \in Nat /\ DOMAIN links = 1 .. n /\ \A i \in 1 .. n : links[i] \in Paths
  BY LenProperties, ElementOfSeq
<1>2. PICK at : /\ at[0] = images
                /\ \A k \in 1 .. n : at[k] = Register(at[k - 1], links[k])
                /\ FoldLeft(Register, images, links) = at[n]
  BY RegisterSteps
<1> DEFINE T == {k \in 0 .. n : /\ at[k] \in GoodImages /\ Longer(at[k], images)
                                /\ \A j \in 1 .. k : Registered(at[k], links[j])}
<1> HIDE DEF n
<1>3. 0 \in T
  <2>1. Longer(images, images)
    BY ImagesAre DEF Longer
  <2> QED BY <1>1, <1>2, <2>1
<1>4. ASSUME NEW k \in 1 .. n, k - 1 \in T
      PROVE  k \in T
  <2> DEFINE old == at[k - 1]
             new == Register(old, links[k])
  <2>1. old \in GoodImages /\ Longer(old, images) /\ \A j \in 1 .. k - 1 : Registered(old, links[j])
    BY <1>4
  <2>2. at[k] = new
    BY <1>2
  <2> HIDE DEF old
  <2>3. new \in GoodImages /\ Longer(new, old) /\ Registered(new, links[k])
    BY <1>1, <2>1, RegisterIs
  <2> HIDE DEF new
  <2>4. Longer(new, images)
    BY <2>1, <2>3, StillRegistered
  <2>5. Longer(new, new)
    BY <2>3, ImagesAre DEF Longer
  <2>6. \A from : Registered(old, from) => Registered(new, from)
    BY <2>1, <2>3, <2>5, StillRegistered
  <2>7. ASSUME NEW j \in 1 .. k
        PROVE  Registered(new, links[j])
    <3>1. j \in 1 .. k - 1 \/ j = k
      BY <1>1
    <3> QED BY <2>1, <2>3, <2>6, <3>1
  <2>8. k \in 0 .. n
    BY <1>1
  <2> QED BY <2>2, <2>3, <2>4, <2>7, <2>8
<1>5. n \in T
  <2> HIDE DEF T
  <2>1. \A k \in 0 .. n : k \in T
    BY <1>1, <1>3, <1>4, UpTo
  <2> QED BY <1>1, <2>1
<1> QED BY <1>1, <1>2, <1>5

\* What is in the archive, and what a chapter has to say.
SpineChapter == [there : BOOLEAN, dir : Folders \cup {<< >>}, title : ChapterTitles \cup {<< >>},
                 text : BOOLEAN, images : Seq(References)]
SpineInv == /\ spine \in Seq(SpineChapter)
            /\ \A i \in 1 .. Len(spine) : spine[i].there => spine[i].dir \in Folders

LEMMA SpineStart == EpubImportInit => SpineInv
<1>1. << >> \in Seq(SpineChapter) /\ Len(<< >>) = 0 /\ 1 .. 0 = {}
  BY EmptySeq
<1> QED BY <1>1 DEF EpubImportInit, SpineInv

LEMMA SpineAppend ==
  ASSUME SpineInv, NEW c \in SpineChapter, c.there => c.dir \in Folders, spine' = Append(spine, c)
  PROVE  SpineInv'
<1> DEFINE n == Len(spine)
<1>1. n \in Nat
  BY LenProperties DEF SpineInv
<1>2. /\ spine' \in Seq(SpineChapter) /\ Len(spine') = n + 1 /\ spine'[n + 1] = c
      /\ \A i \in 1 .. n : spine'[i] = spine[i]
  BY AppendProperties DEF SpineInv
<1>3. \A i \in 1 .. n : spine[i].there => spine[i].dir \in Folders
  BY DEF SpineInv
<1> HIDE DEF n
<1>4. \A i \in 1 .. n + 1 : i \in 1 .. n \/ i = n + 1
  BY <1>1
<1>5. \A i \in 1 .. Len(spine') : spine'[i].there => spine'[i].dir \in Folders
  BY <1>2, <1>3, <1>4
<1> QED BY <1>2, <1>5 DEF SpineInv

LEMMA SpineStep == SpineInv /\ [EpubImportNext]_spine => SpineInv'
<1> SUFFICES ASSUME SpineInv, [EpubImportNext]_spine PROVE SpineInv'
  OBVIOUS
<1>1. << >> \in Seq(References)
  BY EmptySeq
<1>2. ASSUME NEW dir \in Folders, NEW title \in ChapterTitles, NEW text \in BOOLEAN, AddChapter(dir, title, text)
      PROVE  SpineInv'
  <2> DEFINE c == [there |-> TRUE, dir |-> dir, title |-> title, text |-> text, images |-> << >>]
  <2>1. c \in SpineChapter /\ (c.there => c.dir \in Folders)
    BY <1>1 DEF SpineChapter
  <2>2. spine' = Append(spine, c)
    BY <1>2 DEF AddChapter
  <2> HIDE DEF c
  <2> QED BY <2>1, <2>2, SpineAppend
<1>3. ASSUME AddUnreadable PROVE SpineInv'
  <2> DEFINE c == [there |-> FALSE, dir |-> << >>, title |-> << >>, text |-> FALSE, images |-> << >>]
  <2>1. c \in SpineChapter /\ (c.there => c.dir \in Folders)
    BY <1>1 DEF SpineChapter
  <2>2. spine' = Append(spine, c)
    BY <1>3 DEF AddUnreadable
  <2> HIDE DEF c
  <2> QED BY <2>1, <2>2, SpineAppend
<1>4. ASSUME NEW href \in References, AddImage(href) PROVE SpineInv'
  <2> DEFINE n == Len(spine)
             c == [spine[n] EXCEPT !.images = Append(@, href)]
  <2>1. n \in Nat /\ n \in 1 .. n /\ DOMAIN spine = 1 .. n
    BY <1>4, LenProperties, EmptySeq DEF AddImage, SpineInv
  <2>2. spine' = [spine EXCEPT ![n] = c]
    BY <1>4 DEF AddImage
  <2>3. spine[n] \in SpineChapter /\ (spine[n].there => spine[n].dir \in Folders)
    BY <2>1, ElementOfSeq DEF SpineInv
  <2>4. Append(spine[n].images, href) \in Seq(References)
    BY <2>3, AppendProperties DEF SpineChapter
  <2>5. c \in SpineChapter /\ (c.there => c.dir \in Folders)
    BY <2>3, <2>4 DEF SpineChapter
  <2> HIDE DEF c, n
  <2>6. /\ spine' \in Seq(SpineChapter) /\ Len(spine') = Len(spine)
        /\ \A i \in 1 .. Len(spine) : spine'[i] = IF i = n THEN c ELSE spine[i]
    BY <2>1, <2>2, <2>5, ExceptSeq DEF SpineInv, n
  <2>7. \A i \in 1 .. Len(spine') : spine'[i].there => spine'[i].dir \in Folders
    BY <2>5, <2>6 DEF SpineInv
  <2> QED BY <2>6, <2>7 DEF SpineInv
<1>5. ASSUME UNCHANGED spine PROVE SpineInv'
  BY <1>5 DEF SpineInv
<1> QED BY <1>2, <1>3, <1>4, <1>5 DEF EpubImportNext

LEMMA ChapterIs ==
  ASSUME SpineInv, NEW i \in 1 .. Len(spine), spine[i].there
  PROVE  /\ Chapter(i).links \in Seq(Paths)
         /\ Chapter(i).title \in Names /\ Chapter(i).fallback \in Names
<1> DEFINE c == spine[i]
           n == Len(c.images)
           paths == [j \in DOMAIN c.images |-> PathOf(c.dir, c.images[j])]
           All == Paths \cup {<< >>}
<1>1. c \in SpineChapter /\ c.dir \in Folders
  BY ElementOfSeq DEF SpineInv
<1>2. i \in Nat
  BY LenProperties DEF SpineInv
<1>3. c.title \in ChapterTitles \cup {<< >>} /\ c.images \in Seq(References)
  BY <1>1 DEF SpineChapter
<1>4. <<"chapter", i>> \in Names
  <2>1. "chapter" \in Word /\ i \in Word
    BY <1>2 DEF Word
  <2> QED BY <2>1 DEF Names
<1>5. c.title # << >> => c.title \in Names
  BY <1>3, TextIsNames
<1> HIDE DEF c
<1>6. n \in Nat /\ DOMAIN c.images = 1 .. n /\ \A j \in 1 .. n : c.images[j] \in References
  BY <1>3, LenProperties, ElementOfSeq
<1>7. \A j \in 1 .. n : PathOf(c.dir, c.images[j]) \in All
  BY <1>1, <1>6 DEF Paths
<1>8. paths \in [1 .. n -> All]
  <2> HIDE DEF n, All
  <2> QED BY <1>6, <1>7
<1>9. paths \in Seq(All)
  <2> HIDE DEF n, All, paths
  <2> QED BY <1>6, <1>8, SeqDef
<1>10. AllBut(paths, << >>) \in Seq(All) /\ \A j \in 1 .. Len(AllBut(paths, << >>)) : AllBut(paths, << >>)[j] # << >>
  <2> HIDE DEF All, paths
  <2> QED BY <1>9, AllButIs
<1>11. AllBut(paths, << >>) \in Seq(Paths)
  <2> DEFINE w == AllBut(paths, << >>)
  <2> HIDE DEF w, paths
  <2>1. Len(w) \in Nat /\ w \in [1 .. Len(w) -> All] /\ \A j \in 1 .. Len(w) : w[j] # << >>
    BY <1>10, LenProperties DEF w
  <2>2. w \in [1 .. Len(w) -> Paths]
    BY <2>1
  <2>3. w \in Seq(Paths)
    BY <2>1, <2>2, SeqDef
  <2> QED BY <2>3 DEF w
<1>12. /\ Chapter(i).links = AllBut(paths, << >>) /\ Chapter(i).fallback = <<"chapter", i>>
       /\ Chapter(i).title = IF c.title = << >> THEN <<"chapter", i>> ELSE c.title
  BY DEF Chapter, c
<1> HIDE DEF paths
<1> QED BY <1>4, <1>5, <1>11, <1>12

\* The book so far: no id twice, and under every heading the names of its chapter's images.
Heading   == [chapter : 1 .. Len(spine), id : Names, links : Seq(Names)]
GoodLinks(h, images) ==
  LET links == Chapter(h.chapter).links
  IN  /\ DOMAIN h.links = DOMAIN links
      /\ \A j \in DOMAIN links : Registered(images, links[j]) /\ h.links[j] = AssetOf(images, links[j])
GoodBooks == {book \in [headings : Seq(Heading), images : GoodImages] :
                /\ \A i, j \in 1 .. Len(book.headings) : book.headings[i].id = book.headings[j].id => i = j
                /\ \A i \in 1 .. Len(book.headings) : GoodLinks(book.headings[i], book.images)}

LEMMA BookFields ==
  ASSUME NEW book \in GoodBooks
  PROVE  /\ book.images \in GoodImages /\ book.headings \in Seq(Heading)
         /\ Len(book.headings) \in Nat /\ DOMAIN book.headings = 1 .. Len(book.headings)
         /\ \A i \in 1 .. Len(book.headings) :
              book.headings[i].chapter \in 1 .. Len(spine) /\ book.headings[i].id \in Names
<1>1. book.images \in GoodImages /\ book.headings \in Seq(Heading)
  BY DEF GoodBooks
<1>2. /\ Len(book.headings) \in Nat /\ DOMAIN book.headings = 1 .. Len(book.headings)
      /\ \A i \in 1 .. Len(book.headings) : book.headings[i] \in Heading
  BY <1>1, LenProperties, ElementOfSeq
<1> QED BY <1>1, <1>2 DEF Heading

LEMMA UsedIds ==
  ASSUME NEW book \in GoodBooks
  PROVE  IsFiniteSet(Used(book))
<1> DEFINE S == DOMAIN book.headings
           T == Used(book)
           f == [i \in S |-> book.headings[i].id]
<1>1. f \in Surjection(S, T)
  BY DEF Surjection, Used
<1>2. IsFiniteSet(S)
  BY BookFields, FS_Interval
<1> HIDE DEF f, T, S
<1>3. IsFiniteSet(T)
  BY <1>1, <1>2, FS_Surjection
<1> QED BY <1>3 DEF T

LEMMA AssetIsName ==
  ASSUME NEW images \in GoodImages, NEW from, Registered(images, from)
  PROVE  \E i \in 1 .. Len(images) : images[i].from = from /\ images[i].to = AssetOf(images, from) /\ AssetOf(images, from) \in Names
<1>1. /\ DOMAIN images = 1 .. Len(images)
      /\ \A i \in 1 .. Len(images) : images[i].to \in Names
  BY ImagesAre
<1> DEFINE m == CHOOSE k \in DOMAIN images : images[k].from = from
<1>2. m \in 1 .. Len(images) /\ images[m].from = from
  BY <1>1 DEF Registered
<1>3. AssetOf(images, from) = images[m].to
  BY DEF AssetOf
<1> HIDE DEF m
<1> QED BY <1>1, <1>2, <1>3

\* A chapter more.
LEMMA ChapterMore ==
  ASSUME SpineInv, NEW book \in GoodBooks, NEW i \in 1 .. Len(spine), Readable(i)
  PROVE  /\ WithChapter(book, i) \in GoodBooks
         /\ \E h : h.chapter = i /\ WithChapter(book, i).headings = Append(book.headings, h) /\ h \in Heading
<1> DEFINE c      == Chapter(i)
           images == FoldLeft(Register, book.images, c.links)
           slug   == Slugify(c.title, c.fallback)
           id     == SectionId(slug, Used(book), i)
           links  == [j \in DOMAIN c.links |-> AssetOf(images, c.links[j])]
           h      == [chapter |-> i, id |-> id, links |-> links]
           hs     == book.headings
           n      == Len(hs)
           more   == Append(hs, h)
           new    == [images |-> images, headings |-> more]
<1>1. WithChapter(book, i) = new
  BY DEF WithChapter
<1>2. /\ book.images \in GoodImages /\ hs \in Seq(Heading)
      /\ n \in Nat /\ DOMAIN hs = 1 .. n
      /\ \A k \in 1 .. n : hs[k].chapter \in 1 .. Len(spine) /\ hs[k].id \in Names
  BY BookFields
<1>3. /\ \A k, j \in 1 .. n : hs[k].id = hs[j].id => k = j
      /\ \A k \in 1 .. n : GoodLinks(hs[k], book.images)
  BY DEF GoodBooks
<1>4. c.links \in Seq(Paths) /\ c.title \in Names /\ c.fallback \in Names /\ i \in Nat
  BY ChapterIs, LenProperties DEF Readable, SpineInv
<1> HIDE DEF c
<1>5. /\ images \in GoodImages /\ Longer(images, book.images)
      /\ \A j \in DOMAIN c.links : Registered(images, c.links[j])
  BY <1>2, <1>4, RegisterAll
<1>6. id \in Names /\ id \notin Used(book)
  BY <1>4, SlugIsName, UsedIds, SectionIdIsFree
<1> HIDE DEF images, id, hs
<1>7. links \in Seq(Names)
  <2>1. \A j \in DOMAIN c.links : AssetOf(images, c.links[j]) \in Names
    BY <1>5, AssetIsName
  <2>2. DOMAIN c.links = 1 .. Len(c.links) /\ Len(c.links) \in Nat
    BY <1>4, LenProperties
  <2>3. links \in [1 .. Len(c.links) -> Names]
    BY <2>1, <2>2
  <2> HIDE DEF links
  <2> QED BY <2>2, <2>3, SeqDef
<1>8. DOMAIN links = DOMAIN c.links /\ \A j \in DOMAIN c.links : links[j] = AssetOf(images, c.links[j])
  OBVIOUS
<1> HIDE DEF links
<1>9. h \in Heading /\ h.chapter = i /\ h.id = id /\ h.links = links
  BY <1>6, <1>7 DEF Heading
<1> HIDE DEF h
<1>10. GoodLinks(h, images)
  BY <1>5, <1>8, <1>9 DEF GoodLinks, c
<1>11. \A k \in 1 .. n : GoodLinks(hs[k], images)
  <2>1. Longer(images, images)
    BY <1>5, ImagesAre DEF Longer
  <2>2. \A from : Registered(book.images, from) =>
          Registered(images, from) /\ AssetOf(book.images, from) = AssetOf(images, from)
    BY <1>2, <1>5, <2>1, StillRegistered
  <2> QED BY <1>3, <2>2 DEF GoodLinks
<1>12. /\ more \in Seq(Heading) /\ Len(more) = n + 1 /\ more[n + 1] = h
       /\ \A k \in 1 .. n : more[k] = hs[k]
  BY <1>2, <1>9, AppendProperties
<1>13. \A k \in 1 .. n : hs[k].id # id
  BY <1>2, <1>6 DEF Used, hs
<1> HIDE DEF more
<1>14. \A k \in 1 .. n + 1 : k \in 1 .. n \/ k = n + 1
  <2> HIDE DEF n
  <2> QED BY <1>2
<1>15. \A k, j \in 1 .. n + 1 : more[k].id = more[j].id => k = j
  <2> SUFFICES ASSUME NEW k \in 1 .. n + 1, NEW j \in 1 .. n + 1, more[k].id = more[j].id
               PROVE  k = j
    OBVIOUS
  <2>1. CASE k \in 1 .. n /\ j \in 1 .. n
    BY <1>3, <1>12, <2>1
  <2>2. CASE k = n + 1 /\ j \in 1 .. n
    BY <1>9, <1>12, <1>13, <2>2
  <2>3. CASE k \in 1 .. n /\ j = n + 1
    BY <1>9, <1>12, <1>13, <2>3
  <2> HIDE DEF n
  <2> QED BY <1>14, <2>1, <2>2, <2>3
<1>16. \A k \in 1 .. n + 1 : GoodLinks(more[k], images)
  BY <1>10, <1>11, <1>12, <1>14
<1>17. new \in [headings : Seq(Heading), images : GoodImages] /\ new.headings = more /\ new.images = images
  BY <1>5, <1>12
<1> HIDE DEF new
<1>18. new \in GoodBooks
  BY <1>12, <1>15, <1>16, <1>17 DEF GoodBooks
<1> QED BY <1>1, <1>9, <1>17, <1>18 DEF more, hs

LEMMA WithChapterIs ==
  ASSUME SpineInv, NEW book \in GoodBooks, NEW i \in 1 .. Len(spine)
  PROVE  WithChapter(book, i) \in GoodBooks /\ (~Readable(i) => WithChapter(book, i) = book)
<1>1. ~Readable(i) => WithChapter(book, i) = book
  BY DEF WithChapter
<1> QED BY <1>1, ChapterMore

LEMMA EmptyIsGood == EmptyBook \in GoodBooks
<1>1. << >> \in Seq(Heading) /\ << >> \in Seq(Image) /\ Len(<< >>) = 0 /\ 1 .. 0 = {}
  BY EmptySeq
<1>2. << >> \in GoodImages
  BY <1>1 DEF GoodImages
<1> QED BY <1>1, <1>2 DEF EmptyBook, GoodBooks

\* The book is made chapter by chapter.
LEMMA BookSteps ==
  ASSUME SpineInv
  PROVE  \E at : /\ at[0] = EmptyBook
                 /\ \A k \in 1 .. Len(spine) : at[k] = WithChapter(at[k - 1], k)
                 /\ Book = at[Len(spine)]
<1> DEFINE n == Len(spine)
           X == GoodBooks
           places == [i \in DOMAIN spine |-> i]
           by == [p \in X \X (1 .. n) |-> WithChapter(p[1], places[p[2]])]
           Iter(g) == g = [t \in SUBSET (DOMAIN places) |->
                             IF t = {} THEN EmptyBook ELSE WithChapter(g[t \ {Max(t)}], places[Max(t)])]
           partial == CHOOSE g : Iter(g)
<1>1. n \in Nat /\ DOMAIN spine = 1 .. n
  BY LenProperties DEF SpineInv
<1>2. DOMAIN places = 1 .. n /\ \A i \in 1 .. n : places[i] = i
  BY <1>1
<1> HIDE DEF places
<1>3. by \in [X \X (1 .. n) -> X] /\ EmptyBook \in X
  <2>1. \A x \in X, i \in 1 .. n : WithChapter(x, places[i]) \in X
    BY <1>2, WithChapterIs
  <2> HIDE DEF X, n
  <2> QED BY <2>1, EmptyIsGood DEF X
<1> HIDE DEF X
<1>4. PICK f : FoldsUpTo(f, n, X, EmptyBook, by)
  <2> HIDE DEF n, by
  <2> QED BY <1>1, <1>3, FoldsExist
<1>5. ASSUME NEW t \in SUBSET (1 .. n), t # {}
      PROVE  by[<<f[t \ {Max(t)}], Max(t)>>] = WithChapter(f[t \ {Max(t)}], places[Max(t)])
  <2>1. Max(t) \in 1 .. n
    <3> HIDE DEF n, by
    <3> QED BY <1>1, <1>5, GreatestNat
  <2>2. f[t \ {Max(t)}] \in X
    BY <1>4 DEF FoldsUpTo
  <2> HIDE DEF n
  <2> QED BY <2>1, <2>2
<1>6. Iter(f)
  <2> HIDE DEF by, n
  <2> QED BY <1>2, <1>4, <1>5 DEF FoldsUpTo
<1>7. Iter(partial)
  <2> HIDE DEF Iter
  <2> QED BY <1>6
<1>8. Book = partial[1 .. n]
  BY <1>2 DEF Book, FoldLeft, MapThenFoldSet, places
<1>9. partial[1 .. 0] = EmptyBook /\ \A k \in 1 .. n : partial[1 .. k] = WithChapter(partial[1 .. k - 1], k)
  <2> HIDE DEF partial
  <2>1. 1 .. 0 = {} /\ 1 .. 0 \in SUBSET (1 .. n)
    OBVIOUS
  <2> HIDE DEF n, by
  <2>2. partial[1 .. 0] = EmptyBook
    BY <1>2, <1>7, <2>1
  <2>3. ASSUME NEW k \in 1 .. n
        PROVE  partial[1 .. k] = WithChapter(partial[1 .. k - 1], k)
    <3>1. /\ 1 .. k \in SUBSET (1 .. n) /\ 1 .. k # {}
          /\ Max(1 .. k) = k /\ (1 .. k) \ {Max(1 .. k)} = 1 .. k - 1
      BY <1>1, Interval
    <3>2. partial[1 .. k] = WithChapter(partial[(1 .. k) \ {Max(1 .. k)}], places[Max(1 .. k)])
      BY <1>2, <1>7, <3>1
    <3> QED BY <1>2, <3>1, <3>2
  <2> QED BY <2>2, <2>3
<1> DEFINE at == [k \in 0 .. n |-> partial[1 .. k]]
<1>10. /\ \A k \in 0 .. n : at[k] = partial[1 .. k]
       /\ \A k \in 1 .. n : k \in 0 .. n /\ k - 1 \in 0 .. n
       /\ 0 \in 0 .. n /\ n \in 0 .. n
  <2> HIDE DEF partial, n
  <2> QED BY <1>1
<1>11. /\ at[0] = EmptyBook
       /\ \A k \in 1 .. n : at[k] = WithChapter(at[k - 1], k)
       /\ Book = at[n]
  <2> HIDE DEF partial, n, by, Iter, at
  <2> QED BY <1>8, <1>9, <1>10
<1> HIDE DEF at, partial, by, Iter
<1> QED BY <1>11

\* The headings of a book so far are those of the chapters up to the k-th that can be read.
InOrder(book, k) ==
  /\ {book.headings[i].chapter : i \in DOMAIN book.headings} = {i \in 1 .. k : Readable(i)}
  /\ \A i, j \in DOMAIN book.headings : i < j => book.headings[i].chapter < book.headings[j].chapter

LEMMA InOrderStep ==
  ASSUME SpineInv, NEW book \in GoodBooks, NEW k \in 1 .. Len(spine), InOrder(book, k - 1)
  PROVE  InOrder(WithChapter(book, k), k)
<1> DEFINE hs == book.headings
           n  == Len(hs)
<1>1. Len(spine) \in Nat
  BY LenProperties DEF SpineInv
<1>2. {i \in 1 .. k : Readable(i)} = {i \in 1 .. k - 1 : Readable(i)} \cup {i \in {k} : Readable(i)}
  <2>1. 1 .. k = (1 .. k - 1) \cup {k}
    BY <1>1
  <2> QED BY <2>1
<1>3. CASE ~Readable(k)
  <2>1. WithChapter(book, k) = book
    BY <1>3, WithChapterIs
  <2> QED BY <1>2, <1>3, <2>1 DEF InOrder
<1>4. CASE Readable(k)
  <2>1. PICK h : h.chapter = k /\ WithChapter(book, k).headings = Append(hs, h) /\ h \in Heading
    BY <1>4, ChapterMore
  <2> DEFINE more == WithChapter(book, k).headings
  <2>2. hs \in Seq(Heading) /\ n \in Nat /\ DOMAIN hs = 1 .. n
    BY BookFields
  <2>3. /\ more \in Seq(Heading) /\ Len(more) = n + 1 /\ more[n + 1] = h
        /\ \A i \in 1 .. n : more[i] = hs[i]
    BY <2>1, <2>2, AppendProperties
  <2>4. DOMAIN more = 1 .. n + 1
    BY <2>3, LenProperties
  <2>5. \A i \in 1 .. n : hs[i].chapter \in 1 .. k - 1
    BY <2>2 DEF InOrder
  <2>6. \A i, j \in 1 .. n : i < j => hs[i].chapter < hs[j].chapter
    BY <2>2 DEF InOrder
  <2>7. {hs[i].chapter : i \in 1 .. n} = {i \in 1 .. k - 1 : Readable(i)}
    BY <2>2 DEF InOrder
  <2> HIDE DEF more, hs, n
  <2>8. 1 .. n + 1 = (1 .. n) \cup {n + 1}
    BY <2>2
  <2>9. {more[i].chapter : i \in 1 .. n + 1} = {hs[i].chapter : i \in 1 .. n} \cup {k}
    BY <2>1, <2>3, <2>8
  <2>10. \A i, j \in 1 .. n + 1 : i < j => more[i].chapter < more[j].chapter
    <3> SUFFICES ASSUME NEW i \in 1 .. n + 1, NEW j \in 1 .. n + 1, i < j
                 PROVE  more[i].chapter < more[j].chapter
      OBVIOUS
    <3>1. i \in 1 .. n
      BY <2>2
    <3>2. CASE j \in 1 .. n
      BY <2>3, <2>6, <3>1, <3>2
    <3>3. CASE j = n + 1
      <4>1. more[j].chapter = k /\ more[i].chapter = hs[i].chapter
        BY <2>1, <2>3, <3>1, <3>3
      <4> QED BY <2>5, <3>1, <4>1
    <3> QED BY <2>8, <3>2, <3>3
  <2>11. {i \in {k} : Readable(i)} = {k}
    BY <1>4
  <2> QED BY <1>2, <2>4, <2>7, <2>9, <2>10, <2>11 DEF InOrder, more
<1> QED BY <1>3, <1>4

LEMMA BookIs == SpineInv => Book \in GoodBooks /\ InOrder(Book, Len(spine))
<1> SUFFICES ASSUME SpineInv PROVE Book \in GoodBooks /\ InOrder(Book, Len(spine))
  OBVIOUS
<1> DEFINE n == Len(spine)
<1>1. n \in Nat
  BY LenProperties DEF SpineInv
<1>2. PICK at : /\ at[0] = EmptyBook
                /\ \A k \in 1 .. n : at[k] = WithChapter(at[k - 1], k)
                /\ Book = at[n]
  BY BookSteps
<1> DEFINE T == {k \in 0 .. n : at[k] \in GoodBooks /\ InOrder(at[k], k)}
<1>3. 0 \in T
  <2>1. EmptyBook.headings = << >> /\ DOMAIN << >> = {} /\ 1 .. 0 = {}
    BY DEF EmptyBook
  <2>2. InOrder(EmptyBook, 0)
    BY <2>1 DEF InOrder
  <2> HIDE DEF n
  <2> QED BY <1>1, <1>2, <2>2, EmptyIsGood
<1>4. ASSUME NEW k \in 1 .. n, k - 1 \in T
      PROVE  k \in T
  <2>1. at[k - 1] \in GoodBooks /\ InOrder(at[k - 1], k - 1)
    BY <1>4
  <2>2. at[k] = WithChapter(at[k - 1], k)
    BY <1>2
  <2>3. at[k] \in GoodBooks /\ InOrder(at[k], k)
    BY <2>1, <2>2, WithChapterIs, InOrderStep
  <2> HIDE DEF n
  <2> QED BY <1>1, <2>3
<1>5. n \in T
  <2> HIDE DEF T, n
  <2>1. \A k \in 0 .. n : k \in T
    BY <1>1, <1>3, <1>4, UpTo
  <2> QED BY <1>1, <2>1
<1> QED BY <1>2, <1>5

\* A link leads to its image, because no other image is registered under its name.
LEMMA LinkLeads ==
  ASSUME NEW book \in GoodBooks, NEW from, Registered(book.images, from)
  PROVE  Asset(book, AssetOf(book.images, from)) = {from} \intersect Archived
<1> DEFINE images == book.images
           to == AssetOf(images, from)
<1>1. images \in GoodImages
  BY BookFields
<1>2. DOMAIN images = 1 .. Len(images)
  BY <1>1, ImagesAre
<1>3. PICK m \in 1 .. Len(images) : images[m].from = from /\ images[m].to = to
  BY <1>1, AssetIsName
<1>4. \A i \in 1 .. Len(images) : images[i].to = to => i = m
  BY <1>1, <1>3 DEF GoodImages
<1> HIDE DEF images, to
<1>5. {i \in DOMAIN images : images[i].to = to} = {m}
  BY <1>2, <1>3, <1>4
<1>6. {images[i].from : i \in {i \in DOMAIN images : images[i].to = to}} = {from}
  BY <1>3, <1>5
<1> QED BY <1>6 DEF Asset, images, to

LEMMA BookBound == SpineInv => BookIsBound
<1> SUFFICES ASSUME SpineInv PROVE BookIsBound
  OBVIOUS
<1> DEFINE book == Book
           hs   == book.headings
           chapters == [i \in DOMAIN hs |-> hs[i].chapter]
<1>1. book \in GoodBooks /\ InOrder(book, Len(spine))
  BY BookIs
<1>2. DOMAIN spine = 1 .. Len(spine)
  BY LenProperties DEF SpineInv
<1> HIDE DEF book
<1>3. DOMAIN hs = 1 .. Len(hs)
  BY <1>1, BookFields
<1>4. ToSet(chapters) = {i \in DOMAIN spine : Readable(i)}
  <2>1. ToSet(chapters) = {hs[i].chapter : i \in DOMAIN hs}
    BY DEF ToSet
  <2> QED BY <1>1, <1>2, <2>1 DEF InOrder
<1>5. \A i, j \in DOMAIN chapters : i < j => chapters[i] < chapters[j]
  BY <1>1 DEF InOrder
<1>6. IsInjective(Sections(book))
  BY <1>1, <1>3 DEF IsInjective, Sections, GoodBooks
<1>7. ASSUME NEW i \in DOMAIN hs, NEW j \in DOMAIN Chapter(hs[i].chapter).links
      PROVE  Asset(book, hs[i].links[j]) = {Chapter(hs[i].chapter).links[j]} \intersect Archived
  <2>1. GoodLinks(hs[i], book.images)
    BY <1>1, <1>3 DEF GoodBooks
  <2> DEFINE from == Chapter(hs[i].chapter).links[j]
  <2>2. Registered(book.images, from) /\ hs[i].links[j] = AssetOf(book.images, from)
    BY <2>1 DEF GoodLinks
  <2> HIDE DEF from
  <2>3. Asset(book, hs[i].links[j]) = {from} \intersect Archived
    BY <1>1, <2>2, LinkLeads
  <2> QED BY <2>3 DEF from
<1> QED BY <1>4, <1>5, <1>6, <1>7 DEF BookIsBound, book

\* However many chapters and images a book has, and whatever they are called: every chapter that
\* can be read is there in its order, under an id of its own, and its links lead to its images.
\* Behind it, that a name with a number is found among more numbers than there are names.
THEOREM BookAlwaysBound == EpubImportSpec => []BookIsBound
<1>1. EpubImportSpec => []SpineInv
  BY SpineStart, SpineStep, PTL DEF EpubImportSpec
<1>2. SpineInv => BookIsBound
  BY BookBound
<1> QED BY <1>1, <1>2, PTL

----------------------------------------------------------------------------
(* HtmlNormalize. *)

\* Elements that are open.
IsNode(node)  == node = [tag |-> node.tag, n |-> node.n, kids |-> node.kids]
IsStack(open) == /\ Len(open) \in Nat /\ open = [i \in 1 .. Len(open) |-> open[i]]
                 /\ \A i \in 1 .. Len(open) : IsNode(open[i])
Nodes(open)   == {open[i] : i \in 1 .. Len(open)}

LEMMA StackSeq ==
  ASSUME NEW open, IsStack(open)
  PROVE  open \in Seq(Nodes(open)) /\ Len(open) \in Nat /\ DOMAIN open = 1 .. Len(open)
<1>1. Len(open) \in Nat /\ open \in [1 .. Len(open) -> Nodes(open)]
  BY DEF IsStack, Nodes
<1> QED BY <1>1, SeqDef

LEMMA SeqStack ==
  ASSUME NEW S, NEW open \in Seq(S), \A i \in 1 .. Len(open) : IsNode(open[i])
  PROVE  IsStack(open)
<1>1. Len(open) \in Nat /\ open \in [1 .. Len(open) -> S]
  BY LenProperties
<1> QED BY <1>1 DEF IsStack

LEMMA GivenNode ==
  ASSUME NEW x, IsNode(x), NEW kids
  PROVE  IsNode([x EXCEPT !.kids = kids]) /\ [x EXCEPT !.kids = kids].tag = x.tag
<1> DEFINE tag == x.tag
           n   == x.n
           y   == [tag |-> tag, n |-> n, kids |-> x.kids]
           z   == [tag |-> tag, n |-> n, kids |-> kids]
<1>1. x = y
  BY DEF IsNode
<1>2. [y EXCEPT !.kids = kids] = z
  <2> HIDE DEF tag, n
  <2> QED OBVIOUS
<1>3. z.tag = tag /\ z.n = n /\ z.kids = kids
  OBVIOUS
<1>4. IsNode(z)
  BY <1>3 DEF IsNode
<1>5. [x EXCEPT !.kids = kids] = z
  <2> HIDE DEF z
  <2> QED BY <1>1, <1>2
<1> HIDE DEF z
<1> QED BY <1>3, <1>4, <1>5

\* What an element is given changes no tag.
LEMMA GivesIs ==
  ASSUME NEW open, IsStack(open), Len(open) > 0, NEW node
  PROVE  /\ IsStack(Gives(open, node)) /\ Len(Gives(open, node)) = Len(open)
         /\ \A i \in 1 .. Len(open) : Gives(open, node)[i].tag = open[i].tag
<1> DEFINE n == Len(open)
           new == [open[n] EXCEPT !.kids = Append(@, node)]
           S == Nodes(open) \cup {new}
           more == [open EXCEPT ![n] = new]
<1>1. open \in Seq(Nodes(open)) /\ n \in Nat /\ n \in 1 .. n
  BY StackSeq
<1>2. open \in Seq(S) /\ new \in S
  BY <1>1, SeqMonotonic
<1>3. \A i \in 1 .. n : IsNode(open[i])
  BY DEF IsStack
<1>4. IsNode(new) /\ new.tag = open[n].tag
  <2>1. IsNode(open[n])
    BY <1>1, <1>3
  <2> QED BY <2>1, GivenNode
<1>5. Gives(open, node) = more
  BY DEF Gives
<1> HIDE DEF new, S
<1>6. /\ more \in Seq(S) /\ Len(more) = n
      /\ \A j \in 1 .. n : more[j] = IF j = n THEN new ELSE open[j]
  BY <1>1, <1>2, ExceptSeq
<1> HIDE DEF more, n
<1>7. IsStack(more)
  BY <1>3, <1>4, <1>6, SeqStack
<1> QED BY <1>4, <1>5, <1>6, <1>7 DEF n

LEMMA EntersIs ==
  ASSUME NEW open, IsStack(open), NEW node, IsNode(node)
  PROVE  /\ IsStack(Enters(open, node)) /\ Len(Enters(open, node)) = Len(open) + 1
         /\ Enters(open, node)[Len(open) + 1].tag = node.tag
         /\ \A i \in 1 .. Len(open) : Enters(open, node)[i].tag = open[i].tag
<1> DEFINE n == Len(open)
           S == Nodes(open) \cup {node}
           more == Append(open, node)
<1>1. open \in Seq(Nodes(open)) /\ n \in Nat
  BY StackSeq
<1>2. open \in Seq(S) /\ node \in S
  BY <1>1, SeqMonotonic
<1>3. \A i \in 1 .. n : IsNode(open[i])
  BY DEF IsStack
<1> HIDE DEF S
<1>4. /\ more \in Seq(S) /\ Len(more) = n + 1 /\ more[n + 1] = node
      /\ \A i \in 1 .. n : more[i] = open[i]
  BY <1>2, AppendProperties
<1> HIDE DEF more
<1>5. \A i \in 1 .. Len(more) : IsNode(more[i])
  BY <1>1, <1>3, <1>4
<1>6. IsStack(more)
  BY <1>4, <1>5, SeqStack
<1> QED BY <1>4, <1>6 DEF Enters, more

LEMMA Leaves1Is ==
  ASSUME NEW open, IsStack(open), Len(open) > 1
  PROVE  /\ IsStack(Leaves1(open)) /\ Len(Leaves1(open)) = Len(open) - 1
         /\ \A i \in 1 .. Len(open) - 1 : Leaves1(open)[i].tag = open[i].tag
<1> DEFINE n == Len(open)
           front == Front(open)
<1>1. open \in Seq(Nodes(open)) /\ n \in Nat
  BY StackSeq
<1>2. \A i \in 1 .. n : IsNode(open[i]) /\ open[i] \in Nodes(open)
  BY DEF IsStack, Nodes
<1>3. front = SubSeq(open, 1, n - 1)
  BY DEF Front
<1>4. \A i \in 1 .. n - 1 : open[i] \in Nodes(open)
  BY <1>1, <1>2
<1>5. /\ front \in Seq(Nodes(open)) /\ Len(front) = n - 1
      /\ \A i \in 1 .. n - 1 : front[i] = open[i]
  <2>1. /\ SubSeq(open, 1, n - 1) \in Seq(Nodes(open))
        /\ Len(SubSeq(open, 1, n - 1)) = IF 1 <= n - 1 THEN n - 1 - 1 + 1 ELSE 0
        /\ \A i \in 1 .. n - 1 - 1 + 1 : SubSeq(open, 1, n - 1)[i] = open[1 + i - 1]
    <3>1. 1 \in Int /\ n - 1 \in Int
      BY <1>1
    <3> HIDE DEF n
    <3> QED BY <1>4, <3>1, SubSeqProperties
  <2> HIDE DEF front
  <2> QED BY <1>1, <1>3, <2>1
<1> HIDE DEF front, n
<1>6. \A i \in 1 .. Len(front) : IsNode(front[i])
  BY <1>1, <1>2, <1>5
<1>7. IsStack(front) /\ Len(front) > 0
  BY <1>1, <1>5, <1>6, SeqStack DEF n
<1>8. Leaves1(open) = Gives(front, Last(open))
  BY DEF Leaves1, front
<1>9. /\ IsStack(Gives(front, Last(open))) /\ Len(Gives(front, Last(open))) = Len(front)
      /\ \A i \in 1 .. Len(front) : Gives(front, Last(open))[i].tag = front[i].tag
  BY <1>7, GivesIs
<1> QED BY <1>5, <1>8, <1>9 DEF n

\* Leaving several elements is leaving one after the other.  The fold behind it is over any stack,
\* whatever its elements hold, so no set bounds it.
Leaving(f, k, open) == f = [s \in SUBSET (1 .. k) |-> IF s = {} THEN open ELSE Leaves1(f[s \ {Max(s)}])]

LEMMA LeavingOneMore ==
  ASSUME NEW open, NEW k \in Nat \ {0}, NEW f, Leaving(f, k - 1, open)
  PROVE  \E g : Leaving(g, k, open)
<1> DEFINE g == [s \in SUBSET (1 .. k) |-> IF k \in s THEN Leaves1(f[s \ {k}]) ELSE f[s]]
<1>1. ASSUME NEW s \in SUBSET (1 .. k), k \in s
      PROVE  Max(s) = k /\ s \ {k} \in SUBSET (1 .. k - 1) /\ s \ {k} \in SUBSET (1 .. k)
  <2> HIDE DEF g
  <2>1. k \in Nat /\ s \subseteq 1 .. k /\ s # {}
    BY <1>1
  <2>2. Max(s) \in s /\ \A y \in s : y <= Max(s)
    BY <2>1, GreatestNat
  <2>3. PICK m \in 1 .. k : m = Max(s)
    BY <2>1, <2>2
  <2>4. k <= m
    BY <1>1, <2>2, <2>3
  <2>5. Max(s) = k
    BY <2>1, <2>3, <2>4
  <2> QED BY <2>1, <2>5
<1>2. ASSUME NEW s \in SUBSET (1 .. k), k \notin s
      PROVE  s \in SUBSET (1 .. k - 1)
  <2> HIDE DEF g
  <2> QED BY <1>2
<1>3. ASSUME NEW s \in SUBSET (1 .. k - 1)
      PROVE  g[s] = f[s] /\ f[s] = IF s = {} THEN open ELSE Leaves1(f[s \ {Max(s)}])
  <2>1. s \in SUBSET (1 .. k) /\ k \notin s
    <3> HIDE DEF g
    <3> QED OBVIOUS
  <2>2. g[s] = f[s]
    BY <2>1
  <2> HIDE DEF g
  <2>3. f[s] = IF s = {} THEN open ELSE Leaves1(f[s \ {Max(s)}])
    BY DEF Leaving
  <2> QED BY <2>2, <2>3
<1>4. ASSUME NEW s \in SUBSET (1 .. k)
      PROVE  g[s] = IF s = {} THEN open ELSE Leaves1(g[s \ {Max(s)}])
  <2>1. CASE k \in s
    <3>1. Max(s) = k /\ s \ {k} \in SUBSET (1 .. k - 1) /\ s # {}
      BY <1>1, <2>1
    <3>2. g[s \ {k}] = f[s \ {k}]
      BY <1>3, <3>1
    <3>3. g[s] = Leaves1(f[s \ {k}])
      BY <2>1
    <3> HIDE DEF g
    <3> QED BY <3>1, <3>2, <3>3
  <2>2. CASE k \notin s
    <3>1. s \in SUBSET (1 .. k - 1)
      BY <1>2, <2>2
    <3>2. g[s] = f[s] /\ f[s] = IF s = {} THEN open ELSE Leaves1(f[s \ {Max(s)}])
      BY <1>3, <3>1
    <3>3. s \ {Max(s)} \in SUBSET (1 .. k - 1)
      BY <3>1
    <3>4. g[s \ {Max(s)}] = f[s \ {Max(s)}]
      BY <1>3, <3>3
    <3> HIDE DEF g
    <3> QED BY <3>2, <3>4
  <2> QED BY <2>1, <2>2
<1>5. g = [s \in SUBSET (1 .. k) |-> g[s]]
  OBVIOUS
<1>6. Leaving(g, k, open)
  <2> HIDE DEF g
  <2> QED BY <1>4, <1>5 DEF Leaving
<1> QED BY <1>6

LEMMA LeavingExists ==
  ASSUME NEW open, NEW n \in Nat
  PROVE  \E f : Leaving(f, n, open)
<1> DEFINE T == {k \in 0 .. n : \E f : Leaving(f, k, open)}
<1>1. 0 \in T
  <2> DEFINE f == [s \in SUBSET (1 .. 0) |-> open]
  <2>1. \A s \in SUBSET (1 .. 0) : s = {}
    OBVIOUS
  <2>2. Leaving(f, 0, open)
    BY <2>1 DEF Leaving
  <2>3. 0 \in 0 .. n
    OBVIOUS
  <2> HIDE DEF f
  <2> QED BY <2>2, <2>3
<1>2. ASSUME NEW k \in 1 .. n, k - 1 \in T
      PROVE  k \in T
  <2>1. PICK f : Leaving(f, k - 1, open)
    BY <1>2
  <2>2. k \in Nat \ {0} /\ k \in 0 .. n
    OBVIOUS
  <2>3. \E g : Leaving(g, k, open)
    BY <2>1, <2>2, LeavingOneMore
  <2> QED BY <2>2, <2>3
<1> HIDE DEF T
<1>3. \A k \in 0 .. n : k \in T
  BY <1>1, <1>2, UpTo
<1>4. n \in T
  BY <1>3
<1> QED BY <1>4 DEF T

LEMMA LeavesSteps ==
  ASSUME NEW open, NEW n \in Nat
  PROVE  \E at : at[0] = open /\ (\A k \in 1 .. n : at[k] = Leaves1(at[k - 1])) /\ LeavesN(open, n) = at[n]
<1> DEFINE places == [i \in 1 .. n |-> i]
           Iter(g) == g = [s \in SUBSET (DOMAIN places) |-> IF s = {} THEN open ELSE Leaves1(g[s \ {Max(s)}])]
           partial == CHOOSE g : Iter(g)
<1>1. DOMAIN places = 1 .. n
  OBVIOUS
<1> HIDE DEF places
<1>2. \E f : Iter(f)
  <2>1. PICK f : Leaving(f, n, open)
    BY LeavingExists
  <2>2. Iter(f)
    BY <1>1, <2>1 DEF Leaving
  <2> HIDE DEF Iter
  <2> QED BY <2>2
<1>3. Iter(partial)
  <2> HIDE DEF Iter
  <2> QED BY <1>2
<1>4. LeavesN(open, n) = partial[1 .. n]
  BY <1>1 DEF LeavesN, FoldLeft, MapThenFoldSet, places
<1>5. partial[1 .. 0] = open /\ \A k \in 1 .. n : partial[1 .. k] = Leaves1(partial[1 .. k - 1])
  <2> HIDE DEF partial
  <2>1. 1 .. 0 = {} /\ 1 .. 0 \in SUBSET (1 .. n)
    OBVIOUS
  <2>2. partial[1 .. 0] = open
    BY <1>1, <1>3, <2>1
  <2>3. ASSUME NEW k \in 1 .. n
        PROVE  partial[1 .. k] = Leaves1(partial[1 .. k - 1])
    <3>1. /\ 1 .. k \in SUBSET (1 .. n) /\ 1 .. k # {}
          /\ Max(1 .. k) = k /\ (1 .. k) \ {Max(1 .. k)} = 1 .. k - 1
      BY Interval
    <3>2. partial[1 .. k] = Leaves1(partial[(1 .. k) \ {Max(1 .. k)}])
      BY <1>1, <1>3, <3>1
    <3> QED BY <3>1, <3>2
  <2> QED BY <2>2, <2>3
<1> DEFINE at == [k \in 0 .. n |-> partial[1 .. k]]
<1>6. /\ \A k \in 0 .. n : at[k] = partial[1 .. k]
      /\ \A k \in 1 .. n : k \in 0 .. n /\ k - 1 \in 0 .. n
      /\ 0 \in 0 .. n /\ n \in 0 .. n
  <2> HIDE DEF partial
  <2> QED OBVIOUS
<1>7. at[0] = open /\ (\A k \in 1 .. n : at[k] = Leaves1(at[k - 1])) /\ LeavesN(open, n) = at[n]
  <2> HIDE DEF partial, at
  <2> QED BY <1>4, <1>5, <1>6
<1> HIDE DEF at
<1> QED BY <1>7

LEMMA LeavesNone == ASSUME NEW open PROVE LeavesN(open, 0) = open
<1>1. PICK at : at[0] = open /\ LeavesN(open, 0) = at[0]
  BY LeavesSteps
<1> QED BY <1>1

LEMMA LeavesMore ==
  ASSUME NEW open, NEW n \in Nat
  PROVE  LeavesN(open, n + 1) = Leaves1(LeavesN(open, n))
<1>1. PICK at : at[0] = open /\ (\A k \in 1 .. n : at[k] = Leaves1(at[k - 1])) /\ LeavesN(open, n) = at[n]
  BY LeavesSteps
<1>2. PICK to : /\ to[0] = open /\ (\A k \in 1 .. n + 1 : to[k] = Leaves1(to[k - 1]))
                /\ LeavesN(open, n + 1) = to[n + 1]
  <2>1. n + 1 \in Nat
    OBVIOUS
  <2> QED BY <2>1, LeavesSteps
<1> DEFINE T == {k \in 0 .. n : at[k] = to[k]}
<1>3. 0 \in T
  BY <1>1, <1>2
<1>4. ASSUME NEW k \in 1 .. n, k - 1 \in T
      PROVE  k \in T
  BY <1>1, <1>2, <1>4
<1> HIDE DEF T
<1>5. \A k \in 0 .. n : k \in T
  BY <1>3, <1>4, UpTo
<1>6. at[n] = to[n]
  BY <1>5 DEF T
<1>7. to[n + 1] = Leaves1(to[n + 1 - 1]) /\ n + 1 - 1 = n
  BY <1>2
<1> QED BY <1>1, <1>2, <1>6, <1>7

\* Leaving some and then others.
LEMMA LeavesSum ==
  ASSUME NEW open, NEW m \in Nat, NEW n \in Nat
  PROVE  LeavesN(LeavesN(open, m), n) = LeavesN(open, m + n)
<1> DEFINE T == {k \in 0 .. n : LeavesN(LeavesN(open, m), k) = LeavesN(open, m + k)}
<1>1. 0 \in T
  <2>1. m + 0 = m /\ 0 \in 0 .. n
    OBVIOUS
  <2> QED BY <2>1, LeavesNone
<1>2. ASSUME NEW k \in 1 .. n, k - 1 \in T
      PROVE  k \in T
  <2>1. k - 1 \in Nat /\ m + (k - 1) \in Nat /\ (k - 1) + 1 = k /\ m + (k - 1) + 1 = m + k
    OBVIOUS
  <2>2. LeavesN(LeavesN(open, m), k) = Leaves1(LeavesN(LeavesN(open, m), k - 1))
    BY <2>1, LeavesMore
  <2>3. LeavesN(open, m + k) = Leaves1(LeavesN(open, m + (k - 1)))
    BY <2>1, LeavesMore
  <2> QED BY <1>2, <2>2, <2>3
<1> HIDE DEF T
<1>3. \A k \in 0 .. n : k \in T
  BY <1>1, <1>2, UpTo
<1>4. n \in T
  BY <1>3
<1> QED BY <1>4 DEF T

LEMMA LeavesNIs ==
  ASSUME NEW open, IsStack(open), NEW k \in 0 .. Len(open) - 1
  PROVE  /\ IsStack(LeavesN(open, k)) /\ Len(LeavesN(open, k)) = Len(open) - k
         /\ \A i \in 1 .. Len(open) - k : LeavesN(open, k)[i].tag = open[i].tag
<1> DEFINE n == Len(open) - 1
           T == {j \in 0 .. n : /\ IsStack(LeavesN(open, j)) /\ Len(LeavesN(open, j)) = Len(open) - j
                                /\ \A i \in 1 .. Len(open) - j : LeavesN(open, j)[i].tag = open[i].tag}
<1>1. Len(open) \in Nat
  BY DEF IsStack
<1>2. 0 \in T
  BY <1>1, LeavesNone
<1>3. n \in Nat
  BY <1>1
<1>4. ASSUME NEW j \in 1 .. n, j - 1 \in T
      PROVE  j \in T
  <2> DEFINE old == LeavesN(open, j - 1)
             new == LeavesN(open, j)
  <2>1. /\ IsStack(old) /\ Len(old) = Len(open) - (j - 1)
        /\ \A i \in 1 .. Len(open) - (j - 1) : old[i].tag = open[i].tag
    BY <1>4
  <2>2. new = Leaves1(old)
    <3>1. j - 1 \in Nat /\ (j - 1) + 1 = j
      BY <1>1
    <3> QED BY <3>1, LeavesMore
  <2> HIDE DEF old, new
  <2>3. Len(old) > 1
    BY <1>1, <2>1
  <2>4. /\ IsStack(new) /\ Len(new) = Len(old) - 1
        /\ \A i \in 1 .. Len(old) - 1 : new[i].tag = old[i].tag
    BY <2>1, <2>2, <2>3, Leaves1Is
  <2>5. Len(new) = Len(open) - j /\ j \in 0 .. n
    BY <1>1, <2>1, <2>4
  <2>6. \A i \in 1 .. Len(open) - j : new[i].tag = open[i].tag
    BY <1>1, <2>1, <2>4
  <2> QED BY <2>4, <2>5, <2>6 DEF new
<1> HIDE DEF T
<1>5. \A j \in 0 .. n : j \in T
  <2> HIDE DEF n
  <2> QED BY <1>2, <1>3, <1>4, UpTo
<1>6. k \in T
  BY <1>5
<1> QED BY <1>6 DEF T

\* How far up an element whose end tag may be left out stands: each is in one that stands higher.
Rank(tag) ==
  CASE tag = "p" -> 0
    [] tag \in {"li", "td"} -> 1
    [] tag = "tr" -> 2
    [] OTHER -> 3

LEMMA RankFalls ==
  ASSUME NEW parent, NEW tag \in Optional, Holds(parent, tag)
  PROVE  Rank(parent) \in Nat /\ Rank(tag) \in Nat /\ Rank(tag) < Rank(parent)
BY DEF Rank, Holds, Optional, Flowing, Divisions, InPhrasing, Phrasing, Titles

LEMMA ClosesHeld ==
  ASSUME NEW parent, NEW tag, Holds(parent, tag)
  PROVE  ~ClosesImplicitly(parent, tag)
BY DEF ClosesImplicitly, Holds, Flowing, Divisions, Phrasing, Titles

\* Above an open element, only elements whose end tag may be left out.
Nested(open) == \A i \in 1 .. Len(open) - 1 : Holds(open[i].tag, open[i + 1].tag)
Unended(open, k) ==
  /\ k \in 0 .. Len(open) - 1 /\ Nested(open)
  /\ \A i \in Len(open) - k + 1 .. Len(open) : open[i].tag \in Optional

LEMMA RanksFall ==
  ASSUME NEW open, IsStack(open), NEW k, Unended(open, k),
         NEW i \in Len(open) - k .. Len(open), NEW j \in i + 1 .. Len(open)
  PROVE  Rank(open[j].tag) \in Nat /\ Rank(open[i].tag) \in Nat /\ Rank(open[j].tag) < Rank(open[i].tag)
<1>1. Len(open) \in Nat /\ k \in 0 .. Len(open) - 1
  BY DEF IsStack, Unended
<1> DEFINE n == Len(open) - i
           T == {d \in 1 .. n : /\ Rank(open[i + d].tag) \in Nat /\ Rank(open[i].tag) \in Nat
                                /\ Rank(open[i + d].tag) < Rank(open[i].tag)}
<1>2. n \in Nat /\ i \in Nat /\ i >= 1
  BY <1>1
<1>3. ASSUME NEW d \in 1 .. n
      PROVE  /\ Rank(open[i + (d - 1)].tag) \in Nat /\ Rank(open[i + d].tag) \in Nat
             /\ Rank(open[i + d].tag) < Rank(open[i + (d - 1)].tag)
  <2>1. i + (d - 1) \in 1 .. Len(open) - 1 /\ i + d \in Len(open) - k + 1 .. Len(open) /\ i + (d - 1) + 1 = i + d
    BY <1>1, <1>2
  <2>2. Holds(open[i + (d - 1)].tag, open[i + d].tag) /\ open[i + d].tag \in Optional
    BY <2>1 DEF Unended, Nested
  <2> QED BY <2>2, RankFalls
<1> DEFINE U == {0} \cup T
<1>4. 0 \in U
  OBVIOUS
<1>5. ASSUME NEW d \in 1 .. n, d - 1 \in U
      PROVE  d \in U
  <2>1. CASE d = 1
    <3>1. i + (d - 1) = i
      BY <1>2, <2>1
    <3> QED BY <1>3, <3>1
  <2>2. CASE d # 1
    <3>1. d - 1 \in T
      BY <1>5, <2>2
    <3> QED BY <1>3, <3>1
  <2> QED BY <2>1, <2>2
<1> HIDE DEF U
<1>6. \A d \in 0 .. n : d \in U
  <2> HIDE DEF n
  <2> QED BY <1>2, <1>4, <1>5, UpTo
<1>7. j - i \in 1 .. n /\ j - i # 0 /\ i + (j - i) = j
  BY <1>1, <1>2
<1>8. j - i \in T
  <2>1. j - i \in 0 .. n
    <3> HIDE DEF n
    <3> QED BY <1>2, <1>7
  <2>2. j - i \in U
    BY <1>6, <2>1
  <2> HIDE DEF T, n
  <2> QED BY <1>7, <2>2 DEF U
<1> QED BY <1>7, <1>8

\* What was left without an end is ended by what may follow, and nothing else is.
LEMMA EndedIs ==
  ASSUME NEW open, IsStack(open), NEW k, Unended(open, k), NEW tag,
         Holds(open[Len(open) - k].tag, tag),
         k > 0 => tag \in Follows(open[Len(open) - k + 1].tag),
         (\E i \in Len(open) - k + 1 .. Len(open) : open[i].tag = "p") => k = 1 /\ ClosesImplicitly("p", tag)
  PROVE  Ended(open, tag) = k
<1> DEFINE n == Len(open)
           T == {m \in 0 .. n - 1 : \A i \in n - m + 1 .. n : ClosesImplicitly(open[i].tag, tag)}
<1>1. n \in Nat /\ k \in 0 .. n - 1
  BY DEF IsStack, Unended
<1>2. ASSUME NEW i \in n - k + 1 .. n
      PROVE  ClosesImplicitly(open[i].tag, tag)
  <2> DEFINE last == open[n - k + 1].tag
  <2>1. n - k + 1 \in n - k + 1 .. n /\ k > 0
    BY <1>1
  <2>2. last \in Optional /\ open[i].tag \in Optional /\ tag \in Follows(last)
    BY <2>1 DEF Unended, Nested
  <2>3. CASE open[i].tag = "p"
    BY <2>3
  <2>4. CASE open[i].tag # "p" /\ i = n - k + 1
    BY <2>2, <2>4 DEF Optional, Follows, ClosesImplicitly
  <2>5. CASE open[i].tag # "p" /\ i # n - k + 1
    <3>1. i \in (n - k + 1) + 1 .. n /\ n - k + 1 \in n - k .. n
      BY <1>1, <2>1, <2>5
    <3>2. Rank(open[i].tag) < Rank(last)
      BY <3>1, RanksFall
    <3>3. last = "tr" /\ open[i].tag \in {"li", "td"}
      BY <2>2, <2>5, <3>2 DEF Rank, Optional
    <3>4. open[i].tag = "td"
      <4>1. CASE i = (n - k + 1) + 1
        <5>1. n - k + 1 \in 1 .. n - 1
          BY <1>1, <3>1
        <5>2. Holds("tr", open[i].tag)
          BY <3>3, <4>1, <5>1 DEF Unended, Nested
        <5> QED BY <5>2 DEF Holds, Flowing, Divisions
      <4>2. CASE i # (n - k + 1) + 1
        <5>1. (n - k + 1) + 1 \in n - k .. n /\ i \in ((n - k + 1) + 1) + 1 .. n /\ n - k + 1 \in 1 .. n - 1
          <6>1. k \in Nat /\ k >= 1 /\ i \in Nat /\ i > (n - k + 1) + 1 /\ i <= n
            BY <1>1, <2>1, <3>1, <4>2
          <6> HIDE DEF n
          <6> QED BY <1>1, <6>1
        <5>2. Rank(open[i].tag) < Rank(open[(n - k + 1) + 1].tag)
          BY <5>1, RanksFall
        <5>3. Holds("tr", open[(n - k + 1) + 1].tag)
          BY <3>3, <5>1 DEF Unended, Nested
        <5>4. open[(n - k + 1) + 1].tag = "td"
          BY <5>3 DEF Holds, Flowing, Divisions
        <5> QED BY <3>3, <5>2, <5>4 DEF Rank
      <4> QED BY <4>1, <4>2
    <3>5. tag = "tr"
      BY <2>2, <3>3 DEF Follows
    <3> QED BY <3>4, <3>5 DEF ClosesImplicitly
  <2> QED BY <2>3, <2>4, <2>5
<1>3. k \in T
  BY <1>1, <1>2
<1>4. ASSUME NEW m \in T PROVE m <= k
  <2> SUFFICES ASSUME m > k PROVE FALSE
    BY <1>1
  <2>1. n - k \in n - m + 1 .. n
    BY <1>1
  <2>2. ClosesImplicitly(open[n - k].tag, tag)
    BY <2>1
  <2> QED BY <2>2, ClosesHeld
<1>5. T \subseteq Nat
  BY <1>1
<1> HIDE DEF T
<1>6. Max(T) = k
  <2>1. k \in Nat /\ \A y \in T : k >= y
    BY <1>3, <1>4, <1>5
  <2>2. \A x \in T : (\A y \in T : x >= y) => x = k
    BY <1>3, <1>5, <2>1
  <2> QED BY <1>3, <2>1, <2>2 DEF Max
<1> QED BY <1>6 DEF Ended, T

LEMMA MatchIs ==
  ASSUME NEW open, IsStack(open), NEW k, Unended(open, k), Len(open) - k > 1
  PROVE  SoupEnds(open, open[Len(open) - k].tag) = LeavesN(open, k + 1)
<1> DEFINE n == Len(open)
           tag == open[n - k].tag
           T == {i \in 2 .. n : open[i].tag = tag}
<1>1. n \in Nat /\ k \in 0 .. n - 1
  BY DEF IsStack, Unended
<1>2. n - k \in T
  BY <1>1
<1>3. ASSUME NEW i \in T PROVE i <= n - k
  <2> SUFFICES ASSUME i > n - k PROVE FALSE
    BY <1>1
  <2>1. n - k \in n - k .. n /\ i \in (n - k) + 1 .. n
    BY <1>1
  <2>2. Rank(open[i].tag) \in Nat /\ Rank(open[i].tag) < Rank(tag)
    BY <2>1, RanksFall
  <2> QED BY <2>2
<1>4. T \subseteq Nat
  BY <1>1
<1> HIDE DEF T
<1>5. Max(T) = n - k
  <2>1. n - k \in Nat /\ \A y \in T : n - k >= y
    BY <1>2, <1>3, <1>4
  <2>2. \A x \in T : (\A y \in T : x >= y) => x = n - k
    BY <1>2, <1>4, <2>1
  <2> QED BY <1>2, <2>1, <2>2 DEF Max
<1>6. SoupEnds(open, tag) = LeavesN(open, n - Max(T) + 1)
  BY <1>2 DEF SoupEnds, T
<1>7. n - (n - k) + 1 = k + 1
  BY <1>1
<1> QED BY <1>5, <1>6, <1>7

\* What is open in the soup is what is meant and, inside of it, what was left without an end.
Vocabulary == {v.tags : v \in Vocabularies}
HandType   == [tags : Vocabulary, nodes : Nat, size : Nat, left : Seq(Optional), squeezed : BOOLEAN,
               cut : BOOLEAN, title : {"none", "own", "first"}]
Means ==
  LET k == Len(hand.left)
  IN  /\ IsStack(soup) /\ Unended(soup, k) /\ meant = LeavesN(soup, k)
      /\ \A i \in 1 .. k : soup[Len(soup) - i + 1].tag = hand.left[i]
SoupInv == hand \in HandType /\ (~hand.squeezed /\ ~hand.cut => Means)

LEMMA HandFields ==
  ASSUME hand \in HandType
  PROVE  hand.left \in Seq(Optional) /\ Len(hand.left) \in Nat /\ hand.size \in Nat
         /\ hand.squeezed \in BOOLEAN /\ hand.cut \in BOOLEAN
         /\ Written \in HandType /\ Written.left = << >> /\ Written.squeezed = hand.squeezed /\ Written.cut = hand.cut
         /\ Written.size = hand.size
<1>1. hand.left \in Seq(Optional) /\ hand.size \in Nat /\ hand.squeezed \in BOOLEAN /\ hand.cut \in BOOLEAN
  BY DEF HandType
<1>2. << >> \in Seq(Optional)
  BY EmptySeq
<1>3. Len(hand.left) \in Nat
  BY <1>1, LenProperties
<1> QED BY <1>1, <1>2, <1>3 DEF HandType, Written

\* What Means says of what the author means.
LEMMA MeantIs ==
  ASSUME hand \in HandType, Means
  PROVE  LET k == Len(hand.left)
         IN  /\ Len(soup) \in Nat /\ k \in 0 .. Len(soup) - 1
             /\ IsStack(meant) /\ Len(meant) = Len(soup) - k /\ Nested(meant)
             /\ \A i \in 1 .. Len(meant) : meant[i].tag = soup[i].tag
             /\ Innermost(meant) = soup[Len(soup) - k].tag
<1> DEFINE k == Len(hand.left)
<1>1. Len(soup) \in Nat /\ k \in 0 .. Len(soup) - 1 /\ IsStack(soup) /\ meant = LeavesN(soup, k) /\ Nested(soup)
  BY DEF Means, IsStack, Unended
<1> HIDE DEF k
<1>2. IsStack(meant) /\ Len(meant) = Len(soup) - k /\ \A i \in 1 .. Len(soup) - k : meant[i].tag = soup[i].tag
  BY <1>1, LeavesNIs
<1>3. Nested(meant)
  BY <1>1, <1>2 DEF Nested
<1>4. Innermost(meant) = soup[Len(soup) - k].tag
  BY <1>1, <1>2 DEF Innermost, Last
<1> QED BY <1>1, <1>2, <1>3, <1>4 DEF k

\* With nothing left out since the last tag, both are the same.
LEMMA EvenMeans ==
  ASSUME hand.left' = << >>, soup' = meant', IsStack(meant'), Len(meant') > 0, Nested(meant')
  PROVE  Means'
<1>1. Len(hand.left') = 0 /\ 1 .. 0 = {}
  BY EmptySeq
<1>2. LeavesN(soup', 0) = soup'
  BY LeavesNone
<1>3. Len(soup') \in Nat /\ 0 \in 0 .. Len(soup') - 1 /\ Len(soup') - 0 + 1 .. Len(soup') = {}
  BY DEF IsStack
<1>4. Unended(soup', 0)
  BY <1>3 DEF Unended
<1> QED BY <1>1, <1>2, <1>4 DEF Means

LEMMA NestedGives ==
  ASSUME NEW open, IsStack(open), Len(open) > 0, Nested(open), NEW node
  PROVE  /\ IsStack(Gives(open, node)) /\ Len(Gives(open, node)) > 0 /\ Nested(Gives(open, node))
         /\ IsNode(node) /\ Holds(Innermost(open), node.tag) =>
              IsStack(Enters(open, node)) /\ Len(Enters(open, node)) > 0 /\ Nested(Enters(open, node))
<1> DEFINE n == Len(open)
<1>1. n \in Nat
  BY DEF IsStack
<1>2. /\ IsStack(Gives(open, node)) /\ Len(Gives(open, node)) = n
      /\ \A i \in 1 .. n : Gives(open, node)[i].tag = open[i].tag
  BY GivesIs
<1>3. Nested(Gives(open, node))
  BY <1>1, <1>2 DEF Nested
<1>4. ASSUME IsNode(node), Holds(Innermost(open), node.tag)
      PROVE  IsStack(Enters(open, node)) /\ Len(Enters(open, node)) > 0 /\ Nested(Enters(open, node))
  <2>1. /\ IsStack(Enters(open, node)) /\ Len(Enters(open, node)) = n + 1
        /\ Enters(open, node)[n + 1].tag = node.tag
        /\ \A i \in 1 .. n : Enters(open, node)[i].tag = open[i].tag
    BY <1>4, EntersIs
  <2>2. ASSUME NEW i \in 1 .. n
        PROVE  Holds(Enters(open, node)[i].tag, Enters(open, node)[i + 1].tag)
    <3>1. CASE i = n
      BY <1>1, <1>4, <2>1, <3>1 DEF Innermost, Last
    <3>2. CASE i # n
      <4>1. i \in 1 .. n - 1 /\ i + 1 \in 1 .. n
        BY <1>1, <3>2
      <4> QED BY <2>1, <4>1 DEF Nested
    <3> QED BY <3>1, <3>2
  <2> HIDE DEF n
  <2>3. Nested(Enters(open, node))
    BY <1>1, <2>1, <2>2 DEF Nested
  <2> QED BY <1>1, <2>1, <2>3
<1> QED BY <1>1, <1>2, <1>3, <1>4

LEMMA SoupStart == HtmlNormalizeInit => SoupInv
<1> SUFFICES ASSUME HtmlNormalizeInit PROVE SoupInv
  OBVIOUS
<1> DEFINE body == Node("body", 0)
<1>1. PICK v \in Vocabularies :
        hand = [tags |-> v.tags, nodes |-> v.nodes, size |-> 0, left |-> << >>, squeezed |-> FALSE, cut |-> FALSE, title |-> "none"]
  BY DEF HtmlNormalizeInit
<1>2. << >> \in Seq(Optional) /\ v.nodes \in Nat
  BY EmptySeq, HtmlNormalizeConstants
<1>3. hand \in HandType /\ hand.left = << >>
  BY <1>1, <1>2 DEF HandType, Vocabulary
<1>4. IsNode(body)
  BY DEF IsNode, Node
<1> HIDE DEF body
<1>5. soup = <<body>> /\ meant = soup
  BY DEF HtmlNormalizeInit, BlankPage, body
<1>6. Len(soup) = 1 /\ soup \in Seq({body}) /\ soup[1] = body
  BY <1>5
<1>7. IsStack(soup)
  BY <1>4, <1>6, SeqStack
<1>8. Unended(soup, 0)
  BY <1>6 DEF Unended, Nested
<1>9. Len(hand.left) = 0 /\ LeavesN(soup, 0) = meant
  BY <1>3, <1>5, EmptySeq, LeavesNone
<1>10. Means
  BY <1>7, <1>8, <1>9 DEF Means
<1> QED BY <1>3, <1>10 DEF SoupInv

LEMMA OpenKeeps ==
  ASSUME SoupInv, NEW tag, Open(tag)
  PROVE  SoupInv'
<1> DEFINE k    == Len(hand.left)
           node == Node(tag, hand.size + 1)
           bad  == "p" \in Range(hand.left) /\ (k > 1 \/ ~ClosesImplicitly("p", tag))
<1>1. /\ hand \in HandType /\ hand.left \in Seq(Optional) /\ k \in Nat /\ hand.size \in Nat
      /\ hand.squeezed \in BOOLEAN /\ hand.cut \in BOOLEAN
      /\ Written \in HandType /\ Written.left = << >> /\ Written.squeezed = hand.squeezed /\ Written.cut = hand.cut
      /\ Written.size = hand.size
  BY HandFields DEF SoupInv
<1>2. /\ Holds(Innermost(meant), tag) /\ MayFollow(tag)
      /\ meant' = IF tag \in Void THEN Gives(meant, node) ELSE Enters(meant, node)
      /\ soup'  = IF hand.cut THEN soup ELSE SoupOpens(soup, node)
      /\ hand'  = [Written EXCEPT !.size = @ + 1, !.squeezed = @ \/ bad]
  BY DEF Open
<1>3. hand' \in HandType /\ hand'.left = << >> /\ hand'.cut = hand.cut /\ hand'.squeezed = (hand.squeezed \/ bad)
  <2> HIDE DEF bad
  <2>1. Written.size + 1 \in Nat /\ (Written.squeezed \/ bad) \in BOOLEAN
    BY <1>1
  <2> QED BY <1>1, <1>2, <2>1 DEF HandType
<1> SUFFICES ASSUME ~hand'.squeezed, ~hand'.cut
             PROVE  Means'
  BY <1>3 DEF SoupInv
<1>4. Means /\ ~hand.cut /\ ~bad
  BY <1>3 DEF SoupInv
<1>5. /\ IsStack(soup) /\ Unended(soup, k) /\ meant = LeavesN(soup, k)
      /\ \A i \in 1 .. k : soup[Len(soup) - i + 1].tag = hand.left[i]
  BY <1>4 DEF Means
<1>6. /\ Len(soup) \in Nat /\ k \in 0 .. Len(soup) - 1
      /\ IsStack(meant) /\ Len(meant) = Len(soup) - k /\ Nested(meant)
      /\ Innermost(meant) = soup[Len(soup) - k].tag
  BY <1>1, <1>4, MeantIs
<1>7. DOMAIN hand.left = 1 .. k
  BY <1>1, LenProperties
<1>8. k > 0 => tag \in Follows(soup[Len(soup) - k + 1].tag)
  <2> SUFFICES ASSUME k > 0 PROVE tag \in Follows(soup[Len(soup) - k + 1].tag)
    OBVIOUS
  <2>1. k \in 1 .. k /\ hand.left # << >>
    BY <1>1, EmptySeq
  <2>2. tag \in Follows(hand.left[k])
    BY <1>2, <2>1 DEF MayFollow, Last
  <2> HIDE DEF k
  <2> QED BY <1>5, <2>1, <2>2
<1>9. (\E i \in Len(soup) - k + 1 .. Len(soup) : soup[i].tag = "p") => k = 1 /\ ClosesImplicitly("p", tag)
  <2> SUFFICES ASSUME NEW i \in Len(soup) - k + 1 .. Len(soup), soup[i].tag = "p"
               PROVE  k = 1 /\ ClosesImplicitly("p", tag)
    OBVIOUS
  <2> DEFINE j == Len(soup) - i + 1
  <2>1. j \in 1 .. k /\ Len(soup) - j + 1 = i
    <3> HIDE DEF k
    <3> QED BY <1>6
  <2> HIDE DEF j
  <2>2. hand.left[j] = "p"
    BY <1>5, <2>1
  <2>3. "p" \in Range(hand.left)
    BY <1>7, <2>1, <2>2 DEF Range
  <2>4. ~(k > 1) /\ ClosesImplicitly("p", tag)
    BY <1>4, <2>3
  <2> HIDE DEF k
  <2> QED BY <1>6, <2>1, <2>4
<1> HIDE DEF k
<1>10. Ended(soup, tag) = k
  BY <1>2, <1>5, <1>6, <1>8, <1>9, EndedIs
<1>11. node.tag = tag /\ IsNode(node)
  BY DEF Node, IsNode
<1> HIDE DEF node
<1>12. soup' = meant'
  BY <1>2, <1>4, <1>5, <1>10, <1>11 DEF SoupOpens
<1>13. IsStack(meant') /\ Len(meant') > 0 /\ Nested(meant')
  <2>1. Len(meant) > 0
    BY <1>6
  <2>2. /\ IsStack(Gives(meant, node)) /\ Len(Gives(meant, node)) > 0 /\ Nested(Gives(meant, node))
        /\ IsStack(Enters(meant, node)) /\ Len(Enters(meant, node)) > 0 /\ Nested(Enters(meant, node))
    BY <1>2, <1>6, <1>11, <2>1, NestedGives
  <2> QED BY <1>2, <2>2
<1> QED BY <1>3, <1>12, <1>13, EvenMeans

LEMMA WriteKeeps == SoupInv /\ Write => SoupInv'
<1> SUFFICES ASSUME SoupInv, Write PROVE SoupInv'
  OBVIOUS
<1> DEFINE node == Node("text", hand.size + 1)
<1>1. /\ hand \in HandType /\ hand.left \in Seq(Optional) /\ Len(hand.left) \in Nat /\ hand.size \in Nat
      /\ Written \in HandType /\ Written.left = << >> /\ Written.squeezed = hand.squeezed /\ Written.cut = hand.cut
      /\ Written.size = hand.size
  BY HandFields DEF SoupInv
<1>2. /\ MayFollow("text") /\ meant' = Gives(meant, node)
      /\ hand' = [Written EXCEPT !.size = @ + 1] /\ soup' = IF hand.cut THEN soup ELSE Gives(soup, node)
  BY DEF Write
<1> HIDE DEF node
<1>3. hand' \in HandType /\ hand'.left = << >> /\ hand'.cut = hand.cut /\ hand'.squeezed = hand.squeezed
  <2>1. Written.size + 1 \in Nat
    BY <1>1
  <2> QED BY <1>1, <1>2, <2>1 DEF HandType
<1> SUFFICES ASSUME ~hand'.squeezed, ~hand'.cut
             PROVE  Means'
  BY <1>3 DEF SoupInv
<1>4. Means /\ ~hand.cut
  BY <1>3 DEF SoupInv
<1>5. hand.left = << >>
  <2> SUFFICES ASSUME hand.left # << >> PROVE FALSE
    OBVIOUS
  <2>1. Len(hand.left) \in 1 .. Len(hand.left)
    BY <1>1, EmptySeq
  <2>2. Last(hand.left) \in Optional
    BY <1>1, <2>1, ElementOfSeq DEF Last
  <2>3. "text" \in Follows(Last(hand.left))
    BY <1>2 DEF MayFollow
  <2> QED BY <2>2, <2>3 DEF Follows, Optional, Divisions, Titles
<1>6. Len(hand.left) = 0 /\ meant = soup
  BY <1>4, <1>5, EmptySeq, LeavesNone DEF Means
<1>7. IsStack(meant) /\ Len(meant) > 0 /\ Nested(meant)
  BY <1>1, <1>4, <1>6, MeantIs
<1>8. IsStack(meant') /\ Len(meant') > 0 /\ Nested(meant')
  BY <1>2, <1>7, NestedGives
<1>9. soup' = meant'
  BY <1>2, <1>4, <1>6
<1> QED BY <1>3, <1>8, <1>9, EvenMeans

LEMMA EndKeeps == SoupInv /\ End => SoupInv'
<1> SUFFICES ASSUME SoupInv, End PROVE SoupInv'
  OBVIOUS
<1> DEFINE k == Len(hand.left)
<1>1. /\ hand \in HandType /\ k \in Nat
      /\ Written \in HandType /\ Written.left = << >> /\ Written.squeezed = hand.squeezed /\ Written.cut = hand.cut
  BY HandFields DEF SoupInv
<1>2. /\ Len(meant) > 1 /\ meant' = Leaves1(meant) /\ hand' = Written
      /\ soup' = IF hand.cut THEN soup ELSE SoupEnds(soup, Innermost(meant))
  BY DEF End
<1> SUFFICES ASSUME ~hand'.squeezed, ~hand'.cut
             PROVE  Means'
  BY <1>1, <1>2 DEF SoupInv
<1>3. Means /\ ~hand.cut
  BY <1>1, <1>2 DEF SoupInv
<1>4. IsStack(soup) /\ Unended(soup, k) /\ meant = LeavesN(soup, k)
  BY <1>3 DEF Means
<1>5. /\ IsStack(meant) /\ Len(meant) = Len(soup) - k /\ Nested(meant)
      /\ Innermost(meant) = soup[Len(soup) - k].tag
  BY <1>1, <1>3, MeantIs
<1> HIDE DEF k
<1>6. SoupEnds(soup, Innermost(meant)) = LeavesN(soup, k + 1)
  BY <1>2, <1>4, <1>5, MatchIs
<1>7. soup' = meant'
  BY <1>1, <1>2, <1>3, <1>4, <1>6, LeavesMore
<1>8. /\ IsStack(meant') /\ Len(meant') = Len(meant) - 1
      /\ \A i \in 1 .. Len(meant) - 1 : meant'[i].tag = meant[i].tag
  BY <1>2, <1>5, Leaves1Is
<1>9. Len(meant) \in Nat
  BY <1>5 DEF IsStack
<1>10. Len(meant') > 0 /\ Nested(meant')
  <2>1. Len(meant') > 0
    BY <1>2, <1>8, <1>9
  <2>2. \A i \in 1 .. Len(meant') - 1 : i \in 1 .. Len(meant) - 1 /\ i + 1 \in 1 .. Len(meant) - 1
    BY <1>8, <1>9
  <2> QED BY <1>5, <1>8, <2>1, <2>2 DEF Nested
<1> QED BY <1>1, <1>2, <1>7, <1>8, <1>10, EvenMeans

LEMMA LeaveOutKeeps == SoupInv /\ LeaveOut => SoupInv'
<1> SUFFICES ASSUME SoupInv, LeaveOut PROVE SoupInv'
  OBVIOUS
<1> DEFINE k    == Len(hand.left)
           tag  == Innermost(meant)
           left == Append(hand.left, tag)
<1>1. hand \in HandType /\ k \in Nat /\ hand.left \in Seq(Optional)
  BY HandFields DEF SoupInv
<1>2. /\ Len(meant) > 1 /\ tag \in Optional /\ meant' = Leaves1(meant) /\ soup' = soup
      /\ hand' = [hand EXCEPT !.left = Append(@, Innermost(meant))]
  BY DEF LeaveOut
<1>3. left \in Seq(Optional) /\ Len(left) = k + 1 /\ left[k + 1] = tag /\ \A i \in 1 .. k : left[i] = hand.left[i]
  <2> HIDE DEF tag
  <2> QED BY <1>1, <1>2, AppendProperties
<1> HIDE DEF left
<1>4. hand' \in HandType /\ hand'.left = left /\ hand'.squeezed = hand.squeezed /\ hand'.cut = hand.cut
  BY <1>1, <1>2, <1>3 DEF HandType, left
<1> SUFFICES ASSUME ~hand'.squeezed, ~hand'.cut
             PROVE  Means'
  BY <1>4 DEF SoupInv
<1>5. Means
  BY <1>4 DEF SoupInv
<1>6. /\ IsStack(soup) /\ Unended(soup, k) /\ meant = LeavesN(soup, k)
      /\ \A i \in 1 .. k : soup[Len(soup) - i + 1].tag = hand.left[i]
  BY <1>5 DEF Means
<1>7. Len(soup) \in Nat /\ k \in 0 .. Len(soup) - 1 /\ Len(meant) = Len(soup) - k /\ tag = soup[Len(soup) - k].tag
  BY <1>1, <1>5, MeantIs
<1> HIDE DEF k, tag
<1>8. meant' = LeavesN(soup, k + 1)
  BY <1>1, <1>2, <1>6, LeavesMore
<1>9. \A i \in 1 .. k + 1 : soup[Len(soup) - i + 1].tag = left[i]
  <2> SUFFICES ASSUME NEW i \in 1 .. k + 1 PROVE soup[Len(soup) - i + 1].tag = left[i]
    OBVIOUS
  <2>1. CASE i = k + 1
    <3>1. Len(soup) - i + 1 = Len(soup) - k
      BY <1>1, <1>7, <2>1
    <3> QED BY <1>3, <1>7, <2>1, <3>1
  <2>2. CASE i \in 1 .. k
    BY <1>3, <1>6, <2>2
  <2> QED BY <1>1, <2>1, <2>2
<1>10. Unended(soup, k + 1)
  <2>1. k + 1 \in 0 .. Len(soup) - 1 /\ Len(soup) - (k + 1) + 1 = Len(soup) - k
    BY <1>1, <1>2, <1>7
  <2>2. \A i \in Len(soup) - k .. Len(soup) : i = Len(soup) - k \/ i \in Len(soup) - k + 1 .. Len(soup)
    BY <1>7
  <2>3. \A i \in Len(soup) - k .. Len(soup) : soup[i].tag \in Optional
    BY <1>2, <1>6, <1>7, <2>2 DEF Unended
  <2> QED BY <1>6, <2>1, <2>3 DEF Unended
<1> QED BY <1>2, <1>3, <1>4, <1>6, <1>8, <1>9, <1>10 DEF Means

LEMMA StrayEndKeeps ==
  ASSUME SoupInv, NEW tag, StrayEnd(tag)
  PROVE  SoupInv'
<1>1. /\ hand.left = << >> /\ \A i \in DOMAIN meant : meant[i].tag # tag
      /\ soup' = IF hand.cut THEN soup ELSE SoupEnds(soup, tag)
      /\ meant' = meant /\ hand' = hand
  BY DEF StrayEnd
<1>2. hand \in HandType
  BY DEF SoupInv
<1> SUFFICES ASSUME ~hand.squeezed, ~hand.cut
             PROVE  Means'
  BY <1>1, <1>2 DEF SoupInv
<1>3. Means
  BY DEF SoupInv
<1>4. meant = soup
  <2>1. Len(hand.left) = 0
    BY <1>1, EmptySeq
  <2> QED BY <1>3, <2>1, LeavesNone DEF Means
<1>5. IsStack(meant) /\ Len(meant) > 0 /\ Nested(meant)
  <2>1. Len(hand.left) = 0
    BY <1>1, EmptySeq
  <2> QED BY <1>2, <1>3, <2>1, MeantIs
<1>6. DOMAIN soup = 1 .. Len(soup) /\ Len(soup) \in Nat
  BY <1>4, <1>5, StackSeq
<1>7. {i \in 2 .. Len(soup) : soup[i].tag = tag} = {}
  <2>1. \A i \in 2 .. Len(soup) : i \in DOMAIN meant
    BY <1>4, <1>6
  <2> QED BY <1>1, <1>4, <2>1
<1>8. soup' = soup
  BY <1>1, <1>7 DEF SoupEnds
<1> QED BY <1>1, <1>4, <1>5, <1>8, EvenMeans

LEMMA SoupStays ==
  ASSUME SoupInv, meant' = meant, soup' = soup, hand' \in HandType, hand'.left = hand.left,
         hand'.squeezed = hand.squeezed, hand.cut => hand'.cut
  PROVE  SoupInv'
BY DEF SoupInv, Means

LEMMA SoupStep == SoupInv /\ [HtmlNormalizeNext]_<<meant, soup, hand>> => SoupInv'
<1> SUFFICES ASSUME SoupInv, [HtmlNormalizeNext]_<<meant, soup, hand>> PROVE SoupInv'
  OBVIOUS
<1>1. hand \in HandType
  BY DEF SoupInv
<1>2. ASSUME NEW title \in {"own", "first"}, GiveTitle(title) PROVE SoupInv'
  <2>1. /\ meant' = meant /\ soup' = soup /\ hand' \in HandType /\ hand'.left = hand.left
        /\ hand'.squeezed = hand.squeezed /\ hand'.cut = hand.cut
    BY <1>1, <1>2 DEF GiveTitle, HandType
  <2> QED BY <2>1, SoupStays
<1>3. ASSUME NEW end \in {"</script>", "</SCRIPT>"}, Script(end) PROVE SoupInv'
  <2>1. hand' = [hand EXCEPT !.cut = hand.cut \/ end = "</SCRIPT>"] /\ meant' = meant /\ soup' = soup
    BY <1>3 DEF Script
  <2>2. (hand.cut \/ end = "</SCRIPT>") \in BOOLEAN
    OBVIOUS
  <2>3. /\ hand' \in HandType /\ hand'.left = hand.left
        /\ hand'.squeezed = hand.squeezed /\ hand'.cut = (hand.cut \/ end = "</SCRIPT>")
    BY <1>1, <2>1, <2>2 DEF HandType
  <2> QED BY <2>1, <2>3, SoupStays
<1>4. ASSUME UNCHANGED <<meant, soup, hand>> PROVE SoupInv'
  BY <1>1, <1>4, SoupStays
<1> QED BY <1>2, <1>3, <1>4, OpenKeeps, StrayEndKeeps, WriteKeeps, EndKeeps, LeaveOutKeeps DEF HtmlNormalizeNext

\* At the end of the page what is open is closed, whatever it was.
LEMMA SoupMeant == SoupInv => SoupIsMeant
<1> SUFFICES ASSUME SoupInv, ~hand.squeezed, ~hand.cut
             PROVE  LeavesN(soup, Len(hand.left)) = meant /\ Closed(soup) = Closed(meant)
  BY DEF SoupIsMeant
<1> DEFINE k == Len(hand.left)
           m == Len(meant) - 1
<1>1. hand \in HandType /\ Means /\ meant = LeavesN(soup, k)
  BY DEF SoupInv, Means
<1>2. Len(soup) \in Nat /\ k \in 0 .. Len(soup) - 1 /\ Len(meant) = Len(soup) - k
  BY <1>1, MeantIs
<1> HIDE DEF k
<1>3. k \in Nat /\ m \in Nat /\ k + m = Len(soup) - 1
  BY <1>2
<1>4. LeavesN(meant, m) = LeavesN(soup, Len(soup) - 1)
  <2> HIDE DEF m
  <2> QED BY <1>1, <1>3, LeavesSum
<1> QED BY <1>1, <1>4 DEF Closed, k

\* The page that the importer reads is the one the author means, however long and deep it is, whatever end
\* tags he leaves out and whatever is left over, but for what the property names.
THEOREM SoupAlwaysMeant == HtmlNormalizeSpec => []SoupIsMeant
<1>1. HtmlNormalizeSpec => []SoupInv
  BY SoupStart, SoupStep, PTL DEF HtmlNormalizeSpec
<1>2. SoupInv => SoupIsMeant
  BY SoupMeant
<1> QED BY <1>1, <1>2, PTL
=============================================================================
