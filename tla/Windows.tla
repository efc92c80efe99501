------------------------------- MODULE Windows -------------------------------
(***************************************************************************)
(* The C renderer's walk over content.md a window at a time                *)
(* (micro/render/render.c): a window is read, cut where a block at the top *)
(* level starts (mm_window_end), and what is before the cut is given to    *)
(* md4c alone.  The cut is looked for in single lines; whether it shows is *)
(* decided by the blocks md4c makes of the whole document (Headings).      *)
(*                                                                         *)
(* Which cut of those in a window is taken depends on the room in the      *)
(* caller's buffer, which is any; so every cut is looked at.  A scan that  *)
(* starts at a cut goes on as the one that found it.  Raw HTML is off in   *)
(* the renderer.  Link reference definitions are left out.                 *)
(***************************************************************************)
EXTENDS Headings

VARIABLE walk   \* what the walk and md4c have made of the lines so far

WindowLines == {l \in Lines : l.body # "html"}
WindowStart == [fence |-> NoFence, blank |-> FALSE]

\* mm_window_end, for one line: the open fence, and a blank line before.
WindowScan(w, l) ==
  IF w.fence # NoFence
  THEN [WindowStart EXCEPT !.fence = IF Closes(w.fence, l) THEN NoFence ELSE w.fence]
  ELSE IF Shallow(l) /\ l.body \in Fences THEN [WindowStart EXCEPT !.fence = Fence(l.body)]
  ELSE [WindowStart EXCEPT !.blank = l.mark = "none" /\ l.body = "blank"]

\* Mutant: a line with a mark starts a block like any other.
StartsAny(l) == l.indent < CodeIndent /\ (l.mark # "none" \/ l.body # "blank")
\* mm_starts_top_block: not one with a mark, which may belong to a list that is open.
StartsTopBlock(l) == Shallow(l) /\ l.body # "blank"

\* Of a number and its dot the window may show the number alone.
NumberOnly(l) == l.mark \in {"first", "second"} /\ l.indent < CodeIndent

\* The cuts there may be behind these lines: the line after, and whether the window shows all of
\* it.  A fence is one only where the window ends in it.
Cuts(w) ==
  IF ~w.blank THEN {}
  ELSE [line : {l \in WindowLines : StartsTopBlock(l) /\ l.body \notin Fences}, shown : {"all"}]
         \union [line : {l \in WindowLines : StartsTopBlock(l) \/ NumberOnly(l)}, shown : {"part"}]

\* Nobody can tell that the line was parsed as the first of a document: it is in no quote and
\* no item that is open, is not the next item of a list, and continues no block.
Invisible(md, l) ==
  /\ Place(md, l).n = 0 /\ ~Brother(md, Place(md, l))
  /\ md.inside = << >> => md.leaf \in {"none", "code"}
  /\ MdScan(md, l) = MdScan(MdStart, l)

----------------------------------------------------------------------------
(* Both over the same lines.  astray: a fence that only one of the two sees *)
(* opened or closed, one in a quote or a list item or a run with text       *)
(* behind it inside a fence, since they last agreed that nothing is open.   *)

Astray(s, l) ==
  /\ l.body \in Fences
  /\ \/ l.mark # "none" \/ s.md.inside # << >>
     \/ l.body = "info" /\ s.w.fence # NoFence
Agreed(s) == s.md.leaf = "none" /\ s.md.inside = << >> /\ s.w.fence = NoFence

WalkStart  == [md |-> MdStart, w |-> WindowStart, astray |-> FALSE]
Walk(s, l) == [md |-> MdScan(s.md, l), w |-> WindowScan(s.w, l),
               astray |-> (s.astray /\ ~Agreed(s)) \/ Astray(s, l)]

WindowsInit == walk = WalkStart /\ lines = 0
WindowsNext == ReadLine /\ \E l \in WindowLines : walk' = Walk(walk, l)
WindowsSpec == WindowsInit /\ [][WindowsNext]_<<walk, lines>>

\* A window ends between two blocks of the top level, so its events are those of the whole
\* document (mcdf_micro_render.h: "never inside one, so a list, block quote or fenced code
\* block is never split").  It is not so for a line that is indented into an open list item,
\* which is taken for a block of its own and the list split there; for a numbered item of
\* which the window shows only the number; and where the two see different fences.
WindowsExact ==
  \A cut \in Cuts(walk.w) :
    LET l == cut.line
    IN  \/ Invisible(walk.md, l)
        \/ l.indent > 0 /\ Place(walk.md, l).n > 0
        \/ cut.shown = "part" /\ NumberOnly(l)
        \/ walk.astray /\ ~Agreed(walk)
        \/ Astray(walk, l)
=============================================================================
