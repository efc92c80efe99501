----------------------------- MODULE RenderWalk -----------------------------
(***************************************************************************)
(* The C renderer over a whole content.md: parsed at once, or walked       *)
(* window by window with the link reference definitions carried in front   *)
(* (micro/render/render.c).  Where a window may be cut is Windows; here    *)
(* the blocks are whole, and what counts is which definitions a window     *)
(* sees, what the carried lines tell, and that one document is told.       *)
(*                                                                         *)
(* There is one label.  A block is a line or a few and the blank line      *)
(* behind it; room and size are in lines.  A callback sees of a block its  *)
(* kind and where the link in it leads, if it is a link at all.            *)
(***************************************************************************)
EXTENDS Integers, Sequences, SequencesExt

CONSTANTS
  NoLink,    \* the text of a link whose label is not defined
  Targets,   \* where definitions lead
  Members,   \* of these, the members of the container
  Buffers,   \* buffer lengths a caller may have
  MaxBlocks  \* bound: blocks of a document

ASSUME RenderWalkConstants ==
  MaxBlocks \in Nat /\ Buffers \subseteq Nat /\ Members \subseteq Targets /\ NoLink \notin Targets

VARIABLES
  page,  \* content.md: its blocks, and whether it is sealed
  iter,  \* mcdf_micro_render_iter, and how the walk stands
  told   \* the events so far

\* use: a paragraph with a link by the label; def: its definition; alike: a paragraph that
\* starts with [other]: and is no definition; and a definition's line where it is none or not
\* the whole of it: in a paragraph, in a fence, in a quote, too long for a line buffer, and
\* with the target on the next line.
Defining == {"def", "quoted", "long", "split"}
Looking  == {"def", "alike", "inside", "fenced", "quoted", "long", "split"}
Blocks   == [kind : {"use", "alike"}, to : {NoLink}] \union [kind : Looking \ {"alike"}, to : Targets]

Height(b) == CASE b.kind \in {"use", "def", "alike", "quoted", "long"} -> 2
               [] b.kind \in {"inside", "split"} -> 3
               [] b.kind = "fenced" -> 4
LinesOf(bs) == FoldLeft(LAMBDA n, b : n + Height(b), 0, bs)

----------------------------------------------------------------------------
(* md4c over blocks that follow each other, and the renderer's events.      *)

\* The first definition counts.
Resolved(bs) ==
  LET first == SelectInSeq(bs, LAMBDA b : b.kind \in Defining)
  IN  IF first = 0 THEN NoLink ELSE bs[first].to

Event(name, to) == [event |-> name, link |-> to, member |-> to \in Members]
DocEnter == <<Event("enter doc", NoLink)>>
DocLeave == <<Event("leave doc", NoLink)>>

\* mm_enter_block to mm_text, for one block.  A label inside a paragraph is a link as well.
EventsOf(b, dest) ==
  CASE b.kind \in {"def", "long", "split"} -> << >>
    [] b.kind = "use"    -> <<Event("p", dest)>>
    [] b.kind = "alike"  -> <<Event("p", NoLink)>>
    [] b.kind = "inside" -> <<Event("p", dest)>>
    [] b.kind = "fenced" -> <<Event("code", NoLink)>>
    [] b.kind = "quoted" -> <<Event("quote", NoLink)>>
Events(bs, dest) == FoldLeft(LAMBDA es, b : es \o EventsOf(b, dest), << >>, bs)

\* mcdf_micro_render.
TellWhole(bs) == DocEnter \o Events(bs, Resolved(bs)) \o DocLeave

----------------------------------------------------------------------------
(* The definitions carried: mm_collect_refs, line by line.                  *)

\* Mutant: the lines in a fence are looked at too.
CarriesAll(b) == b.kind \in {"def", "alike", "inside", "split", "fenced"}
\* A line of the block looks like a definition: not in a fence, not behind a mark, and not
\* where the line buffer is too short.
Carries(b) == b.kind \in {"def", "alike", "inside", "split"}

\* The carried lines follow each other without a blank, so from the first that is no definition
\* on they are one paragraph.
CarriedLines(bs) == FoldLeft(LAMBDA carried, b : IF Carries(b) THEN Append(carried, b) ELSE carried, << >>, bs)
NoDefinition(b)  == b.kind \in {"alike", "split"}
Definitions(carried) ==
  LET bad == SelectInSeq(carried, NoDefinition)
  IN  IF bad = 0 THEN carried ELSE SubSeq(carried, 1, bad - 1)
\* What is left of them as a paragraph, its text left out, and the block a window takes a carried line for.
AsDefinition(b) == [kind |-> "def", to |-> b.to]
Stray(carried)  == IF Definitions(carried) = carried THEN << >> ELSE <<Event("stray", NoLink)>>

PrefixLines(carried) == IF carried = << >> THEN 0 ELSE Len(carried) + 1

----------------------------------------------------------------------------
(* The walk.                                                                *)

NoWalk == [status |-> "none", carried |-> << >>, at |-> 0, room |-> 0]
Stops(status) == iter' = [iter EXCEPT !.status = status]

\* content.md is written, or sealed, before anybody reads it.  Of two definitions that are split
\* one would be carried as the other's target; one at most is written.
AddBlock(b) ==
  /\ iter = NoWalk /\ ~page.sealed /\ Len(page.blocks) < MaxBlocks
  /\ b.kind = "split" => \A i \in DOMAIN page.blocks : page.blocks[i].kind # "split"
  /\ page' = [page EXCEPT !.blocks = Append(@, b)] /\ UNCHANGED <<iter, told>>
SealPage ==
  /\ iter = NoWalk /\ ~page.sealed
  /\ page' = [page EXCEPT !.sealed = TRUE] /\ UNCHANGED <<iter, told>>

\* mcdf_micro_render_begin, which reads the document once.
RenderBegin(room) ==
  LET carried == CarriedLines(page.blocks)
  IN  /\ iter = NoWalk /\ UNCHANGED <<page, told>>
      /\ iter' = [status |-> IF page.sealed THEN "E_CONTENT_SEALED"
                             ELSE IF PrefixLines(carried) >= room THEN "E_RANGE" ELSE "walking",
                  carried |-> carried, at |-> 0, room |-> room]
BeginFails == iter = NoWalk /\ Stops("E_IO") /\ UNCHANGED <<page, told>>

Walking == iter.status = "walking"
Rest    == SubSeq(page.blocks, iter.at + 1, Len(page.blocks))
Space   == iter.room - PrefixLines(iter.carried)

\* mm_window_end: the last block that the window shows the start of, and that is no quote,
\* ends it; all of the rest, if that fits.
WindowEnds ==
  IF LinesOf(Rest) <= Space THEN {Len(Rest)}
  ELSE {n \in 1 .. Len(Rest) - 1 : LinesOf(SubSeq(Rest, 1, n)) < Space /\ Rest[n + 1].kind # "quoted"}
WindowEnd == CHOOSE n \in WindowEnds : \A m \in WindowEnds : m <= n

\* Mutant: the document is closed after a window that reaches its last block.
LastEarly(n) == iter.at + n >= Len(page.blocks) - 1
\* The document is closed after the last window.
LastWindow(n) == iter.at + n >= Len(page.blocks)

\* What md4c makes of the carried lines and n blocks, with the document opened at the first
\* window and closed at the last.
WindowEvents(n) ==
  LET window == SubSeq(Rest, 1, n)
      defs   == [i \in DOMAIN Definitions(iter.carried) |-> AsDefinition(iter.carried[i])]
  IN  (IF iter.at = 0 THEN DocEnter ELSE << >>) \o Stray(iter.carried)
        \o Events(window, Resolved(defs \o window)) \o (IF LastWindow(n) THEN DocLeave ELSE << >>)

\* mcdf_micro_render_next.
RenderNothing == Walking /\ Rest = << >> /\ Stops("done") /\ UNCHANGED <<page, told>>
RenderNext ==
  /\ Walking /\ Rest # << >> /\ WindowEnds # {}
  /\ told' = told \o WindowEvents(WindowEnd)
  /\ iter' = [iter EXCEPT !.at = @ + WindowEnd, !.status = IF LastWindow(WindowEnd) THEN "done" ELSE @]
  /\ UNCHANGED page
TooSmall  == Walking /\ Rest # << >> /\ WindowEnds = {} /\ Stops("E_RANGE") /\ UNCHANGED <<page, told>>
ReadFails == Walking /\ Rest # << >> /\ Stops("E_IO") /\ UNCHANGED <<page, told>>
\* A callback stops the parse at one of the window's events, or md4c runs out of memory.
ParseStops ==
  /\ Walking /\ Rest # << >> /\ WindowEnds # {}
  /\ \E k \in 0 .. Len(WindowEvents(WindowEnd)), status \in {"E_ABORTED", "E_PARSE"} :
       /\ status = "E_ABORTED" => k > 0
       /\ told' = told \o SubSeq(WindowEvents(WindowEnd), 1, k) /\ Stops(status)
  /\ UNCHANGED page

PageStart == [blocks |-> << >>, sealed |-> FALSE]
RenderWalkInit == page = PageStart /\ iter = NoWalk /\ told = << >>
RenderWalkNext ==
  \/ \E b \in Blocks : AddBlock(b)
  \/ SealPage \/ BeginFails \/ RenderNothing \/ RenderNext \/ TooSmall \/ ReadFails \/ ParseStops
  \/ \E room \in Buffers : RenderBegin(room)
RenderWalkSpec == RenderWalkInit /\ [][RenderWalkNext]_<<page, iter, told>>

----------------------------------------------------------------------------
\* However many windows it takes, and wherever it stops, the walk tells the document as parsing
\* it whole does: opened once, closed once and only at its end, its links leading where they
\* would, and all of it if the walk says it is done.  Nothing is told of a sealed document.
\* Excepted are documents with one of the five lines that mm_collect_refs takes for a
\* definition and md4c does not, or the other way round, and the empty one, of which the walk
\* tells nothing at all.
WalkTellsTheWhole ==
  \/ \E i \in DOMAIN page.blocks : page.blocks[i].kind \in {"alike", "split", "inside", "quoted", "long"}
  \/ page.blocks = << >>
  \/ /\ IsPrefix(told, TellWhole(page.blocks))
     /\ iter.status = "done" => told = TellWhole(page.blocks)
     /\ page.sealed => told = << >>
=============================================================================
