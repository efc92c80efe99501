------------------------------ MODULE Headings ------------------------------
(***************************************************************************)
(* Which headings of content.md bind a section of the schema: those the    *)
(* C reader's line scanner finds (micro/src/anchors.c) and those           *)
(* parse_headings finds at the top level (serialize/markdown.cpp), which   *)
(* rests on the blocks md4c makes of the lines.                            *)
(*                                                                         *)
(* A line is its indent in columns, at most one mark of a quote or a list  *)
(* item, what follows that after a space, and whether it ends in {#id}.    *)
(* Left out: inline syntax, tables, link reference definitions, and md4c's *)
(* reading of a line's offset as a block where it asks whether a list item *)
(* is still empty.                                                         *)
(***************************************************************************)
EXTENDS Integers, Sequences, SequencesExt

CONSTANTS
  Indents, \* columns before a line's first character
  MaxLines \* bound: lines of a document

Marks  == {"none", "quote", "bullet", "first", "second"}   \* "", ">", "*", "1.", "2."
Fences == {"ticks", "info", "long", "tildes"}              \* three of a kind, three and a word, four; three of the other kind
Bodies == Fences \union {"blank", "text", "atx", "equals", "dashes", "html"}

VARIABLES
  scan,  \* what both have made of the lines so far
  lines  \* how many these are, for the bound

ASSUME HeadingsConstants == Indents \subseteq Nat /\ MaxLines \in Nat

Lines == {l \in [indent : Indents, mark : Marks, body : Bodies, anchored : BOOLEAN] :
            l.anchored => l.body \in {"text", "atx"}}

CodeIndent == 4   \* columns from which a line is indented code

Fence(body) == [char |-> IF body = "tildes" THEN "tilde" ELSE "tick", run |-> IF body = "long" THEN 4 ELSE 3]
NoFence     == [char |-> "none", run |-> 0]

\* The run of a line that may close this fence.
Matches(fence, body) ==
  body \in Fences /\ Fence(body).char = fence.char /\ Fence(body).run >= fence.run

----------------------------------------------------------------------------
(* The C reader: the open fence, and whether the line before may be the     *)
(* text of a setext heading.                                                *)

MicroStart == [fence |-> NoFence, prev |-> FALSE, id |-> FALSE, finds |-> FALSE]

Shallow(l) == l.mark = "none" /\ l.indent < CodeIndent

\* Mutant: any fence closes any other.
ClosesAny(fence, l) == Shallow(l) /\ l.body \in Fences
\* mm_fence against the open one: whatever follows the run.
Closes(fence, l) == Shallow(l) /\ Matches(fence, l.body)

\* mm_setext_candidate, for a line that opens no fence and is no ATX heading.
Candidate(l) == Shallow(l) /\ l.body # "blank"

\* mm_anchor_walk, for one line.
MicroScan(m, l) ==
  IF m.fence # NoFence
  THEN [MicroStart EXCEPT !.fence = IF Closes(m.fence, l) THEN NoFence ELSE m.fence]
  ELSE IF Shallow(l) /\ l.body \in Fences THEN [MicroStart EXCEPT !.fence = Fence(l.body)]
  ELSE IF Shallow(l) /\ l.body = "atx"    THEN [MicroStart EXCEPT !.finds = l.anchored]
  ELSE IF Shallow(l) /\ l.body \in {"equals", "dashes"} /\ m.prev
       THEN [MicroStart EXCEPT !.finds = m.id]
  ELSE [MicroStart EXCEPT !.prev = Candidate(l), !.id = Candidate(l) /\ l.anchored]

----------------------------------------------------------------------------
(* md4c, and parse_headings on top of it.  inside: the open quotes and list *)
(* items, outermost first, with the columns at which their contents start;  *)
(* leaf: the block the next line may continue (pivot_line); hollow: the     *)
(* innermost list item has nothing in it yet (1), nor in a line after (2).  *)

MdStart == [inside |-> << >>, leaf |-> "none", fence |-> NoFence, id |-> FALSE,
            hollow |-> 0, finds |-> FALSE]

\* md_is_container_mark: 1. and 2. belong to one list, and a space belongs to the mark.
Opens(mark, indent) ==
  [char |-> IF mark = "second" THEN "first" ELSE mark,
   inner |-> indent + (IF mark \in {"quote", "bullet"} THEN 1 ELSE 2) + 1]

\* The containers the line is in, from the outermost, and the indent and the mark that are
\* left of it then.
Enter(at, c) ==
  IF at.out THEN at
  ELSE IF c.char = "quote" /\ at.mark = "quote" /\ at.indent < CodeIndent
       THEN [at EXCEPT !.n = @ + 1, !.mark = "none", !.indent = 0]
  ELSE IF c.char # "quote" /\ at.indent >= c.inner
       THEN [at EXCEPT !.n = @ + 1, !.indent = @ - c.inner]
  ELSE [at EXCEPT !.out = TRUE]

\* A blank line is in every list item up to the next quote.
Blank(at, l) == at.mark = "none" /\ l.body = "blank"
UpToQuote(inside, n) ==
  LET quotes == {i \in n + 1 .. Len(inside) : inside[i].char = "quote"}
  IN  IF quotes = {} THEN Len(inside) ELSE (CHOOSE i \in quotes : \A j \in quotes : i <= j) - 1
Into(inside, l, at) == IF Blank(at, l) THEN [at EXCEPT !.n = UpToQuote(inside, @)] ELSE at
Within(inside, l) ==
  Into(inside, l, FoldLeft(Enter, [n |-> 0, indent |-> l.indent, mark |-> l.mark, out |-> FALSE], inside))

\* After two blank lines at its start the list item is over, for the first line that is not.
LeaveHollow(md, l, in) ==
  LET outer == IF in.n = 1 THEN 0 ELSE md.inside[in.n - 1].inner
  IN  IF Blank(in, l) \/ md.hollow < 2 \/ in.n < Len(md.inside) THEN in
      ELSE [in EXCEPT !.n = @ - 1, !.indent = IF l.indent < outer THEN 0 ELSE l.indent - outer]
Place(md, l) == LeaveHollow(md, l, Within(md.inside, l))

\* A mark opens an item: the next of its list, which closes what is open in the last one, or
\* of a new list; that takes more inside a paragraph.
Brother(md, at) ==
  /\ at.n < Len(md.inside) /\ at.indent < CodeIndent /\ at.mark \notin {"none", "quote"}
  /\ md.inside[at.n + 1].char = Opens(at.mark, at.indent).char
  /\ at.indent <= md.inside[at.n + 1].inner
Child(md, at, l) ==
  /\ at.mark # "none" /\ at.indent < CodeIndent
  /\ \/ md.leaf # "text"
     \/ at.n < Len(md.inside)
     \/ at.mark # "second" /\ (l.body = "blank" => at.mark = "quote")

\* Looking whether a line closes the fence eats the fence's own characters, and a line that is
\* not in the fence's containers is then read from there on.
Eaten(md, in, body) ==
  IF /\ md.leaf = "fenced" /\ md.fence.char = "tick" /\ body \in {"ticks", "info"}
     /\ in.mark = "none" /\ in.indent < CodeIndent
  THEN IF body = "info" THEN "text" ELSE "blank"
  ELSE body

\* What a line makes of the leaf: body is what is left of it after indent columns, or "text"
\* where a mark is no mark; all: no container is left by it.
Leaf(md, inside, all, indent, body, l) ==
  LET to    == [MdStart EXCEPT !.inside = inside]
      level == indent < CodeIndent
  IN  IF body = "blank" THEN to
      ELSE IF level /\ body \in {"equals", "dashes"} /\ md.leaf = "text" /\ all
           THEN [to EXCEPT !.finds = md.id /\ inside = << >>]
      ELSE IF level /\ body = "dashes" THEN to
      ELSE IF ~level /\ md.leaf # "text" THEN [to EXCEPT !.leaf = "code"]
      ELSE IF level /\ body = "atx" THEN [to EXCEPT !.finds = l.anchored /\ inside = << >>]
      ELSE IF level /\ body \in Fences THEN [to EXCEPT !.leaf = "fenced", !.fence = Fence(body)]
      ELSE IF body = "html" THEN [to EXCEPT !.leaf = "html"]
      \* A line of text continues a paragraph whatever containers it is in.
      ELSE [to EXCEPT !.leaf = "text", !.id = l.anchored,
                      !.inside = IF md.leaf = "text" THEN md.inside ELSE inside]

\* md_analyze_line and md_process_line, for one line and the containers it is in.
MdLine(md, l, at) ==
  LET all   == at.n = Len(md.inside)
      into  == SubSeq(md.inside, 1, at.n)
      blank == Blank(at, l)
  IN  IF /\ md.leaf = "fenced" /\ at.mark = "none" /\ at.indent < CodeIndent
         /\ l.body # "info" /\ Matches(md.fence, l.body)
      THEN [MdStart EXCEPT !.inside = into]
      ELSE IF all /\ (md.leaf = "fenced" \/ md.leaf = (IF blank THEN "code" ELSE "html"))
      THEN [md EXCEPT !.finds = FALSE]
      ELSE IF blank
      THEN [MdStart EXCEPT !.inside = into, !.hollow = IF all /\ md.hollow > 0 THEN 2 ELSE 0]
      ELSE IF Brother(md, at) \/ Child(md, at, l)
      THEN [Leaf(MdStart, Append(into, Opens(at.mark, at.indent)), TRUE, 0, l.body, l)
              EXCEPT !.hollow = IF l.body = "blank" /\ at.mark # "quote" THEN 1 ELSE 0]
      ELSE Leaf(md, into, all, at.indent, IF at.mark = "none" THEN Eaten(md, at, l.body) ELSE "text", l)
MdScan(md, l) == MdLine(md, l, Place(md, l))

----------------------------------------------------------------------------
(* Both over the same lines.  strays: the constructs they are known to take *)
(* differently, since they were last both between two blocks.               *)

Settled(s) ==
  /\ s.m.fence = NoFence /\ ~s.m.prev
  /\ s.md.leaf = "none" /\ s.md.inside = << >>

Strays(s, l) ==
  {c \in {"nested", "html", "closer", "continued"} :
     CASE c = "nested"    -> l.mark # "none"
       [] c = "html"      -> l.body = "html"
       [] c = "closer"    -> l.body = "info" /\ s.m.fence # NoFence
       [] c = "continued" -> l.indent >= CodeIndent /\ l.body # "blank" /\ s.md.leaf = "text"}

ScanStart  == [m |-> MicroStart, md |-> MdStart, strays |-> {}]
Scan(s, l) == [m |-> MicroScan(s.m, l), md |-> MdScan(s.md, l),
               strays |-> (IF Settled(s) THEN {} ELSE s.strays) \union Strays(s, l)]

HeadingsInit == scan = ScanStart /\ lines = 0
ReadLine     == lines < MaxLines /\ lines' = lines + 1
HeadingsNext == ReadLine /\ \E l \in Lines : scan' = Scan(scan, l)
HeadingsSpec == HeadingsInit /\ [][HeadingsNext]_<<scan, lines>>

\* Every heading that can bind a section is found by both or by neither, in whatever order the
\* blocks of the document follow each other, up to the four constructs that a scan of lines
\* cannot tell: marks of quotes and lists, raw HTML, a fence with text behind it inside a
\* fence, and an indented line that continues a paragraph; and these do no harm past the
\* point where both are between two blocks again (mm_anchor_walk, parse_headings).
AnchorsAgree == scan.strays = {} => scan.m.finds = scan.md.finds
=============================================================================
