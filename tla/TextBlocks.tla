----------------------------- MODULE TextBlocks -----------------------------
(***************************************************************************)
(* The plain text of content.md, as the C++ library makes it from md4c's   *)
(* callbacks (markdown_to_text) and the TypeScript engine from micromark's *)
(* tokens (renderText): which text goes into which block of the output.    *)
(*                                                                         *)
(* The document is walked as both parsers report it.  What a tight list's  *)
(* item says is a paragraph to micromark, and to md4c text of no block of  *)
(* its own (bare).  Words are numbered as they come.                       *)
(***************************************************************************)
EXTENDS Integers, Sequences, SequencesExt

CONSTANTS
  MaxNesting, \* bound: blocks around a text
  MaxOpened,  \* bound: blocks of a document
  MaxTexts    \* bound: its words and breaks

ASSUME TextBlocksConstants == {MaxNesting, MaxOpened, MaxTexts} \subseteq Nat

VARIABLE prose   \* the document up to here, and what both have made of it

Containers == {"quote", "item", "tight item"}   \* lists show only in their items
Leaves     == {"p", "bare", "h", "code", "hr"}
\* A break is what ends a line; an anchor, a word of the form {#id}.
Words      == {"word", "anchor", "nul"}
Breaks     == {"soft", "hard"}

\* Blocks that are done, and the one that is being filled.
NoText == [out |-> << >>, block |-> << >>]

Trim(b) ==
  LET words == {i \in DOMAIN b : b[i].type \notin Breaks}
  IN  IF words = {} THEN << >>
      ELSE SubSeq(b, CHOOSE i \in words : \A j \in words : i <= j, CHOOSE i \in words : \A j \in words : j <= i)
Appended(out, b) == IF Trim(b) = << >> THEN out ELSE Append(out, Trim(b))
FlushBlock(r)         == [out |-> Appended(r.out, r.block), block |-> << >>]
Gets(r, t)       == [r EXCEPT !.block = Append(@, t)]

\* A heading's text without the anchor at its end (split_heading_id, splitHeadingId).
Unanchored(b) ==
  IF Trim(b) # << >> /\ Last(Trim(b)).type = "anchor" THEN SubSeq(Trim(b), 1, Len(Trim(b)) - 1) ELSE b
FlushHeading(r) == FlushBlock([r EXCEPT !.block = Unanchored(@)])

\* Mutant: blocks are ended only when they are left.
CppEnterKeeps(r, kind) == r
\* text_enter_block.
CppEnter(r, kind) == IF kind = "bare" THEN r ELSE FlushBlock(r)
\* text_leave_block.
CppLeave(r, kind) ==
  CASE kind = "h" -> FlushHeading(r)
    [] kind \in {"p", "code", "item", "tight item"} -> FlushBlock(r)
    [] OTHER -> r
\* text_cb.
CppText(r, t) == IF t.type = "nul" THEN r ELSE Gets(r, t)

\* renderText: the handlers of its tokens.
TsLeave(r, kind) ==
  CASE kind = "h" -> FlushHeading(r)
    [] kind \in {"p", "bare", "code"} -> FlushBlock(r)
    [] OTHER -> r
TsText(r, t) == Gets(r, t)

----------------------------------------------------------------------------
(* The document: open, the blocks it is in; last, the leaf before in the     *)
(* list item; leaf, the texts of the one it is in; meant, those of all.      *)

Around == IF prose.open = << >> THEN "none" ELSE Last(prose.open)
InLeaf == Around \in Leaves

\* A tight item has no paragraphs; its bare text does not follow text it would continue.
FitsIn(kind) ==
  CASE kind = "bare" -> Around = "tight item" /\ prose.last \notin {"p", "bare"}
    [] kind = "p"    -> Around # "tight item"
    [] OTHER         -> TRUE

EnterBlock(kind) ==
  /\ ~InLeaf /\ FitsIn(kind) /\ prose.opened < MaxOpened
  /\ Len(prose.open) < IF kind \in Leaves THEN MaxNesting + 1 ELSE MaxNesting
  /\ prose' = [prose EXCEPT !.open = Append(@, kind), !.opened = @ + 1, !.cpp = CppEnter(@, kind),
                            !.last = IF kind \in {"item", "tight item"} THEN "none" ELSE @]

AddText(type) ==
  /\ InLeaf /\ Around # "hr" /\ prose.texts < MaxTexts
  /\ type \in Breaks => prose.leaf # << >> /\ Last(prose.leaf).type \notin Breaks
  /\ LET t == [n |-> prose.texts, type |-> type]
     IN  prose' = [prose EXCEPT !.texts = @ + 1, !.leaf = Append(@, t),
                                !.cpp = CppText(@, t), !.ts = TsText(@, t)]

LeaveBlock ==
  /\ prose.open # << >>
  /\ prose.leaf = << >> => Around \notin {"p", "bare"}
  /\ prose.leaf # << >> => Last(prose.leaf).type \notin Breaks
  /\ prose' = [prose EXCEPT !.open = Front(@), !.leaf = << >>,
                            !.last = IF InLeaf THEN Around ELSE @,
                            !.cpp = CppLeave(@, Around), !.ts = TsLeave(@, Around),
                            !.meant = Appended(@, IF Around = "h" THEN Unanchored(prose.leaf) ELSE prose.leaf)]

ProseStart == [open |-> << >>, opened |-> 0, last |-> "none", leaf |-> << >>, texts |-> 0, meant |-> << >>,
               cpp |-> NoText, ts |-> NoText]
TextBlocksInit == prose = ProseStart
TextBlocksNext ==
  \/ \E kind \in Containers \union Leaves : EnterBlock(kind)
  \/ \E type \in Words \union Breaks : AddText(type)
  \/ LeaveBlock
TextBlocksSpec == TextBlocksInit /\ [][TextBlocksNext]_prose

----------------------------------------------------------------------------
HasNul(out) == \E i \in DOMAIN out : \E j \in DOMAIN out[i] : out[i][j].type = "nul"

\* However blocks are nested and follow each other, every text of the document is in a block of
\* the output of its own, in order, and both implementations make the same of it (render.cpp:
\* a nested list "came out as the single run", "Nothing detected it until the same document had
\* to render identically in two implementations").  A NUL, which only micromark keeps as text,
\* is excepted.
TextBlocksAgree ==
  prose.open = << >> /\ ~HasNul(prose.meant) =>
    FlushBlock(prose.cpp).out = prose.meant /\ FlushBlock(prose.ts).out = prose.meant
=============================================================================
