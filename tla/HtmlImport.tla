----------------------------- MODULE HtmlImport -----------------------------
(***************************************************************************)
(* A page becomes content.md: what HtmlNormalize makes of it is turned     *)
(* into Markdown (core/xhtml_md.hpp), as are the chapters of import_epub.  *)
(*                                                                         *)
(* Of the Markdown only the words and the line breaks count.               *)
(***************************************************************************)
EXTENDS HtmlNormalize

----------------------------------------------------------------------------
(* The Markdown: words, and 0 for a line break or the bar between cells.     *)

Break == <<0>>
Apart(s) == Break \o s \o Break
Runs(s) ==
  LET split == FoldLeft(LAMBDA r, w : IF w # 0 THEN [r EXCEPT !.run = Append(@, w)]
                                      ELSE IF r.run = << >> THEN r
                                      ELSE [runs |-> Append(r.runs, r.run), run |-> << >>],
                        [runs |-> << >>, run |-> << >>], s \o Break)
  IN  split.runs

Each(kids, op(_)) == FlattenSeq([i \in DOMAIN kids |-> op(kids[i])])

\* pugixml's text(): the first text among the children.
FirstText(node) ==
  LET texts == SelectSeq(node.kids, LAMBDA k : k.tag = "text")
  IN  IF texts = << >> THEN << >> ELSE <<Head(texts).n>>

\* inline_element, and inline_of for what it does not know.
RECURSIVE Inline(_)
Inline(node) ==
  CASE node.tag = "text" -> <<node.n>>
    [] node.tag = "br"   -> Break
    [] node.tag = "code" -> FirstText(node)
    [] OTHER -> Each(node.kids, Inline)
InlineOf(node) == Each(node.kids, Inline)

RECURSIVE Below(_)
Below(node) == <<node>> \o Each(node.kids, Below)
OfTag(node, tag) == SelectSeq(Below(node), LAMBDA d : d.tag = tag)

\* The cells of the rows, as many of each as the first one has.
Cells(row) == SelectSeq(row.kids, LAMBDA c : c.tag = "td")
Rows(table) == SelectSeq(OfTag(table, "tr"), LAMBDA row : Cells(row) # << >>)
Kept(row, first) == SubSeq(Cells(row), 1, IF Len(Cells(row)) < Len(Cells(first)) THEN Len(Cells(row)) ELSE Len(Cells(first)))
Table(table) ==
  Each(Rows(table), LAMBDA row : Each(Kept(row, Head(Rows(table))), LAMBDA cell : Apart(InlineOf(cell))))

\* Converter::block.  An item's nested list comes out of the item, converted once more as a block.
RECURSIVE Block(_)
Block(node) ==
  LET item(li) == IF \E i \in DOMAIN li.kids : li.kids[i].tag = "ul"
                  THEN Apart(InlineOf(li)) \o Each(li.kids, Block) ELSE Apart(InlineOf(li))
  IN  CASE node.tag \in {"p"} \union Titles -> IF Runs(InlineOf(node)) = << >> THEN << >> ELSE Apart(InlineOf(node))
        [] node.tag \in {"body"} \union Divisions -> Each(node.kids, Block)
        [] node.tag = "ul" -> Apart(Each(SelectSeq(node.kids, LAMBDA k : k.tag = "li"), item))
        [] node.tag = "blockquote" -> Apart(Each(node.kids, Block))
        [] node.tag = "pre"   -> Apart(FirstText(node))
        [] node.tag = "table" -> Apart(Table(node))
        [] node.tag = "hr"    -> Break
        [] OTHER -> Inline(node)

RECURSIVE Without(_, _)
Without(node, n) ==
  LET rest == SelectSeq(node.kids, LAMBDA k : k.n # n)
  IN  [node EXCEPT !.kids = [i \in DOMAIN rest |-> Without(rest[i], n)]]

\* document_to_markdown with the title that the caller puts in front: that of the page, or else of
\* the first h1, h2 or h3, if it has a text; the first h1 or h2 is left out if it says the same.
TitleOf(tree, given) ==
  LET found == {i \in 1 .. 3 : OfTag(tree, <<"h1", "h2", "h3">>[i]) # << >>
                               /\ FirstText(Head(OfTag(tree, <<"h1", "h2", "h3">>[i]))) # << >>}
  IN  IF given # << >> THEN given
      ELSE IF found = {} THEN << >> ELSE FirstText(Head(OfTag(tree, <<"h1", "h2", "h3">>[Min(found)])))
\* Mutant: the heading that the title repeats stays where it is.
BodyWhole(tree, title) == tree
Body(tree, title) ==
  LET same == {i \in 1 .. 2 : /\ OfTag(tree, <<"h1", "h2">>[i]) # << >>
                              /\ FirstText(Head(OfTag(tree, <<"h1", "h2">>[i]))) = title}
  IN  IF title = << >> \/ same = {} THEN tree
      ELSE Without(tree, Head(OfTag(tree, <<"h1", "h2">>[Min(same)])).n)
Markdown(tree, given) == Apart(TitleOf(tree, given)) \o Block(Body(tree, TitleOf(tree, given)))

----------------------------------------------------------------------------
\* The same page as its elements say it: what is no phrase is a line of its own or several.
RECURSIVE Flow(_)
Flow(node) ==
  CASE node.tag = "text"      -> <<node.n>>
    [] node.tag \in Phrasing  -> Each(node.kids, Flow)
    [] OTHER                  -> Apart(Each(node.kids, Flow))
WordsOf(node) == SelectSeq(Flow(node), LAMBDA w : w # 0)

\* The heading that stands for the title, the first of the highest level; and what <title> says.
Top(tree) == FoldLeft(LAMBDA top, tag : IF top # << >> THEN top ELSE
                        SelectSeq(OfTag(tree, tag), LAMBDA h : WordsOf(h) # << >>), << >>, <<"h1", "h2", "h3">>)
Given(tree) ==
  CASE hand.title = "own" -> <<-1>>
    [] hand.title = "first" /\ Top(tree) # << >> -> WordsOf(Head(Top(tree)))
    [] OTHER -> << >>
Said(tree) ==
  LET top   == Top(tree)
      title == IF Given(tree) # << >> THEN Given(tree) ELSE IF top = << >> THEN << >> ELSE WordsOf(Head(top))
      moved == IF top = << >> THEN FALSE ELSE WordsOf(Head(top)) = title
  IN  Runs(title) \o Runs(Flow(IF moved THEN Without(tree, Head(top).n) ELSE tree))

\* What the converter is known to lose, repeat or run together: what stands behind markup in code or a title, or behind an
\* empty title; blocks in an item or a cell; nested lists and tables; cells beyond those of the first row; text directly in a division, or beside
\* one or an empty paragraph.
Loses(node) ==
  \/ node.tag \in {"pre", "code"} \union Titles /\ WordsOf(node) # FirstText(node)
  \/ node.tag \in Titles /\ WordsOf(node) = << >>
  \/ node.tag \in {"li", "td"} /\ Len(Runs(Flow(node))) > 1
  \/ node.tag = "li" /\ OfTag(node, "ul") # << >>
  \/ node.tag = "table" /\ Len(OfTag(node, "table")) > 1
  \/ node.tag = "table" /\ \E i \in DOMAIN Rows(node) : Len(Cells(Rows(node)[i])) > Len(Cells(Head(Rows(node))))
  \/ /\ \E i \in DOMAIN node.kids : node.kids[i].tag \in {"text"} \union Phrasing
     /\ \/ node.tag \in Divisions
        \/ \E i \in DOMAIN node.kids : \/ node.kids[i].tag \in Divisions
                                       \/ node.kids[i].tag = "p" /\ WordsOf(node.kids[i]) = << >>

\* Whatever end tags are left out or left over, every text of a page arrives in content.md, once, in its place and in a
\* line that it shares with its own paragraph only, but for the title, which comes first.  Not so where a p is left
\* open together with its parent, or before an element that ends a p in HTML and not in closes_implicitly; behind a
\* script whose end tag is in capitals; for what Loses says; and a title that is taken from an h3 is there twice.
KeepsText ==
  LET tree  == Closed(meant)
      nodes == Below(tree)
  IN  \/ Len(meant) > 1 \/ hand.squeezed \/ hand.cut
      \/ \E i \in DOMAIN nodes : Loses(nodes[i])
      \/ hand.title # "own" /\ IF Top(tree) = << >> THEN FALSE ELSE Head(Top(tree)).tag = "h3"
      \/ Runs(Markdown(Closed(soup), Given(tree))) = Said(tree)
=============================================================================
