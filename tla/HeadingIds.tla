----------------------------- MODULE HeadingIds -----------------------------
(***************************************************************************)
(* The id of a heading in what is made of content.md: the canonical HTML   *)
(* of the C++ library (serialize/render.cpp) and of the TypeScript engine  *)
(* (serialize/markdown.ts), the events of the C renderer                   *)
(* (micro/render/render.c), and the anchors the C reader binds sections to *)
(* (micro/src/anchors.c).  A heading is where it stands and the pieces of  *)
(* its text; an id is known by the heading it is written in.               *)
(***************************************************************************)
EXTENDS Integers, Sequences, SequencesExt

CONSTANTS
  MaxHeads, \* bound: headings of a document
  MaxPieces \* bound: pieces of all of them

ASSUME HeadingIdsConstants == MaxHeads \in Nat /\ MaxPieces \in Nat

VARIABLE heads   \* the headings so far, in the order of the document

\* At the top level, in a quote or a list item, or between the lines of a raw HTML block.
Places == {"top", "nested", "html"}
\* A word; {#x}; \{#x}; {#_x_}; *{#x}*, or the same in code or in the text of an image; &amp;; <b>.
Pieces == {"word", "anchor", "escaped", "inner", "stressed", "code", "alt", "entity", "tag"}

\* The callbacks of md4c for a piece: chunks of text by their type, and the ends of spans.  Of
\* text all that counts is whether it is an anchor, or the front or the back of one.
Chunk(type, text) == <<[type |-> type, text |-> text]>>
Span == Chunk("span", "")
Callbacks(p) ==
  CASE p = "word"              -> Chunk("normal", "word")
    [] p = "anchor"            -> Chunk("normal", "anchor")
    [] p = "escaped"           -> Chunk("normal", "front") \o Chunk("normal", "back")
    [] p = "inner"             -> Chunk("normal", "front") \o Span \o Chunk("normal", "word") \o Span
                                    \o Chunk("normal", "back")
    [] p \in {"stressed", "alt"} -> Span \o Chunk("normal", "anchor") \o Span
    [] p = "code"              -> Span \o Chunk("code", "anchor") \o Span
    [] p = "entity"            -> Chunk("entity", "word")
    [] p = "tag"               -> Chunk("html", "word")
EndsIn(h, ps)  == h.pieces # << >> /\ Last(h.pieces) \in ps
CallbacksOf(h) == FoldLeft(LAMBDA cs, p : cs \o Callbacks(p), << >>, h.pieces)

\* Behind the last chunk that is not one of these types, joined to the text before, is an anchor.
EndsWithAnchor(chunks, but) ==
  LET read == {i \in DOMAIN chunks : chunks[i].type \notin but}
  IN  read # {} /\ chunks[Max(read)].text \in {"anchor", "back"}

----------------------------------------------------------------------------
(* Whether a heading has an id, and what it is.                             *)

NoId             == [of |-> 0, name |-> ""]
Named(h, name)   == [of |-> h.n, name |-> name]
IdIf(h, anchors) == IF anchors THEN Named(h, "x") ELSE NoId

\* parse_headings and split_heading_id: everything the text callback is given.
CppId(h) == IdIf(h, EndsWithAnchor(CallbacksOf(h), {"span"}))
\* parseHeadings and splitHeadingId: entities and raw HTML are no data.
TsId(h)  == IdIf(h, EndsWithAnchor(CallbacksOf(h), {"span", "entity", "html"}))

\* mm_leave_block and mm_take_anchor: an anchor is looked for in the last chunk alone, if it is
\* text (a tag is, here) and no span ended behind it.
RenderId(h) ==
  LET chunks == CallbacksOf(h)
  IN  IdIf(h, chunks # << >> /\ Last(chunks).type \in {"normal", "html"} /\ Last(chunks).text = "anchor")

\* mm_anchor_of: the source of the line, back from its last character.
ScanId(h) ==
  IF EndsIn(h, {"inner"}) THEN Named(h, "_x_") ELSE IdIf(h, EndsIn(h, {"anchor", "escaped"}))

----------------------------------------------------------------------------
(* The ids in the document.  With raw HTML on, the lines of an HTML block   *)
(* are no heading; the renderings have it off.                              *)

\* Mutant: headings that bind no section are left out.
ParsedTop == SelectSeq(heads, LAMBDA h : h.place = "top")
\* parse_headings and parseHeadings, at any depth.
ParsedHeadings == FoldLeft(LAMBDA hs, h : IF h.place = "html" THEN hs ELSE Append(hs, h), << >>, heads)

\* apply_heading_ids and applyHeadingIds: the n-th heading rendered is given the id of the n-th
\* that was parsed.
Applied(ids)   == [i \in DOMAIN heads |-> IF i > Len(ids) THEN NoId ELSE ids[i]]
CppHtmlIds     == Applied([i \in DOMAIN ParsedHeadings |-> CppId(ParsedHeadings[i])])
TsHtmlIds      == Applied([i \in DOMAIN ParsedHeadings |-> TsId(ParsedHeadings[i])])
EventIds       == [i \in DOMAIN heads |-> RenderId(heads[i])]
\* mm_anchor_walk finds the headings at the start of a line.
ScanIds        == [i \in DOMAIN heads |-> IF heads[i].place = "nested" THEN NoId ELSE ScanId(heads[i])]

HeadingIdsInit == heads = << >>
PiecesSoFar    == FoldLeft(LAMBDA n, h : n + Len(h.pieces), 0, heads)
AddHeading(place) ==
  Len(heads) < MaxHeads /\ heads' = Append(heads, [n |-> Len(heads) + 1, place |-> place, pieces |-> << >>])
AddPiece(p) ==
  /\ heads # << >> /\ PiecesSoFar < MaxPieces
  /\ heads' = [heads EXCEPT ![Len(heads)].pieces = Append(@, p)]
HeadingIdsNext == (\E place \in Places : AddHeading(place)) \/ (\E p \in Pieces : AddPiece(p))
HeadingIdsSpec == HeadingIdsInit /\ [][HeadingIdsNext]_heads

----------------------------------------------------------------------------
\* Anchors that md4c does not leave in one chunk of text at the end of the heading.
Broken(h)  == EndsIn(h, {"escaped", "inner", "stressed", "code", "alt"})
\* Something behind the anchor that only some of them read.
Trailed(h) == EndsIn(h, {"entity", "tag"})

\* Every rendering gives a heading the id that stands in it, and all the same: the ids that
\* apply_heading_ids hands out by position are those of the headings they land on, and they are
\* the ones the C renderer reports and, at the top level, those the C reader binds (render.cpp:
\* "attaching by position would then shift every id onto the wrong heading").  It is not so in
\* a document with a heading inside a raw HTML block, which is rendered and not parsed: there
\* every later id is on the wrong heading.  Nor for a heading whose anchor is inside a span,
\* escaped, or has emphasis in it, nor, in TypeScript, with an entity or a tag behind it.
IdsAreTheirs ==
  \/ \E i \in DOMAIN heads : heads[i].place = "html"
  \/ \A i \in DOMAIN heads :
       LET h == heads[i]
       IN  Broken(h) \/ /\ CppHtmlIds[i] = CppId(h) /\ EventIds[i] = CppId(h)
                        /\ Trailed(h) \/ TsHtmlIds[i] = CppId(h)
                        /\ h.place = "top" => ScanIds[i] = CppId(h)
=============================================================================
