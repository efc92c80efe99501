---------------------------- MODULE HtmlNormalize ----------------------------
(***************************************************************************)
(* Tag soup is made well-formed (core/html_normalize.hpp).                 *)
(*                                                                         *)
(* The page is written from its beginning to its end by somebody who knows *)
(* which end tags may be left out; meant is the tree of it, soup the one   *)
(* the importer reads.  A text is one word, named by its number, as every  *)
(* element is.                                                             *)
(***************************************************************************)
EXTENDS Integers, Sequences, SequencesExt, FiniteSetsExt

CONSTANTS
  Vocabularies, \* the elements that a page is written with, and a bound on it
  MaxDeep       \* bound: elements open at a time

ASSUME HtmlNormalizeConstants == MaxDeep \in Nat /\ \A v \in Vocabularies : v.nodes \in Nat

VARIABLES
  meant, \* the elements that are open, outermost first, as the author means them
  soup,  \* the same as normalize_html has them
  hand   \* the author's vocabulary, what is written and what left out since the last tag, and what went wrong

Titles     == {"h1", "h2", "h3"}
Divisions  == {"div", "nav"}
Flowing    == {"body", "blockquote", "li", "td"} \union Divisions
Phrasing   == {"em", "code"}
InPhrasing == {"p", "pre"} \union Titles \union Phrasing
Void       == {"br", "hr"}
Optional   == {"p", "li", "td", "tr"}   \* whose end tag may be left out

\* What may stand in what.
Holds(parent, tag) ==
  CASE parent = "ul"    -> tag = "li"
    [] parent = "table" -> tag = "tr"
    [] parent = "tr"    -> tag = "td"
    [] parent \in Flowing -> tag \notin {"li", "tr", "td"}
    [] OTHER -> tag \in Phrasing \/ (parent = "p" /\ tag = "br")
HoldsText(parent) == parent \in Flowing \union InPhrasing

\* What may follow an element whose end was left out, other than the end of the parent.
Follows(left) ==
  CASE left = "p" -> {"p", "ul", "table", "blockquote", "pre", "hr"} \union Divisions \union Titles
    [] left = "td" -> {"td"}
    [] OTHER -> {left}

----------------------------------------------------------------------------
(* Elements that are open, the innermost last.                              *)

Node(tag, n)   == [tag |-> tag, n |-> n, kids |-> << >>]
Innermost(open) == Last(open).tag
Gives(open, node) == [open EXCEPT ![Len(open)].kids = Append(@, node)]
Enters(open, node) == Append(open, node)
Leaves1(open)  == Gives(Front(open), Last(open))
LeavesN(open, k) == FoldLeft(LAMBDA o, i : Leaves1(o), open, [i \in 1 .. k |-> i])
Closed(open)   == Head(LeavesN(open, Len(open) - 1))

----------------------------------------------------------------------------
(* normalize_html.                                                          *)

\* Mutant: an item does not end the item before it.
ClosesNoItem(open, opening) ==
  CASE open = "p"  -> opening \in {"p", "div", "ul", "table", "blockquote", "pre", "hr"} \union Titles
    [] open = "td" -> opening \in {"td", "tr"}
    [] open = "tr" -> opening = "tr"
    [] OTHER -> FALSE
\* closes_implicitly.
ClosesImplicitly(open, opening) ==
  CASE open = "p"  -> opening \in {"p", "div", "ul", "table", "blockquote", "pre", "hr"} \union Titles
    [] open = "li" -> opening = "li"
    [] open = "td" -> opening \in {"td", "tr"}
    [] open = "tr" -> opening = "tr"
    [] OTHER -> FALSE

\* The innermost elements that the opening tag ends, as long as each of them is.
Ended(open, opening) ==
  Max({k \in 0 .. Len(open) - 1 :
         \A i \in Len(open) - k + 1 .. Len(open) : ClosesImplicitly(open[i].tag, opening)})

SoupOpens(open, node) ==
  LET o == LeavesN(open, Ended(open, node.tag))
  IN  IF node.tag \in Void THEN Gives(o, node) ELSE Enters(o, node)

\* Down to the matching element; an end tag without one is ignored.
SoupEnds(open, tag) ==
  LET matching == {i \in 2 .. Len(open) : open[i].tag = tag}
  IN  IF matching = {} THEN open ELSE LeavesN(open, Len(open) - Max(matching) + 1)

----------------------------------------------------------------------------
(* The page is written.                                                     *)

Written == [hand EXCEPT !.left = << >>]

\* An end tag is left out where what follows says so.
MayFollow(tag) == IF hand.left = << >> THEN TRUE ELSE tag \in Follows(Last(hand.left))

\* <title>.
GiveTitle(title) ==
  /\ hand.size = 0 /\ hand.tags \intersect Titles # {} /\ hand.title = "none"
  /\ hand' = [hand EXCEPT !.title = title] /\ UNCHANGED <<meant, soup>>
Open(tag) ==
  LET node == Node(tag, hand.size + 1)
  IN  /\ hand.size < hand.nodes /\ Holds(Innermost(meant), tag) /\ MayFollow(tag)
      /\ meant' = IF tag \in Void THEN Gives(meant, node) ELSE Enters(meant, node)
      /\ Len(meant') <= MaxDeep + 1
      /\ soup'  = IF hand.cut THEN soup ELSE SoupOpens(soup, node)
      \* A p that ends where its parent ends, or before an element that closes_implicitly does not know.
      /\ hand'  = [Written EXCEPT !.size = @ + 1, !.squeezed = @ \/ ("p" \in Range(hand.left)
                       /\ (Len(hand.left) > 1 \/ ~ClosesImplicitly("p", tag)))]
AfterText(node) == IF node.kids = << >> THEN FALSE ELSE Last(node.kids).tag = "text"
Write ==
  LET node == Node("text", hand.size + 1)
  IN  /\ hand.size < hand.nodes /\ HoldsText(Innermost(meant)) /\ MayFollow("text") /\ ~AfterText(Last(meant))
      /\ meant' = Gives(meant, node) /\ hand' = [Written EXCEPT !.size = @ + 1]
      /\ soup'  = IF hand.cut THEN soup ELSE Gives(soup, node)
End ==
  /\ Len(meant) > 1
  /\ meant' = Leaves1(meant) /\ hand' = Written
  /\ soup'  = IF hand.cut THEN soup ELSE SoupEnds(soup, Innermost(meant))
LeaveOut ==
  /\ Len(meant) > 1 /\ Innermost(meant) \in Optional
  /\ meant' = Leaves1(meant) /\ UNCHANGED soup
  /\ hand'  = [hand EXCEPT !.left = Append(@, Innermost(meant))]
\* An end tag of nothing that is open.
StrayEnd(tag) ==
  /\ hand.left = << >> /\ \A i \in DOMAIN meant : meant[i].tag # tag
  /\ soup' = IF hand.cut THEN soup ELSE SoupEnds(soup, tag)
  /\ UNCHANGED <<meant, hand>>
\* A script, whose end tag is looked for in lower case.
Script(end) ==
  /\ "script" \in hand.tags /\ hand.left = << >> /\ hand' = [hand EXCEPT !.cut = @ \/ end = "</SCRIPT>"] /\ UNCHANGED <<meant, soup>>

BlankPage == <<Node("body", 0)>>
HtmlNormalizeInit ==
  /\ meant = BlankPage /\ soup = BlankPage
  /\ \E v \in Vocabularies :
       hand = [tags |-> v.tags, nodes |-> v.nodes, size |-> 0, left |-> << >>, squeezed |-> FALSE, cut |-> FALSE, title |-> "none"]
HtmlNormalizeNext ==
  \/ \E title \in {"own", "first"} : GiveTitle(title)
  \/ \E tag \in hand.tags \ {"script"} : Open(tag) \/ StrayEnd(tag)
  \/ Write \/ End \/ LeaveOut
  \/ \E end \in {"</script>", "</SCRIPT>"} : Script(end)
HtmlNormalizeSpec == HtmlNormalizeInit /\ [][HtmlNormalizeNext]_<<meant, soup, hand>>

----------------------------------------------------------------------------
\* Whatever end tags are left out or left over, what the importer has open is what the author means and, inside of it,
\* only what he left without an end since the last tag, so the tree is the one he means.  Not so where a p is left
\* open together with its parent, or before an element that ends a p in HTML and not in closes_implicitly; and behind a
\* script whose end tag is in capitals.
SoupIsMeant ==
  ~hand.squeezed /\ ~hand.cut => LeavesN(soup, Len(hand.left)) = meant /\ Closed(soup) = Closed(meant)
=============================================================================
