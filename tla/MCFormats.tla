------------------------------ MODULE MCFormats ------------------------------
\* What the implementations make of a content.md, and how one is made of a page or a book.
\* The modules have nothing in common but the document: one of them is followed at a time.
EXTENDS Windows, RenderWalk, HeadingIds, TextBlocks, HtmlImport, EpubImport

MCVocabularies ==
  LET Vocabulary(tags, n) == [tags |-> tags, nodes |-> n]
  IN  {Vocabulary({"p", "div", "ul", "li"}, 5), Vocabulary({"p", "nav", "script"}, 4),
       Vocabulary({"table", "tr", "td", "p"}, 7), Vocabulary({"h1", "h3", "em", "p"}, 5),
       Vocabulary({"pre", "code", "em", "blockquote"}, 5)}

MCChapterTitles ==
  {<< >>, <<"chapter", 2>>, <<"chapter", 3>>, <<"chapter", 3, 3>>, <<OtherScript>>}
MCFolders    == {<<"a">>, << >>}
MCReferences == {<<"x">>, <<"/", "x">>, <<"..", "x">>, <<"..", "..", "x">>, <<"x-2">>, <<"/", "a", "X">>}
MCStem       == [file \in {"x", "X", "x-2"} |-> IF file = "x-2" THEN <<"x", 2>> ELSE <<"x">>]
MCArchived   == {<<"x">>, <<"a", "x">>, <<"x-2">>}

Walks     == <<page, iter, told>>
Unscanned == scan = ScanStart /\ UNCHANGED scan
Unwalked  == walk = WalkStart /\ UNCHANGED walk
Unread    == Unscanned /\ Unwalked /\ lines = 0 /\ UNCHANGED lines
Untold    == page = PageStart /\ iter = NoWalk /\ UNCHANGED Walks
Unnamed   == heads = << >> /\ UNCHANGED heads
Unsaid    == prose = ProseStart /\ UNCHANGED prose
\* The vocabularies differ for HtmlImport only.
Pageless  == hand.tags = {"p", "nav", "script"} /\ ~hand.cut /\ meant = BlankPage /\ UNCHANGED <<meant, soup, hand>>
Unbound   == spine = << >> /\ UNCHANGED spine
Unmade    == Pageless /\ Unbound

MCInit ==
  /\ HeadingsInit /\ WindowsInit /\ RenderWalkInit /\ HeadingIdsInit /\ TextBlocksInit
  /\ HtmlNormalizeInit /\ EpubImportInit
MCNext ==
  \/ Unmade /\ Unwalked /\ Untold /\ Unnamed /\ Unsaid /\ HeadingsNext
  \/ Unmade /\ Unscanned /\ Untold /\ Unnamed /\ Unsaid /\ WindowsNext
  \/ Unmade /\ Unread /\ Unnamed /\ Unsaid /\ RenderWalkNext
  \/ Unmade /\ Unread /\ Untold /\ Unsaid /\ HeadingIdsNext
  \/ Unmade /\ Unread /\ Untold /\ Unnamed /\ TextBlocksNext
  \/ Unbound /\ Unread /\ Untold /\ Unnamed /\ Unsaid /\ HtmlNormalizeNext
  \/ Pageless /\ Unread /\ Untold /\ Unnamed /\ Unsaid /\ EpubImportNext
=============================================================================
