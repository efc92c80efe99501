----------------------------- MODULE EpubImport -----------------------------
(***************************************************************************)
(* A book becomes a document: the chapters of an EPUB, in the order of its *)
(* spine, each under a heading that a section of the generated schema      *)
(* binds, and the images they refer to, each under a name of its own       *)
(* (core/epub_import.cpp, and register_image, resolve and slugify of       *)
(* core/xhtml_md.hpp, which import_html uses as well).                     *)
(*                                                                         *)
(* A path is the sequence of its parts, and so are a title and the name of *)
(* a file as slugify sees them, with a dash between.                       *)
(***************************************************************************)
EXTENDS Integers, Sequences, SequencesExt, FiniteSetsExt

CONSTANTS
  OtherScript,   \* letters that are neither a-z nor digits
  ChapterTitles, \* what a chapter may be called; << >> if it has no title and no heading
  Folders,       \* the folders its file may be in
  References,    \* what the src of its images may be, beginning with "/" from the root
  Stem,          \* the parts of an image's name without its extension
  Archived,      \* the images that are in the archive
  SlugLength,    \* bound: parts of a slug (48 characters)
  MaxParts       \* bound: chapters and images of a book

VARIABLE spine   \* the chapters so far, and what is in the archive under their names

\* A sequence without what is equal to out.
AllBut(seq, out) == FoldLeft(LAMBDA kept, part : IF part = out THEN kept ELSE Append(kept, part), << >>, seq)

Slugify(text, fallback) ==
  LET parts == AllBut(text, OtherScript)
  IN  IF parts = << >> THEN fallback
      ELSE SubSeq(parts, 1, IF Len(parts) < SlugLength THEN Len(parts) ELSE SlugLength)

\* resolve: "." and ".." are worked out part by part, and what leaves the root is empty.
Outside == <<"..">>
Resolve(dir, href) ==
  LET parts == IF href # << >> /\ Head(href) = "/" THEN Tail(href) ELSE dir \o href
  IN  FoldLeft(LAMBDA path, part :
                 CASE path = Outside -> Outside
                   [] part = ".."    -> IF path = << >> THEN Outside ELSE Front(path)
                   [] part = "."     -> path
                   [] OTHER          -> Append(path, part), << >>, parts)
PathOf(dir, href) == IF Resolve(dir, href) = Outside THEN << >> ELSE Resolve(dir, href)
\* The images that the chapters may refer to.
Paths == {PathOf(dir, href) : dir \in Folders, href \in References} \ {<< >>}

\* Titles are sequences, and so is what there is of the name of every image.
IsSequence(s) == Len(s) \in Nat /\ s = [i \in 1 .. Len(s) |-> s[i]]
ASSUME EpubImportConstants ==
  /\ {SlugLength, MaxParts} \subseteq Nat /\ SlugLength > 0
  /\ \A title \in ChapterTitles : IsSequence(title)
  /\ \A from \in Paths : IsSequence(Stem[Last(from)])

\* Mutant: the number is not looked for among the names that are taken.
FreshOnce(stem, taken) == IF stem \in taken THEN Append(stem, 2) ELSE stem
\* The first of name, name-2, name-3, ... that is not taken.
Fresh(stem, taken) ==
  IF stem \notin taken THEN stem
  ELSE Append(stem, Min({n \in 2 .. Cardinality(taken) + 2 : Append(stem, n) \notin taken}))

\* register_image: an image that was met before keeps its name.
Register(images, from) ==
  IF \E i \in DOMAIN images : images[i].from = from THEN images
  ELSE Append(images, [from |-> from, to |-> Fresh(Slugify(Stem[Last(from)], <<"image">>),
                                                  {images[i].to : i \in DOMAIN images})])
AssetOf(images, from) == images[CHOOSE i \in DOMAIN images : images[i].from = from].to

\* Mutant: a chapter without a title takes the name that is left for it.
SectionIdOnce(slug, used, i) == slug
\* The slug, and the chapter's number behind it as often as it takes.
SectionId(slug, used, i) ==
  LET numbered(k) == slug \o [j \in 1 .. k |-> i]
  IN  numbered(Min({k \in 0 .. Cardinality(used) : numbered(k) \notin used}))

----------------------------------------------------------------------------
(* import_epub.                                                             *)

Chapter(i) ==
  LET chapter == spine[i]
      fallback == <<"chapter", i>>
  IN  [title |-> IF chapter.title = << >> THEN fallback ELSE chapter.title, fallback |-> fallback,
       links |-> AllBut([j \in DOMAIN chapter.images |-> PathOf(chapter.dir, chapter.images[j])], << >>)]
\* A chapter that is not in the archive, does not parse, or says nothing is passed over.
Readable(i) == spine[i].there /\ (spine[i].title # << >> \/ spine[i].text \/ Chapter(i).links # << >>)

\* The chapters in their order: a heading with its id, and the links to its images.
EmptyBook == [headings |-> << >>, images |-> << >>]
Used(book) == {book.headings[i].id : i \in DOMAIN book.headings}
WithChapter(book, i) ==
  LET c      == Chapter(i)
      images == FoldLeft(Register, book.images, c.links)
  IN  IF ~Readable(i) THEN book
      ELSE [images |-> images,
            headings |-> Append(book.headings,
              [chapter |-> i, id |-> SectionId(Slugify(c.title, c.fallback), Used(book), i),
               links |-> [j \in DOMAIN c.links |-> AssetOf(images, c.links[j])]])]
Book == FoldLeft(WithChapter, EmptyBook, [i \in DOMAIN spine |-> i])

\* What is written: the sections of schema.yaml, and the images that could be read.
Sections(book) == [i \in DOMAIN book.headings |-> book.headings[i].id]
Asset(book, to) ==
  {book.images[i].from : i \in {i \in DOMAIN book.images : book.images[i].to = to}} \intersect Archived

Parts == FoldLeft(LAMBDA n, c : n + 1 + Len(c.images), 0, spine)
AddChapter(dir, title, text) ==
  /\ Parts < MaxParts
  /\ title # << >> => text
  /\ spine' = Append(spine, [there |-> TRUE, dir |-> dir, title |-> title, text |-> text, images |-> << >>])
\* Missing in the archive, or no XML.
AddUnreadable ==
  /\ Parts < MaxParts
  /\ spine' = Append(spine, [there |-> FALSE, dir |-> << >>, title |-> << >>, text |-> FALSE, images |-> << >>])
AddImage(href) ==
  /\ spine # << >> /\ Last(spine).there /\ Parts < MaxParts
  /\ spine' = [spine EXCEPT ![Len(spine)].images = Append(@, href)]
EpubImportInit == spine = << >>
EpubImportNext ==
  \/ \E dir \in Folders, title \in ChapterTitles, text \in BOOLEAN : AddChapter(dir, title, text)
  \/ AddUnreadable
  \/ \E href \in References : AddImage(href)
EpubImportSpec == EpubImportInit /\ [][EpubImportNext]_spine

----------------------------------------------------------------------------
\* Whatever the chapters are called, every one that can be read is there, in the order of the
\* spine, and a section of the schema binds it and nothing else; and every link to an image
\* leads to that image, or to nothing if the archive has not got it, wherever the chapter and
\* the image lie and whatever other images are called (epub_import.hpp: "each with a heading
\* carrying a {#id} that a generated schema.yaml binds to").
BookIsBound ==
  LET book     == Book
      chapters == [i \in DOMAIN book.headings |-> book.headings[i].chapter]
  IN  /\ ToSet(chapters) = {i \in DOMAIN spine : Readable(i)}
      /\ \A i, j \in DOMAIN chapters : i < j => chapters[i] < chapters[j]
      /\ IsInjective(Sections(book))
      /\ \A i \in DOMAIN book.headings :
           LET links == Chapter(book.headings[i].chapter).links
           IN  \A j \in DOMAIN links : Asset(book, book.headings[i].links[j]) = {links[j]} \intersect Archived
=============================================================================
