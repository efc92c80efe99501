-------------------------- MODULE MCStudioDocument --------------------------
(* StudioDocument on small instances: a text in two spellings, another text, *)
(* and one thing to put into a form.                                         *)
EXTENDS StudioDocument, TLC

CONSTANTS a, aRaw, b

MCCanonical == [v \in Values |-> IF v = aRaw THEN a ELSE v]

\* The members of a document: content.md as given, metadata.yaml, no schema.yaml.
Bare(text, meta) ==
  [val |-> (Content :> text) @@ ("metadata.yaml" :> meta) @@ ("schema.yaml" :> None),
   sealed |-> {}, seal |-> 0, images |-> 0, log |-> 0, manifest |-> None, sig |-> None]

Listed(x)    == [x EXCEPT !.manifest = Listing(x)]
SignedDoc(x) == [Listed(x) EXCEPT !.sig = Listing(x)]

MCTickable == {{Content}, {"metadata.yaml"}}
MCLayouts == {{"trust"}, {"manifest", "structure"}, {"audit", "conformance"}, {"diff"}}

\* A signed archive; a folder without a manifest that another tool wrote, and a
\* signed one whose bytes are not as Studio writes them; a book with an image.
MCArchives == {SignedDoc(Bare(a, b))}
MCFolders  == {Bare(aRaw, None), SignedDoc(Bare(aRaw, b))}
MCImports  == {[text |-> aRaw, meta |-> a, schema |-> b, images |-> 1]}
=============================================================================
