---------------------------- MODULE MCWebDocument ----------------------------
(* WebDocument on small instances: a text with an anchor in two spellings, one *)
(* without, a text with an image; a schema with a section in two spellings.    *)
EXTENDS WebDocument, TLC

CONSTANTS a, aRaw, b, pic, one, oneRaw, f1, f2

MCCanonical == [v \in Texts \union Forms |->
                  IF v = aRaw THEN a ELSE IF v = oneRaw THEN one ELSE v]
MCAnchors  == [t \in Texts |-> IF t \in {a, aRaw, pic} THEN {"s"} ELSE {}]
MCDeclared == [f \in Forms |-> IF f = EmptyForm THEN << >> ELSE <<"s">>]
MCPictured == [t \in Texts |-> pic]

Plain(doc, text, form) ==
  [doc |-> doc, text |-> text, sealed |-> FALSE, seal |-> 0, form |-> form,
   claim |-> None, assets |-> 0, log |-> 0, mark |-> 0, manifest |-> None, sig |-> None]

MCFresh     == Plain("new", a, one)
MCConverted == [Plain("imported", a, None) EXCEPT !.log = 1]

\* A signed document whose bytes are not as the store writes them, and a sealed
\* one with a manifest.
Signed(c) == [Rebuilt(c) EXCEPT !.sig = Listing(c)]
MCDisk == f1 :> Signed(Plain("first", aRaw, oneRaw))
          @@ f2 :> Sealed(Plain("second", b, one), MaxSeals)
=============================================================================
