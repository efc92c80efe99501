---------------------------- MODULE MCCommandLine ----------------------------
EXTENDS CommandLine, TLC

CONSTANTS t1, t2, crlf, picture

MCCanonical == crlf :> t1
MCImports == {[verb |-> "import-epub", text |-> crlf, asset |-> picture],
              [verb |-> "import-html", text |-> crlf, asset |-> Missing],
              [verb |-> "import-html", text |-> None, asset |-> None]}

\* A document that was made, and one that was signed as well.
Plain == [n \in {Content, "metadata.yaml"} |-> t1]
Made  == Plain @@ (Manifest :> Plain) @@ ("audit.log" :> 1)
Whole == LET d == Plain @@ ("assets/a" :> picture)
         IN  d @@ (Manifest :> d) @@ (Signature :> [over |-> d])

World(f, k) == [folder |-> f, staging |-> None, archive |-> None, key |-> k, page |-> None]
MCWorlds == {World(None, None), World(Occupied, None), World(Made, "ed25519"), World(Whole, None)}
=============================================================================
