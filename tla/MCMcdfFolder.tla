---------------------------- MODULE MCMcdfFolder ----------------------------
(* McdfFolder on small instances.  One text besides the empty one: a         *)
(* schema.yaml saying it declares a section, and a content.md saying it has  *)
(* the heading.                                                              *)
EXTENDS McdfFolder, TLC

CONSTANTS intro, asset

MCSections == (intro :> <<"intro">>) @@ (Empty :> << >>)
MCAnchors  == (intro :> {"intro"}) @@ (Empty :> {})

\* A list with a member that may be absent, one that seals the schema too, and
\* one that names a member twice.
MCRequests == {<<Content, asset>>, <<Schema, Content>>, <<Content, Content>>}

\* A document with its section in place, either with a schema and a manifest or
\* a bare content.md with an asset.
MCInit ==
  /\ Init
  /\ files[Content] = Plain(intro)
  /\ \/ /\ files[Schema] = Plain(intro) /\ files[asset] = Absent
        /\ manifest # Absent
     \/ /\ files[Schema] = Absent /\ files[asset] = Plain(Empty)
        /\ manifest = Absent

MCSpec == MCInit /\ [][Next]_vars

Symmetry == Permutations(Procs)
=============================================================================
