------------------------ MODULE MCKnowledgeContent ------------------------
(***************************************************************************)
(* One text/media library with two documents, one image and two providers  *)
(* whose vectors have different lengths.                                   *)
(***************************************************************************)
EXTENDS KnowledgeContent, TLC

CONSTANTS d1, d2, s1, i1, x, y, a, b, c

Documents2 == {d1, d2}
Dimensions == a :> 1 @@ b :> 1 @@ c :> 2
Stems == i1 :> x
Lists == {<<x>>, <<y, x>>}
Symmetry == Permutations({d1, d2})
===========================================================================
