------------------------ MODULE MCCatalogPublication ------------------------
(* Two revision numbers, of which the second can be given out again; texts,  *)
(* categories and workers are alike.                                         *)
EXTENDS CatalogPublication, TLC

Symmetry == Permutations(Categories) \cup Permutations(Texts)
            \cup Permutations(Workers)

=============================================================================
