--------------------------- MODULE MCCatalogEvents ---------------------------
(* One product that changes between two contents; hashes, writers and        *)
(* consumers are alike.                                                      *)
EXTENDS CatalogEvents, TLC

Symmetry == Permutations(Hashes) \cup Permutations(Writers)
            \cup Permutations(Consumers)

=============================================================================
