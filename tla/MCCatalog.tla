----------------------------- MODULE MCCatalog -----------------------------
(* Small instances of Catalog.                                              *)
EXTENDS Catalog, TLC

CONSTANTS r1, r2

\* The requests are interchangeable: no definition tells them apart.
Symmetric == Permutations({r1, r2})
=============================================================================
