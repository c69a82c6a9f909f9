---------------------------- MODULE MCCatalogue ----------------------------
(***************************************************************************)
(* A small instance of Catalogue: one product with up to three photos, one *)
(* buyer, two handlers at a time.                                          *)
(***************************************************************************)
EXTENDS Catalogue, TLC

CONSTANTS i1, i2, i3, u1, r1, r2

Photos == {i1, i2, i3}

Handlers == {r1, r2}

Perms == Permutations(Photos) \cup Permutations(Handlers)
=============================================================================
