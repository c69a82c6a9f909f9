------------------------------ MODULE MCReviews ------------------------------
(***************************************************************************)
(* Small instances of Reviews: u1 is handled with care, u2 is not.         *)
(***************************************************************************)
EXTENDS Reviews, TLC

CONSTANTS u1, u2, a, b1, b2, b3

\* One review of u1, three of u2
Subjects == (a :> u1) @@ (b1 :> u2) @@ (b2 :> u2) @@ (b3 :> u2)

\* Three reviews of u2
SubjectsOfOne == (b1 :> u2) @@ (b2 :> u2) @@ (b3 :> u2)
=============================================================================
