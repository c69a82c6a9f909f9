----------------------------- MODULE MCAccounts -----------------------------
(***************************************************************************)
(* A small instance of Accounts: two addresses of the person and one that  *)
(* another account has.                                                    *)
(***************************************************************************)
EXTENDS Accounts, TLC

CONSTANTS a, b, c, r1, r2

Handlers == {r1, r2}

Perms == Permutations(Handlers)
=============================================================================
