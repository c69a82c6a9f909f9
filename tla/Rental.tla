-------------------------------- MODULE Rental --------------------------------
(***************************************************************************)
(* What checkout promises to buyers and vendors: a buyer is asked once for *)
(* money for some products; what the buyer then gets, all of it in one     *)
(* step and once, is among them and is with nobody else; and it comes back *)
(* one product after the other.  Checkout implements it with webhooks that *)
(* take the products one by one, fail and are repeated, as long as nothing *)
(* else reaches for the same products meanwhile.                           *)
(***************************************************************************)
CONSTANTS Buyers, Products

VARIABLES
    asked,    \* asked[b]: the products buyer b was asked money for
    served,   \* the buyers who have got their order
    rented    \* <<buyer, product>>: the products that are with a buyer

vars == <<asked, served, rented>>

Init ==
    /\ asked = [b \in Buyers |-> {}]
    /\ served = {}
    /\ rented = {}

Ask(b) ==
    /\ asked[b] = {}
    /\ \E S \in SUBSET Products : S # {} /\ asked' = [asked EXCEPT ![b] = S]
    /\ UNCHANGED <<served, rented>>

\* A product that another buyer got first, or that was deleted, may be missing
Rent(b) ==
    /\ b \notin served
    /\ \E S \in SUBSET asked[b] :
        /\ S # {}
        /\ \A entry \in rented : entry[2] \notin S
        /\ rented' = rented \cup ({b} \X S)
    /\ served' = served \cup {b}
    /\ UNCHANGED asked

GiveBack(b, p) ==
    /\ <<b, p>> \in rented
    /\ rented' = rented \ {<<b, p>>}
    /\ UNCHANGED <<asked, served>>

Next == \E b \in Buyers : Ask(b) \/ Rent(b) \/ \E p \in Products : GiveBack(b, p)

Spec == Init /\ [][Next]_vars
=============================================================================
