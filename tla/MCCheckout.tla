------------------------------- MODULE MCCheckout -------------------------------
(***************************************************************************)
(* Small instances of Checkout: one or two buyers and products.            *)
(***************************************************************************)
EXTENDS Checkout, TLC

CONSTANTS b1, b2, p1, p2, h1, h2, h3

\* Both buyers are after both products
Rivals == (b1 :> {p1, p2}) @@ (b2 :> {p1, p2})

\* One buyer, whom nobody gets ahead of
NoRivals == b1 :> {p1, p2}

\* One buyer and one product
OneBuyer == b1 :> {p1}

\* Webhooks come one at a time, and no other copy of a product or of a cart
\* entry is under way meanwhile
WebhooksApart == {{"webhook"}, {"webhook", "add"}, {"webhook", "edit"}}

Perms == Permutations(Handlers)
=============================================================================
