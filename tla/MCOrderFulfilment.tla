-------------------------- MODULE MCOrderFulfilment --------------------------
(***************************************************************************)
(* Small instances of OrderFulfilment: two orders of one buyer order.      *)
(***************************************************************************)
EXTENDS OrderFulfilment, TLC

CONSTANTS o1, o2, p1, p2, r1, r2

\* Each order rents one product
TwoOrders == (o1 :> {p1}) @@ (o2 :> {p2})

\* Only o1 still has its product (o2's was deleted)
OneProduct == (o1 :> {p1}) @@ (o2 :> {})

\* The HTTP interface: any call at any time
AnyCall == ClientOps \X Status

\* The workflow: what the screens offer for an order in each status
Workflow == {<<"reject", "New order">>, <<"send", "New order">>,
             <<"receive", "Sent">>, <<"sendBack", "Received">>,
             <<"paySend", "Overdue">>, <<"return", "Sent back">>}

\* Only the vendors' half of the workflow, called at any time
VendorCalls == {"reject", "send"} \X Status

Perms == Permutations(Requests)
=============================================================================
