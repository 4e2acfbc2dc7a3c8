-------------------------- MODULE BillingOrdersMC --------------------------
(* Two orders of different levels, one request handler beside the minute    *)
(* job, two payloads per payment.  The clock is long enough for an order to *)
(* expire unpaid and for a subscription to run out and be bought again.     *)
EXTENDS BillingOrders, TLC

\* Orders, payloads and handlers are interchangeable: safety runs only.
Symmetry == Permutations(Orders) \union Permutations(Events) \union Permutations(Handlers)
=============================================================================
