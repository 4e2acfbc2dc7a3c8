---------------------------- MODULE OrderLedger ----------------------------
(***************************************************************************)
(* What billing promises about the money of one account, with no trace of  *)
(* handlers, notifications, retries or the payment provider's protocol: an *)
(* order is opened, may lapse, is collected when the money has really been *)
(* taken, and a collected order is either granted, once, or refused for a  *)
(* manual refund.  BillingOrders implements this specification.            *)
(***************************************************************************)
CONSTANT Orders

VARIABLES
    ledger,     \* the standing of each order
    collected   \* orders whose money was taken (or waived by an administrator)

ledgerVars == <<ledger, collected>>

Standings == {"none", "open", "void", "due", "granted", "refused"}

LedgerInit ==
    /\ ledger = [o \in Orders |-> "none"]
    /\ collected = {}

Moves(o, from, to) == ledger[o] \in from /\ ledger' = [ledger EXCEPT ![o] = to]

Open(o) == Moves(o, {"none"}, "open") /\ UNCHANGED collected

\* The administrator renews: no payment is awaited.
OpenWaived(o) == Moves(o, {"none"}, "due") /\ collected' = collected \union {o}

Lapse(o) == Moves(o, {"open"}, "void") /\ UNCHANGED collected

\* The customer pays, perhaps after the shop has given the order up.
Collect(o) ==
    /\ ledger[o] \in {"open", "void"}
    /\ collected' = collected \union {o}
    /\ UNCHANGED ledger

\* The shop learns of the payment.
Acknowledge(o) ==
    /\ o \in collected
    /\ Moves(o, {"open", "void"}, "due")
    /\ UNCHANGED collected

Grant(o) == Moves(o, {"due"}, "granted") /\ UNCHANGED collected

\* Refused without ever having been granted, so the money can be returned.
Refuse(o) ==
    /\ o \in collected
    /\ Moves(o, {"open", "void", "due"}, "refused")
    /\ UNCHANGED collected

LedgerStep(o) ==
    \/ Open(o) \/ OpenWaived(o) \/ Lapse(o) \/ Collect(o)
    \/ Acknowledge(o) \/ Grant(o) \/ Refuse(o)

LedgerNext == \E o \in Orders : LedgerStep(o)

LedgerSpec == LedgerInit /\ [][LedgerNext]_ledgerVars
=============================================================================
