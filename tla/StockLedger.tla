----------------------------- MODULE StockLedger -----------------------------
(***************************************************************************)
(* What a shop promises about its stock, whatever protects it: a sale      *)
(* takes from the stock exactly what it sells, all of its products at      *)
(* once, and never more than there is.                                     *)
(***************************************************************************)
EXTENDS Naturals

CONSTANTS
    Products,
    InitialStock,  \* InitialStock[p]: the quantity of p before any sale
    Sales          \* what can be sold at once: functions from some of Products to Nat

VARIABLES
    stock,         \* stock[p]: what is left of p
    sold           \* sold[p]: what the stored orders hold of p

ledgerVars == <<stock, sold>>

LedgerInit ==
    /\ stock = InitialStock
    /\ sold = [p \in Products |-> 0]

\* How much of p a sale takes.
Taken(sale, p) == IF p \in DOMAIN sale THEN sale[p] ELSE 0

Sell(sale) ==
    /\ \A p \in DOMAIN sale : p \in Products /\ sale[p] <= stock[p]
    /\ stock' = [p \in Products |-> stock[p] - Taken(sale, p)]
    /\ sold' = [p \in Products |-> sold[p] + Taken(sale, p)]

LedgerNext == \E sale \in Sales : Sell(sale)

LedgerSpec == LedgerInit /\ [][LedgerNext]_ledgerVars

=============================================================================
