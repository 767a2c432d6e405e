---------------------------- MODULE StockLedger ----------------------------
(***************************************************************************)
(* What the reservation service promises, with every transaction a single  *)
(* step: a request takes all of its lines or nothing, and a hold ends      *)
(* exactly once, either released (its units go back on the shelf) or paid  *)
(* (they never do).  ReservationService implements this specification.     *)
(***************************************************************************)
EXTENDS ReservationData

VARIABLES
  avail,   \* [Items -> Nat]: units on the shelf
  hold     \* [Requests -> HoldState]

ledgerVars == <<avail, hold>>

HoldState == {"none", "held", "released", "paid"}

LedgerInit ==
  /\ avail = InitialStock
  /\ hold = [r \in Requests |-> "none"]

(* A request is granted only when the shelf covers the whole of it.        *)
Grant(r) ==
  /\ hold[r] = "none"
  /\ \A i \in Items : Quantity(RowsOf(r), i) <= avail[i]
  /\ avail' = [i \in Items |-> avail[i] - Quantity(RowsOf(r), i)]
  /\ hold' = [hold EXCEPT ![r] = "held"]

(* One scan ends several holds together and puts their units back.         *)
Release(R) ==
  /\ \A r \in R : hold[r] = "held"
  /\ avail' = [i \in Items |-> avail[i] + Quantity(RowsIn(R), i)]
  /\ hold' = [r \in Requests |-> IF r \in R THEN "released" ELSE hold[r]]

(* A payment settles holds of one invoice; the shelf does not change.      *)
Settle(inv, R) ==
  /\ \A r \in R : hold[r] = "held" /\ InvoiceOf[r] = inv
  /\ hold' = [r \in Requests |-> IF r \in R THEN "paid" ELSE hold[r]]
  /\ UNCHANGED avail

LedgerNext ==
  \/ \E r \in Requests : Grant(r)
  \/ \E R \in SUBSET Requests : Release(R)
  \/ \E inv \in Invoices, R \in SUBSET Requests : Settle(inv, R)

LedgerSpec == LedgerInit /\ [][LedgerNext]_ledgerVars
=============================================================================
