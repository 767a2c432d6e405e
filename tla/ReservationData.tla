-------------------------- MODULE ReservationData --------------------------
(***************************************************************************)
(* The invoices submitted to the reservation service and the               *)
(* reserved_items rows they turn into.  Shared by the abstract ledger and  *)
(* the detailed transactions.                                              *)
(***************************************************************************)
EXTENDS Integers, Sequences, FiniteSets

CONSTANTS
  Items,         \* rows of table items
  Requests,      \* calls of POST /reservation/submit-invoice
  Invoices,      \* the invoice ids those calls carry
  InvoiceOf,     \* [Requests -> Invoices]
  Lines,         \* [Requests -> Seq([item : Items, qty : 1..MaxQty])]
  MaxLines,      \* longest invoice
  MaxQty,        \* largest quantity of a line
  InitialStock   \* [Items -> Nat], quantity_available at the start

ASSUME LinesAssumption ==
  /\ MaxLines \in Nat
  /\ MaxQty \in Nat
  /\ InvoiceOf \in [Requests -> Invoices]
  /\ Lines \in [Requests -> Seq([item : Items, qty : 1..MaxQty])]
  /\ \A r \in Requests : Len(Lines[r]) <= MaxLines
  /\ InitialStock \in [Items -> Nat]

ASSUME FiniteAssumption == IsFiniteSet(Requests)

(* A row is named by the request that inserts it and the index of the      *)
(* invoice line it stands for (the code gives it a random id).             *)
Rows == {row \in Requests \X (1..MaxLines) : row[2] <= Len(Lines[row[1]])}

RowsOf(r) == {row \in Rows : row[1] = r}
RowsIn(R) == {row \in Rows : row[1] \in R}

ItemOf(row) == Lines[row[1]][row[2]].item
QtyOf(row)  == Lines[row[1]][row[2]].qty

(* The units of item i that a set of rows stands for, one element each.  A *)
(* quantity is counted with Cardinality instead of summed by recursion.    *)
UnitsOf(S, i) ==
  {u \in S \X (1..MaxQty) : ItemOf(u[1]) = i /\ u[2] <= QtyOf(u[1])}

Quantity(S, i) == Cardinality(UnitsOf(S, i))
=============================================================================
