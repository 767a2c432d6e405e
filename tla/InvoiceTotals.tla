----------------------------- MODULE InvoiceTotals ----------------------------
(***************************************************************************)
(* The arithmetic of an invoice, in paise: shared/invoice_calc.            *)
(***************************************************************************)
EXTENDS Naturals

CONSTANTS
  GstRate,         \* invoice_gst_rate_bps
  Shipping,        \* invoice_shipping_paise
  FreeShippingMin  \* invoice_free_shipping_min_paise

ASSUME TotalsAssumption == GstRate \in Nat /\ Shipping \in Nat /\ FreeShippingMin \in Nat

Taxable(subtotal, discount) == IF discount >= subtotal THEN 0 ELSE subtotal - discount

(* Mutant: each half is rounded up.                                        *)
MutHalfTax(taxable) == (taxable * (GstRate \div 2) + 9999) \div 10000

(* CGST and SGST are half the rate each, rounded down each.                *)
HalfTax(taxable) == (taxable * (GstRate \div 2)) \div 10000

ShippingFor(taxable) == IF taxable >= FreeShippingMin THEN 0 ELSE Shipping

Total(subtotal, discount) ==
  LET taxable == Taxable(subtotal, discount)
  IN  taxable + 2 * HalfTax(taxable) + ShippingFor(taxable)
===============================================================================
