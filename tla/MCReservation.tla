---------------------------- MODULE MCReservation ----------------------------
(***************************************************************************)
(* Small instances of ReservationService.                                  *)
(***************************************************************************)
EXTENDS ReservationService, TLC

CONSTANTS a, b, r1, r2, r3, inv1, inv2

L(item, qty) == [item |-> item, qty |-> qty]

(* Two invoices that name the same two items in opposite order (their      *)
(* transactions can deadlock), one of them taking item a on two lines.     *)
CrossLines == r1 :> <<L(a, 1), L(b, 1)>> @@ r2 :> <<L(b, 1), L(a, 1), L(a, 1)>>
CrossStock == a :> 3 @@ b :> 1
CrossInvoices == r1 :> inv1 @@ r2 :> inv2

(* One invoice submitted twice, over one item, and an invoice without      *)
(* lines; two instances of the service scan at the same time.              *)
TwiceLines == r1 :> <<L(a, 1), L(a, 1)>> @@ r2 :> <<L(a, 2)>> @@ r3 :> <<>>
TwiceStock == a :> 4
TwiceInvoices == r1 :> inv1 @@ r2 :> inv1 @@ r3 :> inv2

(* For liveness: two crossing invoices that compete for the last unit of a *)
(* while there is enough of b.                                             *)
LiveLines == r1 :> <<L(a, 1), L(b, 1)>> @@ r2 :> <<L(b, 1), L(a, 1)>>
LiveStock == a :> 1 @@ b :> 2
LiveInvoices == r1 :> inv1 @@ r2 :> inv2
=============================================================================
