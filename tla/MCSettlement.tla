---------------------------- MODULE MCSettlement ----------------------------
(***************************************************************************)
(* Small instances of PaymentSettlement: one request and the reports of    *)
(* its payment, one unrelated payment and one forged post.                 *)
(***************************************************************************)
EXTENDS PaymentSettlement, TLC

CONSTANTS a, r1, inv1, ord1, ord2, pay1, pay2, cap, fail, gone, bare, forged

MCLines == r1 :> <<[item |-> a, qty |-> 1]>>
MCInvoices == r1 :> inv1
MCStock == a :> 1

(* cap reports the payment of inv1, fail an earlier failed attempt of it   *)
(* and gone the expiry of its link (no payment entity); bare reports a     *)
(* payment made by no link of ours; forged is unsigned.                    *)
MCNote == [e \in Events |-> IF e = bare THEN None ELSE inv1]
MCOrder == [e \in Events |-> IF e = gone THEN None ELSE IF e = bare THEN ord2 ELSE ord1]
MCPayment == [e \in Events |->
               IF e = gone THEN None ELSE IF e \in {bare, forged} THEN pay2 ELSE pay1]
MCKind == [e \in Events |-> IF e = gone THEN "expired"
                            ELSE IF e = fail THEN "failed" ELSE "captured"]
=============================================================================
