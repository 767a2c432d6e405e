------------------------------ MODULE MCOfferCache ----------------------------
(***************************************************************************)
(* A small instance of OfferCache: a discount on item 1, a combo of item 1 *)
(* with item 2, a coupon for all items, a campaign with an empty list;     *)
(* carts around the free shipping minimum, and one without lines.          *)
(***************************************************************************)
EXTENDS OfferCache, TLC

CONSTANTS DiscountOffer, ComboOffer, CouponOffer, CampaignOffer

MCPayload ==
  DiscountOffer :> [type |-> "DISCOUNT", items |-> {1}, with |-> {}, kind |-> "PERCENT", value |-> 33]
  @@ ComboOffer :> [type |-> "COMBO", items |-> {1}, with |-> {2}, kind |-> "FLAT", value |-> 70]
  @@ CouponOffer :> [type |-> "COUPON", items |-> NoValue, with |-> {}, kind |-> "CASHBACK", value |-> 1]
  @@ CampaignOffer :> [type |-> "FESTIVAL_CAMPAIGN", items |-> {}, with |-> {}, kind |-> "FLAT", value |-> 9]

MCCarts == {[i \in Items |-> IF i = 1 THEN 50030 ELSE 0],
            [i \in Items |-> IF i = 1 THEN 59 ELSE 51],
            [i \in Items |-> 0]}

OfferSymmetry == Permutations(Ops)
===============================================================================
