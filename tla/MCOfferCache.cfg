SPECIFICATION Spec
CONSTANTS
  DiscountOffer = DiscountOffer
  ComboOffer = ComboOffer
  CouponOffer = CouponOffer
  CampaignOffer = CampaignOffer
  GstRate = 500
  Shipping = 4000
  FreeShippingMin = 50000
  Items = {1, 2}
  Offers = {DiscountOffer, ComboOffer, CouponOffer, CampaignOffer}
  Payload <- MCPayload
  Ops = {p1, p2, p3}
  Turns = {t1}
  Carts <- MCCarts
  MaxFaults = 2
  NoValue = NoValue
SYMMETRY OfferSymmetry
CHECK_DEADLOCK FALSE
INVARIANTS TypeOK ListsAgree BillIsFair
