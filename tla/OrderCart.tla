------------------------------ MODULE OrderCart ------------------------------
(***************************************************************************)
(* The draft order of a merchant-agent session and the pure functions the  *)
(* graph nodes apply to it.  A cart maps the product names asked for to    *)
(* draft lines.  Names stand for classes of similar names (_names_similar  *)
(* merges within a class, never across), and the catalogue has at most one *)
(* item per name and brand.                                                *)
(***************************************************************************)
EXTENDS Naturals, FiniteSets

CONSTANTS
  Names,    \* product names
  Brands,   \* brands
  Fields,   \* customer fields: customer_name, address, phone
  MaxQty,   \* bound on a quantity
  NoValue   \* a value that is absent (None)

ASSUME CartAssumption ==
  /\ MaxQty \in Nat \ {0}
  /\ NoValue \notin Brands \union (Names \X Brands)

Items == Names \X Brands

CatalogStatus == {"none", "resolved", "not_found", "ambiguous", "stockout_pending"}

(* A quantity of 0 is one the shopper has not given; priced is whether     *)
(* unit_price_paise is known.                                              *)
Line == [brand: Brands \union {NoValue}, qty: 0..MaxQty, item: Items \union {NoValue},
         priced: BOOLEAN, resolved: BOOLEAN, status: CatalogStatus]

Carts == UNION {[S -> Line] : S \in SUBSET Names}
EmptyCart == [n \in {} |-> NoValue]

(* What the language model extracts from a message.                        *)
SaidLines == UNION {[S -> [brand: Brands \union {NoValue}, qty: 0..MaxQty]] :
                    S \in SUBSET Names}
Intent == [lines: SaidLines, remove: SUBSET Names, fields: SUBSET Fields]

Only(cart, S) == [n \in S |-> cart[n]]

(* The lines held out of the order until a substitute is picked.           *)
Pending(cart) == {n \in DOMAIN cart : cart[n].status = "stockout_pending"}

WithDefaultQty(line) ==
  IF /\ line.qty = 0
     /\ line.status # "not_found"
     /\ line.brand # NoValue \/ line.item # NoValue \/ line.resolved
    THEN [line EXCEPT !.qty = 1]
    ELSE line
-----------------------------------------------------------------------------
(* parse_intent.  A line that is mentioned again, to change its quantity   *)
(* or to pick a substitute brand, has to be resolved anew.                 *)
Mentioned(line, said) ==
  [line EXCEPT !.brand = IF said.brand = NoValue THEN @ ELSE said.brand,
               !.qty = IF said.qty = 0 THEN @ ELSE said.qty,
               !.item = NoValue, !.resolved = FALSE, !.status = "none"]

NewLine(said) ==
  [brand |-> said.brand, qty |-> said.qty, item |-> NoValue, priced |-> FALSE,
   resolved |-> FALSE, status |-> "none"]

Parsed(cart, said) ==
  LET named == DOMAIN said.lines \ said.remove
      after(n) == IF n \notin named THEN cart[n]
                  ELSE IF n \in DOMAIN cart THEN Mentioned(cart[n], said.lines[n])
                  ELSE NewLine(said.lines[n])
  IN  [n \in (DOMAIN cart \union named) \ said.remove |-> WithDefaultQty(after(n))]

(* _apply_substitute_phrase: a product that the message names with its     *)
(* brand may take over a line of another name that waits for a substitute. *)
(* The code has two lines of that product then, the cart keeps one.        *)
Substituted(cart, said) ==
  LET branded == {n \in DOMAIN said.lines \ said.remove : said.lines[n].brand # NoValue}
  IN  {Only(cart, DOMAIN cart \ taken) :
         taken \in {D \in SUBSET Pending(cart) : Cardinality(D) <= Cardinality(branded)}}

(* Mutant: for a brand that is not listed, any other one will do.          *)
MutMatchesAnother(n, line, listed) ==
  LET same == {i \in listed : i = <<n, line.brand>>}
  IN  IF same # {} THEN same ELSE {i \in listed : i[1] = n}

Matches(n, line, listed) ==
  {i \in listed : i[1] = n /\ (line.brand = NoValue \/ i[2] = line.brand)}

(* resolve_catalog: one match resolves a line, several brands leave it     *)
(* ambiguous, none not found.  The last two keep the id and the price of   *)
(* an earlier resolution.                                                  *)
ResolvedLine(n, line, listed) ==
  LET found == Matches(n, line, listed)
  IN  IF line.status = "stockout_pending" THEN line
      ELSE IF Cardinality(found) = 1
        THEN LET i == CHOOSE x \in found : TRUE
             IN  [line EXCEPT !.item = i, !.brand = i[2], !.priced = TRUE,
                              !.resolved = TRUE, !.status = "resolved"]
      ELSE [line EXCEPT !.resolved = FALSE,
                        !.status = IF found = {} THEN "not_found" ELSE "ambiguous"]

Resolved(cart, listed) ==
  [n \in DOMAIN cart |-> WithDefaultQty(ResolvedLine(n, cart[n], listed))]

(* suggest_alternative holds the lines that are out of stock out of the    *)
(* order until the shopper picks a substitute.                             *)
StockoutPending(cart, unavailable) ==
  [n \in DOMAIN cart |->
    IF cart[n].item \in unavailable
      THEN [cart[n] EXCEPT !.resolved = FALSE, !.item = NoValue,
                           !.status = "stockout_pending"]
      ELSE cart[n]]
-----------------------------------------------------------------------------
Orderable(cart) ==
  {n \in DOMAIN cart : /\ cart[n].resolved
                       /\ cart[n].item # NoValue
                       /\ cart[n].qty # 0
                       /\ cart[n].status # "stockout_pending"}

NotFound(cart) == {n \in DOMAIN cart : cart[n].status = "not_found"}

BlockingUnresolved(cart) ==
  {n \in DOMAIN cart : /\ ~cart[n].resolved
                       /\ cart[n].status \notin {"not_found", "stockout_pending"}
                       /\ ~(cart[n].status = "ambiguous" /\ Orderable(cart) # {})}

MissingOfCart(cart) ==
  LET asked == DOMAIN cart \ NotFound(cart)
      noBrand == \E n \in asked : cart[n].brand = NoValue
      noQty(S) == \E n \in S : cart[n].qty = 0
      need(tag, b) == IF b THEN {tag} ELSE {}
  IN  IF Pending(cart) # {} THEN {"alternative"}
      ELSE IF DOMAIN cart = {} THEN {"product", "quantity"}
      ELSE IF Orderable(cart) # {}
        THEN need("quantity", noQty({n \in DOMAIN cart : cart[n].resolved}))
      ELSE need("product", noBrand \/ asked = {}) \union need("quantity", noQty(asked))

(* Mutant: the customer fields are not asked for.                          *)
MutMissingCartOnly(cart, known) == MissingOfCart(cart)

MissingFields(cart, known) == MissingOfCart(cart) \union (Fields \ known)
=============================================================================
