------------------------------ MODULE OfferCache ------------------------------
(***************************************************************************)
(* The offer engine and its readers.  A list offer:item:{id} of an item's  *)
(* offers is written by two paths: a created or terminated offer syncs the *)
(* items it names, with a lifetime; a look-up that finds no list reads the *)
(* table, general offers included, and stores what it read for good.  A    *)
(* turn of the agent looks up the items of its cart one after the other    *)
(* and bills what it was told.                                             *)
(***************************************************************************)
EXTENDS InvoiceTotals, FiniteSets, FiniteSetsExt, Functions

CONSTANTS
  Items,      \* item ids, in the order of sorted()
  Offers,     \* ids of offers that may be created
  Payload,    \* what each offer is created with
  Ops,        \* requests that create or terminate an offer
  Turns,      \* turns of the agent
  Carts,      \* line totals by item, 0 where there is no line
  MaxFaults,  \* bound on failed calls
  NoValue

(* item_ids is a list or null; only a combo names other items.             *)
ASSUME OfferAssumption ==
  /\ Items \subseteq Nat /\ IsFiniteSet(Items)
  /\ Payload \in [Offers -> [type: {"COMBO", "COUPON", "DISCOUNT", "FESTIVAL_CAMPAIGN"},
                             items: (SUBSET Items) \union {NoValue}, with: SUBSET Items,
                             kind: {"PERCENT", "FLAT", "CASHBACK"}, value: Nat]]
  /\ Carts \subseteq [Items -> Nat]
  /\ Ops \intersect Turns = {}
  /\ MaxFaults \in Nat

Procs == Ops \union Turns
Places == {"idle", "terminate", "sync", "lookup", "quoted", "billed", "done"}

VARIABLES
  state,   \* "none", "active" or "ended", of each offer
  cache,   \* offer:item:{id} of each item: a set of offers, or NoValue
  ttl,     \* items whose list has a lifetime
  pc,      \* where each process is
  target,  \* the offer an Op is about
  todo,    \* items still to sync or to look up
  copy,    \* the list a process has read from the table and not stored yet
  quote,   \* the offers a turn was told of
  bill,    \* the invoice of a turn
  late,    \* processes whose copy a commit has overtaken
  torn,    \* items whose last write was overtaken, or failed
  faults

procVars == <<pc, target, todo, copy>>
turnVars == <<quote, bill>>
vars == <<state, cache, ttl, procVars, turnVars, late, torn, faults>>

Init ==
  /\ state = [o \in Offers |-> "none"]
  /\ cache = [i \in Items |-> NoValue]
  /\ ttl = {}
  /\ pc = [p \in Procs |-> "idle"]
  /\ target = [p \in Ops |-> NoValue]
  /\ todo = [p \in Procs |-> {}]
  /\ copy = [p \in Procs |-> NoValue]
  /\ quote = [t \in Turns |-> {}]
  /\ bill = [t \in Turns |-> NoValue]
  /\ late = {} /\ torn = {}
  /\ faults = 0

Fault == faults < MaxFaults /\ faults' = faults + 1

Goes(p, where) == pc' = [pc EXCEPT ![p] = where]

(* The item a process is at: sync and look-up take them in order.          *)
At(p) == Min(todo[p])

(* The column item_ids.  A discount stores null for an empty list.         *)
StoredItems(o) ==
  IF Payload[o].type = "DISCOUNT" /\ Payload[o].items = {} THEN NoValue ELSE Payload[o].items

ItemsOf(o) == IF StoredItems(o) = NoValue THEN {} ELSE StoredItems(o)

Active == {o \in Offers : state[o] = "active"}

(* _active_offers_for_item, without the general offers.                    *)
ActiveFor(i) == {o \in Active : i \in ItemsOf(o)}
General == {o \in Offers : StoredItems(o) = NoValue}
-----------------------------------------------------------------------------
(* Mutant: a combo syncs the items it goes with only.                      *)
MutAffected(o) == IF Payload[o].with = {} THEN ItemsOf(o) ELSE Payload[o].with

(* The items a change of the offer syncs.  A general offer syncs none.     *)
Affected(o) == ItemsOf(o) \union Payload[o].with

(* A commit that makes an offer active or ends it, and what is left to do. *)
Commit(p, o, new) ==
  /\ state' = [state EXCEPT ![o] = new]
  /\ late' = late \union {q \in Procs : copy[q] # NoValue /\ At(q) \in ItemsOf(o)}
  /\ todo' = [todo EXCEPT ![p] = Affected(o)]
  /\ Goes(p, IF Affected(o) = {} THEN "done" ELSE "sync")
  /\ UNCHANGED <<cache, ttl, copy, turnVars, torn>>

(* What the create routes share.  One may create an offer that is not      *)
(* active.                                                                 *)
Create(p, o, type) ==
  /\ pc[p] = "idle" /\ state[o] = "none"
  /\ Payload[o].type = type
  /\ \E new \in {"active", "ended"} : Commit(p, o, new)
  /\ UNCHANGED <<target, faults>>

CreateCombo(p, o) == Create(p, o, "COMBO")
CreateCoupon(p, o) == Create(p, o, "COUPON")
CreateDiscount(p, o) == Create(p, o, "DISCOUNT")
CreateFestivalCampaign(p, o) == Create(p, o, "FESTIVAL_CAMPAIGN")

(* A combo needs stock of all its items, by the admin service: 409 or 503. *)
RefuseCombo(p, o) ==
  /\ pc[p] = "idle" /\ state[o] = "none"
  /\ Payload[o].type = "COMBO"
  /\ Goes(p, "done")
  /\ UNCHANGED <<state, cache, ttl, target, todo, copy, turnVars, late, torn, faults>>

(* terminate_offer reads the offer, and commits later.                     *)
ReadOffer(p, o) ==
  /\ pc[p] = "idle" /\ state[o] # "none"
  /\ IF state[o] = "active"
       THEN Goes(p, "terminate") /\ target' = [target EXCEPT ![p] = o]
       ELSE Goes(p, "done") /\ UNCHANGED target
  /\ UNCHANGED <<state, cache, ttl, todo, copy, turnVars, late, torn, faults>>

Terminate(p) ==
  /\ pc[p] = "terminate"
  /\ Commit(p, target[p], "ended")
  /\ target' = [target EXCEPT ![p] = NoValue]
  /\ UNCHANGED faults

(* The commit of a new offer or of a termination fails: it is rolled back. *)
CommitFails(p) ==
  /\ pc[p] \in {"idle", "terminate"}
  /\ Fault
  /\ Goes(p, "done")
  /\ target' = [target EXCEPT ![p] = NoValue]
  /\ UNCHANGED <<state, cache, ttl, todo, copy, turnVars, late, torn>>
-----------------------------------------------------------------------------
(* The list of the item p is at is stored, and p goes on.                  *)
Store(p) ==
  /\ cache' = [cache EXCEPT ![At(p)] = copy[p]]
  /\ torn' = IF p \in late THEN torn \union {At(p)} ELSE torn \ {At(p)}

(* Mutant: the table is read once for all the items.                       *)
MutAdvance(p, last) ==
  /\ todo' = [todo EXCEPT ![p] = @ \ {At(p)}]
  /\ UNCHANGED <<copy, late>>
  /\ Goes(p, IF todo[p] = {At(p)} THEN last ELSE pc[p])

Advance(p, last) ==
  /\ todo' = [todo EXCEPT ![p] = @ \ {At(p)}]
  /\ copy' = [copy EXCEPT ![p] = NoValue]
  /\ late' = late \ {p}
  /\ Goes(p, IF todo[p] = {At(p)} THEN last ELSE pc[p])

SyncSelect(p) ==
  /\ pc[p] = "sync" /\ copy[p] = NoValue
  /\ copy' = [copy EXCEPT ![p] = ActiveFor(At(p))]
  /\ UNCHANGED <<state, cache, ttl, pc, target, todo, turnVars, late, torn, faults>>

SyncSet(p) ==
  /\ pc[p] = "sync" /\ copy[p] # NoValue
  /\ Store(p)
  /\ ttl' = ttl \union {At(p)}
  /\ Advance(p, "done")
  /\ UNCHANGED <<state, target, turnVars, faults>>

(* An item that fails is skipped.                                          *)
SyncFails(p) ==
  /\ pc[p] = "sync"
  /\ Fault
  /\ torn' = torn \union {At(p)}
  /\ Advance(p, "done")
  /\ UNCHANGED <<state, cache, ttl, target, turnVars>>

(* The engine stops between the commit and the end of the sync.            *)
Crash(p) ==
  /\ pc[p] = "sync"
  /\ Fault
  /\ torn' = torn \union todo[p]
  /\ todo' = [todo EXCEPT ![p] = {}]
  /\ copy' = [copy EXCEPT ![p] = NoValue]
  /\ late' = late \ {p}
  /\ Goes(p, "done")
  /\ UNCHANGED <<state, cache, ttl, target, turnVars>>

Expire(i) ==
  /\ i \in ttl
  /\ cache' = [cache EXCEPT ![i] = NoValue]
  /\ ttl' = ttl \ {i}
  /\ UNCHANGED <<state, procVars, turnVars, late, torn, faults>>
-----------------------------------------------------------------------------
(* A turn starts to look up the items of its cart, which may have none.    *)
Begin(t, cart) ==
  /\ pc[t] = "idle"
  /\ todo' = [todo EXCEPT ![t] = {i \in Items : cart[i] > 0}]
  /\ bill' = [bill EXCEPT ![t] = [cart |-> cart]]
  /\ Goes(t, IF \E i \in Items : cart[i] > 0 THEN "lookup" ELSE "quoted")
  /\ UNCHANGED <<state, cache, ttl, target, copy, quote, late, torn, faults>>

Told(t, offers) == quote' = [quote EXCEPT ![t] = @ \union offers]

(* get_offers_by_item: a stored list counts, an empty one too.             *)
Hit(t) ==
  /\ pc[t] = "lookup" /\ copy[t] = NoValue
  /\ cache[At(t)] # NoValue
  /\ Told(t, cache[At(t)])
  /\ Advance(t, "quoted")
  /\ UNCHANGED <<state, cache, ttl, target, bill, torn, faults>>

(* Without a list, or without Redis, the table is read: the offers that    *)
(* name the item and the general ones.  A None of a create route is stored *)
(* as JSON null, which IS NULL does not match; a row whose item_ids were   *)
(* left out has SQL NULL, which does.                                      *)
Miss(t) ==
  /\ pc[t] = "lookup" /\ copy[t] = NoValue
  /\ \/ cache[At(t)] = NoValue /\ UNCHANGED faults
     \/ cache[At(t)] # NoValue /\ Fault
  /\ \E general \in {{}, General \intersect Active} :
       copy' = [copy EXCEPT ![t] = ActiveFor(At(t)) \union general]
  /\ UNCHANGED <<state, cache, ttl, pc, target, todo, turnVars, late, torn>>

(* What was read is stored without a lifetime.  An agent that did not wait *)
(* for the answer goes on without offers of the item.                      *)
Fill(t) ==
  /\ pc[t] = "lookup" /\ copy[t] # NoValue
  /\ Store(t)
  /\ ttl' = ttl \ {At(t)}
  /\ \/ Told(t, copy[t]) /\ UNCHANGED faults
     \/ Told(t, {}) /\ Fault
  /\ Advance(t, "quoted")
  /\ UNCHANGED <<state, target, bill>>

(* A failed SET is only a warning.                                         *)
FillFails(t) ==
  /\ pc[t] = "lookup" /\ copy[t] # NoValue
  /\ Fault
  /\ Told(t, copy[t])
  /\ Advance(t, "quoted")
  /\ UNCHANGED <<state, cache, ttl, target, bill, torn>>
-----------------------------------------------------------------------------
(* _offer_target_subtotal_paise: an offer without item_ids is on all lines.*)
TargetSubtotal(o, cart) ==
  SumFunctionOnSet(cart, IF ItemsOf(o) = {} THEN Items ELSE ItemsOf(o))

(* _build_accepted_offers.  A flat amount is not capped by its lines.      *)
Saved(o, cart) ==
  LET subtotal == TargetSubtotal(o, cart) IN
  IF subtotal = 0 THEN 0
  ELSE IF Payload[o].kind = "FLAT" THEN Payload[o].value
  ELSE (subtotal * Payload[o].value) \div 100

Bill(t) ==
  /\ pc[t] = "quoted"
  /\ LET cart == bill[t].cart
         subtotal == SumFunctionOnSet(cart, Items)
         discount == SumFunctionOnSet([o \in Offers |-> Saved(o, cart)], quote[t])
     IN  bill' = [bill EXCEPT ![t] = [cart |-> cart, subtotal |-> subtotal,
                    discount |-> discount, taxable |-> Taxable(subtotal, discount),
                    total |-> Total(subtotal, discount)]]
  /\ Goes(t, "billed")
  /\ UNCHANGED <<state, cache, ttl, target, todo, copy, quote, late, torn, faults>>

OpStep(p) ==
  \/ \E o \in Offers : \/ CreateCombo(p, o) \/ CreateCoupon(p, o) \/ CreateDiscount(p, o)
                      \/ CreateFestivalCampaign(p, o) \/ RefuseCombo(p, o) \/ ReadOffer(p, o)
  \/ Terminate(p) \/ CommitFails(p)
  \/ SyncSelect(p) \/ SyncSet(p) \/ SyncFails(p) \/ Crash(p)

TurnStep(t) ==
  \/ \E cart \in Carts : Begin(t, cart)
  \/ Hit(t) \/ Miss(t) \/ Fill(t) \/ FillFails(t) \/ Bill(t)

Next ==
  \/ \E p \in Ops : OpStep(p)
  \/ \E t \in Turns : TurnStep(t)
  \/ \E i \in Items : Expire(i)

Spec == Init /\ [][Next]_vars
-----------------------------------------------------------------------------
(* Every variable has values of its type.                                  *)
TypeOK ==
  /\ state \in [Offers -> {"none", "active", "ended"}]
  /\ cache \in [Items -> (SUBSET Offers) \union {NoValue}]
  /\ ttl \subseteq {i \in Items : cache[i] # NoValue}
  /\ pc \in [Procs -> Places]
  /\ todo \in [Procs -> SUBSET Items]
  /\ target \in [Ops -> Offers \union {NoValue}]
  /\ copy \in [Procs -> (SUBSET Offers) \union {NoValue}]
  /\ \A p \in Procs : copy[p] # NoValue => todo[p] # {}
  /\ quote \in [Turns -> SUBSET Offers]
  /\ bill \in [Turns -> {NoValue} \union [cart: Carts] \union
                [cart: Carts, subtotal: Nat, discount: Nat, taxable: Nat, total: Nat]]
  /\ late \subseteq Procs /\ torn \subseteq Items
  /\ faults \in 0..MaxFaults

(* Two paths write an item's list, each from a SELECT made before, while   *)
(* offers are created and terminated.  Still a stored list has exactly the *)
(* active offers that name the item, whichever path wrote it: unless an    *)
(* offer of the item has its sync ahead, or the last write came from a     *)
(* SELECT that a commit overtook, or failed.                               *)
ListsAgree ==
  \A i \in Items :
    cache[i] # NoValue /\ i \notin torn /\ (\A p \in Ops : i \notin todo[p])
      => cache[i] \ General = ActiveFor(i)

(* What an invoice may cost, against the cart without offers, and its tax. *)
Fair(subtotal, taxable, total) ==
  LET full == Total(subtotal, 0)
      tax == total - taxable - ShippingFor(taxable)
  IN  /\ \/ total <= full
         \/ /\ taxable < FreeShippingMin /\ subtotal >= FreeShippingMin
            /\ total < full + Shipping
      /\ tax * 10000 <= taxable * GstRate
      /\ GstRate % 2 = 0 => taxable * GstRate < (tax + 2) * 10000

(* An invoice of compute_invoice_totals, whatever offers were told, never  *)
(* costs more than the same cart without offers, except when the discount  *)
(* takes the cart below the free shipping minimum, and then by less than   *)
(* the shipping; and its tax is the exact GST less the two roundings.      *)
BillIsFair ==
  \A t \in Turns :
    pc[t] = "billed" => Fair(bill[t].subtotal, bill[t].taxable, bill[t].total)
===============================================================================
