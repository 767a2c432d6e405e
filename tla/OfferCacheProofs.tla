--------------------------- MODULE OfferCacheProofs ---------------------------
(***************************************************************************)
(* Proofs about OfferCache: what a stored offer list says, for any items,  *)
(* offers, requests and turns.                                             *)
(***************************************************************************)
EXTENDS OfferCache, SumTheorems, TLAPS

(* The shape of the variables the argument is about.                       *)
ShapeInv ==
  /\ DOMAIN state = Offers
  /\ DOMAIN cache = Items
  /\ DOMAIN pc = Procs /\ DOMAIN todo = Procs /\ DOMAIN copy = Procs

(* A process that has not committed or begun has no items and no copy.     *)
FreshInv ==
  \A p \in Procs : pc[p] \in {"idle", "terminate"} => todo[p] = {} /\ copy[p] = NoValue

(* A copy that no commit has overtaken is what the table says.             *)
CopyInv ==
  \A p \in Procs : copy[p] # NoValue /\ p \notin late => copy[p] \ General = ActiveFor(At(p))

(* The inductive invariant.                                                *)
ListInv == ShapeInv /\ FreshInv /\ CopyInv /\ ListsAgree
-----------------------------------------------------------------------------
(* A general offer names no item.                                          *)
LEMMA GeneralNamesNone ==
  ASSUME NEW i \in Items
  PROVE  \A o \in General : o \notin ActiveFor(i)
  BY DEF General, ActiveFor, ItemsOf

(* A change of one offer changes the lists of the items it names only.     *)
LEMMA OnlyItsItems ==
  ASSUME ShapeInv, NEW o, NEW new, state' = [state EXCEPT ![o] = new],
         NEW i, i \notin ItemsOf(o)
  PROVE  ActiveFor(i)' = ActiveFor(i)
  BY DEF ShapeInv, ActiveFor, Active, ItemsOf, StoredItems

LEMMA SameLists ==
  ASSUME UNCHANGED state, NEW i
  PROVE  ActiveFor(i)' = ActiveFor(i)
  BY DEF ActiveFor, Active, ItemsOf, StoredItems

LEMMA SameGeneral == General' = General
  BY DEF General, StoredItems

(* The initial states satisfy the invariant.                               *)
LEMMA ListInit == Init => ListInv
  BY DEF Init, ListInv, ShapeInv, FreshInv, CopyInv, ListsAgree, Procs
-----------------------------------------------------------------------------
(* A commit: the copies it overtakes are late, the lists it makes wrong    *)
(* are to be synced.                                                       *)
LEMMA CommitKeeps ==
  ASSUME ListInv, NEW p \in Ops, NEW o, NEW new,
         pc[p] \in {"idle", "terminate"}, Commit(p, o, new)
  PROVE  ListInv'
  <1>1. ShapeInv'
    BY DEF ListInv, ShapeInv, Commit, Goes
  <1>2. FreshInv'
    BY DEF ListInv, ShapeInv, FreshInv, Commit, Goes, Procs
  <1>3. CopyInv'
    <2> SUFFICES ASSUME NEW q \in Procs, copy[q] # NoValue, q \notin late'
                 PROVE  copy[q] \ General = ActiveFor(At(q))'
      BY SameGeneral DEF CopyInv, Commit
    <2>1. q # p /\ q \notin late /\ At(q) \notin ItemsOf(o)
      BY DEF ListInv, FreshInv, Commit
    <2>2. At(q)' = At(q)
      BY <2>1 DEF ListInv, ShapeInv, Commit, At
    <2>3. ActiveFor(At(q))' = ActiveFor(At(q))
      <3> DEFINE i == At(q)
      <3>1. ActiveFor(i)' = ActiveFor(i)
        BY <2>1, <2>2, OnlyItsItems DEF ListInv, Commit
      <3> QED BY <3>1, <2>2
    <2> QED BY <2>1, <2>3 DEF ListInv, CopyInv
  <1>4. ListsAgree'
    <2> SUFFICES ASSUME NEW i \in Items, cache[i] # NoValue, i \notin torn,
                        \A q \in Ops : i \notin todo'[q]
                 PROVE  cache[i] \ General = ActiveFor(i)'
      BY SameGeneral DEF ListsAgree, Commit
    <2>1. i \notin ItemsOf(o) /\ \A q \in Ops : i \notin todo[q]
      BY DEF ListInv, ShapeInv, FreshInv, Commit, Affected, Procs
    <2>2. ActiveFor(i)' = ActiveFor(i)
      BY <2>1, OnlyItsItems DEF ListInv, Commit
    <2> QED BY <2>1, <2>2 DEF ListInv, ListsAgree
  <1> QED BY <1>1, <1>2, <1>3, <1>4 DEF ListInv

(* A process that goes on to its next item has no copy any more; those of  *)
(* the others are untouched.                                               *)
LEMMA AdvanceKeeps ==
  ASSUME ListInv, NEW p \in Procs, NEW last, last \in {"done", "quoted"},
         pc[p] \in {"sync", "lookup"}, Advance(p, last), UNCHANGED state,
         DOMAIN cache' = Items
  PROVE  ShapeInv' /\ FreshInv' /\ CopyInv'
  <1>1. ShapeInv'
    BY DEF ListInv, ShapeInv, Advance, Goes
  <1>2. FreshInv'
    <2> SUFFICES ASSUME NEW q \in Procs, pc'[q] \in {"idle", "terminate"}
                 PROVE  todo'[q] = {} /\ copy'[q] = NoValue
      BY DEF FreshInv
    <2>1. q # p
      BY DEF ListInv, ShapeInv, Advance, Goes
    <2> QED BY <2>1 DEF ListInv, ShapeInv, FreshInv, Advance, Goes, Procs
  <1>3. CopyInv'
    <2> SUFFICES ASSUME NEW q \in Procs, copy'[q] # NoValue, q \notin late'
                 PROVE  copy'[q] \ General = ActiveFor(At(q))'
      BY SameGeneral DEF CopyInv
    <2>1. q # p /\ q \notin late /\ copy'[q] = copy[q] /\ todo'[q] = todo[q]
      BY DEF ListInv, ShapeInv, Advance
    <2>2. ActiveFor(At(q))' = ActiveFor(At(q))
      BY <2>1 DEF At, ActiveFor, Active, ItemsOf, StoredItems
    <2> QED BY <2>1, <2>2 DEF ListInv, CopyInv
  <1> QED BY <1>1, <1>2, <1>3

(* The list of an item is stored: it is the table's, or marked torn.       *)
LEMMA StoreKeeps ==
  ASSUME ListInv, NEW p \in Procs, NEW last, last \in {"done", "quoted"},
         pc[p] \in {"sync", "lookup"}, copy[p] # NoValue,
         Store(p), Advance(p, last), UNCHANGED state
  PROVE  ListInv'
  <1>1. ShapeInv' /\ FreshInv' /\ CopyInv'
    BY AdvanceKeeps DEF ListInv, ShapeInv, Store
  <1>2. ListsAgree'
    <2> SUFFICES ASSUME NEW i \in Items, cache'[i] # NoValue, i \notin torn',
                        \A q \in Ops : i \notin todo'[q]
                 PROVE  cache'[i] \ General = ActiveFor(i)
      BY SameGeneral, SameLists DEF ListsAgree
    <2>1. CASE i = At(p)
      BY <2>1 DEF ListInv, ShapeInv, CopyInv, Store
    <2>2. CASE i # At(p)
      <3>1. cache'[i] = cache[i] /\ i \notin torn
        BY <2>2 DEF ListInv, ShapeInv, Store
      <3>2. \A q \in Ops : i \notin todo[q]
        BY <2>2 DEF ListInv, ShapeInv, Advance, Procs
      <3> QED BY <3>1, <3>2 DEF ListInv, ListsAgree
    <2> QED BY <2>1, <2>2
  <1> QED BY <1>1, <1>2 DEF ListInv

(* An item whose sync is given up is marked torn.                          *)
LEMMA SyncFailsKeeps ==
  ASSUME ListInv, NEW p \in Ops, SyncFails(p)
  PROVE  ListInv'
  <1>1. ShapeInv' /\ FreshInv' /\ CopyInv'
    BY AdvanceKeeps DEF ListInv, ShapeInv, SyncFails, Procs
  <1>2. ListsAgree'
    <2> SUFFICES ASSUME NEW i \in Items, cache[i] # NoValue, i \notin torn',
                        \A q \in Ops : i \notin todo'[q]
                 PROVE  cache[i] \ General = ActiveFor(i)
      BY SameGeneral, SameLists DEF ListsAgree, SyncFails
    <2>1. i # At(p) /\ i \notin torn
      BY DEF SyncFails
    <2>2. \A q \in Ops : i \notin todo[q]
      BY <2>1 DEF ListInv, ShapeInv, SyncFails, Advance, Procs
    <2> QED BY <2>1, <2>2 DEF ListInv, ListsAgree
  <1> QED BY <1>1, <1>2 DEF ListInv

LEMMA CrashKeeps ==
  ASSUME ListInv, NEW p \in Ops, Crash(p)
  PROVE  ListInv'
  <1>1. ShapeInv'
    BY DEF ListInv, ShapeInv, Crash, Goes
  <1>2. FreshInv'
    BY DEF ListInv, ShapeInv, FreshInv, Crash, Goes, Procs
  <1>3. CopyInv'
    <2> SUFFICES ASSUME NEW q \in Procs, copy'[q] # NoValue, q \notin late'
                 PROVE  copy'[q] \ General = ActiveFor(At(q))'
      BY SameGeneral DEF CopyInv
    <2>1. q # p /\ q \notin late /\ copy'[q] = copy[q] /\ todo'[q] = todo[q]
      BY DEF ListInv, ShapeInv, Crash
    <2>2. ActiveFor(At(q))' = ActiveFor(At(q))
      BY <2>1 DEF Crash, At, ActiveFor, Active, ItemsOf, StoredItems
    <2> QED BY <2>1, <2>2 DEF ListInv, CopyInv
  <1>4. ListsAgree'
    <2> SUFFICES ASSUME NEW i \in Items, cache[i] # NoValue, i \notin torn',
                        \A q \in Ops : i \notin todo'[q]
                 PROVE  cache[i] \ General = ActiveFor(i)
      BY SameGeneral, SameLists DEF ListsAgree, Crash
    <2>1. i \notin torn /\ \A q \in Ops : i \notin todo[q]
      BY DEF ListInv, ShapeInv, Crash, Procs
    <2> QED BY <2>1 DEF ListInv, ListsAgree
  <1> QED BY <1>1, <1>2, <1>3, <1>4 DEF ListInv

(* A SELECT: the new copy is what the table says.                          *)
LEMMA SelectKeeps ==
  ASSUME ListInv, NEW p \in Procs, pc[p] \in {"sync", "lookup"},
         NEW general \in SUBSET General,
         copy' = [copy EXCEPT ![p] = ActiveFor(At(p)) \union general],
         UNCHANGED <<state, cache, pc, todo, late, torn>>
  PROVE  ListInv'
  <1>1. ShapeInv'
    BY DEF ListInv, ShapeInv
  <1>2. FreshInv'
    BY DEF ListInv, ShapeInv, FreshInv, Procs
  <1>3. CopyInv'
    <2> SUFFICES ASSUME NEW q \in Procs, copy'[q] # NoValue, q \notin late
                 PROVE  copy'[q] \ General = ActiveFor(At(q))
      BY SameGeneral DEF CopyInv, At, ActiveFor, Active, ItemsOf, StoredItems
    <2>1. CASE q = p
      <3>1. copy'[q] = ActiveFor(At(q)) \union general
        BY <2>1 DEF ListInv, ShapeInv
      <3>2. \A o \in General : o \notin ActiveFor(At(q))
        BY DEF General, ActiveFor, ItemsOf
      <3> QED BY <3>1, <3>2
    <2>2. CASE q # p
      BY <2>2 DEF ListInv, ShapeInv, CopyInv
    <2> QED BY <2>1, <2>2
  <1>4. ListsAgree'
    BY SameGeneral, SameLists DEF ListInv, ListsAgree
  <1> QED BY <1>1, <1>2, <1>3, <1>4 DEF ListInv

(* Steps that touch neither table, lists nor copies, and give no request   *)
(* less to sync.                                                           *)
LEMMA FrameKeeps ==
  ASSUME ListInv, UNCHANGED <<state, cache, copy, late, torn>>,
         DOMAIN pc' = Procs, DOMAIN todo' = Procs,
         FreshInv',
         \A p \in Ops : todo'[p] = todo[p],
         \A p \in Procs : copy[p] # NoValue => todo'[p] = todo[p]
  PROVE  ListInv'
  <1>1. ShapeInv'
    BY DEF ListInv, ShapeInv
  <1>2. CopyInv'
    <2> SUFFICES ASSUME NEW q \in Procs, copy[q] # NoValue, q \notin late
                 PROVE  copy[q] \ General = ActiveFor(At(q))'
      BY SameGeneral DEF CopyInv
    <2>1. ActiveFor(At(q))' = ActiveFor(At(q))
      BY DEF At, ActiveFor, Active, ItemsOf, StoredItems
    <2> QED BY <2>1 DEF ListInv, CopyInv
  <1>3. ListsAgree'
    BY SameGeneral, SameLists DEF ListInv, ListsAgree
  <1> QED BY <1>1, <1>2, <1>3 DEF ListInv
-----------------------------------------------------------------------------
(* Every step of a create or terminate request.                            *)
LEMMA OpKeeps ==
  ASSUME ListInv, NEW p \in Ops, OpStep(p)
  PROVE  ListInv'
  <1>1. ASSUME NEW o \in Offers, NEW type, Create(p, o, type)
        PROVE  ListInv'
    BY <1>1, CommitKeeps DEF Create
  <1>2. ASSUME NEW o \in Offers, RefuseCombo(p, o) \/ ReadOffer(p, o)
        PROVE  ListInv'
    <2>1. DOMAIN pc' = Procs
      BY <1>2 DEF ListInv, ShapeInv, RefuseCombo, ReadOffer, Goes
    <2>2. FreshInv'
      BY <1>2 DEF ListInv, ShapeInv, FreshInv, RefuseCombo, ReadOffer, Goes, Procs
    <2>3. UNCHANGED <<state, cache, copy, late, torn, todo>>
      BY <1>2 DEF RefuseCombo, ReadOffer
    <2> QED BY <2>1, <2>2, <2>3, FrameKeeps DEF ListInv, ShapeInv
  <1>3. CASE Terminate(p)
    BY <1>3, CommitKeeps DEF Terminate
  <1>4. CASE CommitFails(p)
    <2>1. DOMAIN pc' = Procs
      BY <1>4 DEF ListInv, ShapeInv, CommitFails, Goes
    <2>2. FreshInv'
      BY <1>4 DEF ListInv, ShapeInv, FreshInv, CommitFails, Goes, Procs
    <2>3. UNCHANGED <<state, cache, copy, late, torn, todo>>
      BY <1>4 DEF CommitFails
    <2> QED BY <2>1, <2>2, <2>3, FrameKeeps DEF ListInv, ShapeInv
  <1>5. CASE SyncSelect(p)
    <2> DEFINE none == {}
    <2>1. copy' = [copy EXCEPT ![p] = ActiveFor(At(p)) \union none]
      BY <1>5 DEF SyncSelect
    <2>2. none \in SUBSET General
      OBVIOUS
    <2> HIDE DEF none
    <2> QED BY <1>5, <2>1, <2>2, SelectKeeps DEF SyncSelect, Procs
  <1>6. CASE SyncSet(p)
    BY <1>6, StoreKeeps DEF SyncSet, Procs
  <1>7. CASE SyncFails(p)
    BY <1>7, SyncFailsKeeps
  <1>8. CASE Crash(p)
    BY <1>8, CrashKeeps
  <1> QED BY <1>1, <1>2, <1>3, <1>4, <1>5, <1>6, <1>7, <1>8
          DEF OpStep, CreateCombo, CreateCoupon, CreateDiscount, CreateFestivalCampaign

(* Every step of a turn.                                                   *)
LEMMA TurnKeeps ==
  ASSUME ListInv, NEW t \in Turns, TurnStep(t)
  PROVE  ListInv'
  <1> USE DEF Procs
  <1> t \notin Ops
    BY OfferAssumption
  <1>1. ASSUME NEW cart \in Carts, Begin(t, cart)
        PROVE  ListInv'
    <2>1. DOMAIN pc' = Procs /\ DOMAIN todo' = Procs
      BY <1>1 DEF ListInv, ShapeInv, Begin, Goes
    <2>2. \A p \in Ops : todo'[p] = todo[p] /\ pc'[p] = pc[p]
      BY <1>1 DEF ListInv, ShapeInv, Begin, Goes
    <2>3. copy[t] = NoValue
      BY <1>1 DEF ListInv, FreshInv, Begin
    <2>4. FreshInv'
      BY <1>1 DEF ListInv, ShapeInv, FreshInv, Begin, Goes
    <2>5. \A p \in Procs : copy[p] # NoValue => todo'[p] = todo[p]
      BY <1>1, <2>3 DEF ListInv, ShapeInv, Begin
    <2>6. UNCHANGED <<state, cache, copy, late, torn>>
      BY <1>1 DEF Begin
    <2> QED BY <2>1, <2>2, <2>4, <2>5, <2>6, FrameKeeps
  <1>2. CASE Hit(t)
    <2>1. ShapeInv' /\ FreshInv' /\ CopyInv'
      BY <1>2, AdvanceKeeps DEF Hit, ListInv, ShapeInv
    <2>2. \A p \in Ops : todo'[p] = todo[p]
      BY <1>2 DEF ListInv, ShapeInv, Hit, Advance
    <2>3. ListsAgree'
      BY <1>2, <2>2, SameGeneral, SameLists DEF ListInv, ListsAgree, Hit
    <2> QED BY <2>1, <2>3 DEF ListInv
  <1>3. CASE Miss(t)
    <2>1. PICK general \in {{}, General \intersect Active} :
            copy' = [copy EXCEPT ![t] = ActiveFor(At(t)) \union general]
      BY <1>3 DEF Miss
    <2>2. general \in SUBSET General
      OBVIOUS
    <2> QED BY <1>3, <2>1, <2>2, SelectKeeps DEF Miss
  <1>4. CASE Fill(t)
    BY <1>4, StoreKeeps DEF Fill
  <1>5. CASE FillFails(t)
    <2>1. ShapeInv' /\ FreshInv' /\ CopyInv'
      BY <1>5, AdvanceKeeps DEF FillFails, ListInv, ShapeInv
    <2>2. \A p \in Ops : todo'[p] = todo[p]
      BY <1>5 DEF ListInv, ShapeInv, FillFails, Advance
    <2>3. ListsAgree'
      BY <1>5, <2>2, SameGeneral, SameLists DEF ListInv, ListsAgree, FillFails
    <2> QED BY <2>1, <2>3 DEF ListInv
  <1>6. CASE Bill(t)
    <2>1. DOMAIN pc' = Procs
      BY <1>6 DEF ListInv, ShapeInv, Bill, Goes
    <2>2. FreshInv'
      BY <1>6 DEF ListInv, ShapeInv, FreshInv, Bill, Goes
    <2>3. UNCHANGED <<state, cache, copy, late, torn, todo>>
      BY <1>6 DEF Bill
    <2> QED BY <2>1, <2>2, <2>3, FrameKeeps DEF ListInv, ShapeInv
  <1> QED BY <1>1, <1>2, <1>3, <1>4, <1>5, <1>6 DEF TurnStep

(* The invariant is kept by every step.                                    *)
LEMMA ListStep == ListInv /\ [Next]_vars => ListInv'
  <1> SUFFICES ASSUME ListInv, [Next]_vars
               PROVE  ListInv'
    OBVIOUS
  <1>1. CASE \E p \in Ops : OpStep(p)
    BY <1>1, OpKeeps
  <1>2. CASE \E t \in Turns : TurnStep(t)
    BY <1>2, TurnKeeps
  <1>3. ASSUME NEW i \in Items, Expire(i)
        PROVE  ListInv'
    <2>1. UNCHANGED <<state, pc, todo, copy, late, torn>>
      BY <1>3 DEF Expire, procVars
    <2>2. ShapeInv' /\ FreshInv'
      BY <1>3, <2>1 DEF ListInv, ShapeInv, FreshInv, Expire
    <2>3. CopyInv'
      BY <2>1, SameGeneral DEF ListInv, CopyInv, At, ActiveFor, Active, ItemsOf, StoredItems
    <2>4. ListsAgree'
      BY <1>3, <2>1, SameGeneral, SameLists DEF ListInv, ShapeInv, ListsAgree, Expire
    <2> QED BY <2>2, <2>3, <2>4 DEF ListInv
  <1>4. CASE UNCHANGED vars
    <2>1. UNCHANGED <<state, cache, pc, todo, copy, late, torn>>
      BY <1>4 DEF vars, procVars
    <2>2. FreshInv'
      BY <2>1 DEF ListInv, FreshInv
    <2> QED BY <2>1, <2>2, FrameKeeps DEF ListInv, ShapeInv
  <1> QED BY <1>1, <1>2, <1>3, <1>4 DEF Next

(* The two writers of the offer lists, sync_offer_item_cache and           *)
(* get_offers_by_item, leave in a list exactly the active offers that name *)
(* its item, unless a sync is still to come or the last write was          *)
(* overtaken or failed; for any offers, requests and turns.                *)
THEOREM StoredListsAgree == Spec => []ListsAgree
  <1>1. ListInv => ListsAgree
    BY DEF ListInv
  <1> QED BY <1>1, ListInit, ListStep, PTL DEF Spec
-----------------------------------------------------------------------------
(* A quotient by 10000 is the number of whole parts.                       *)
LEMMA WholeParts ==
  ASSUME NEW x \in Nat
  PROVE  /\ x \div 10000 \in Nat
         /\ 10000 * (x \div 10000) <= x
         /\ x < 10000 * (x \div 10000) + 10000
  BY SMT

LEMMA Products ==
  ASSUME NEW x \in Nat, NEW y \in Nat, NEW z \in Nat, x <= y
  PROVE  x * z \in Nat /\ y * z \in Nat /\ x * z <= y * z
  BY SMT

(* The tax grows with the amount.                                          *)
LEMMA TaxGrows ==
  ASSUME NEW x \in Nat, NEW y \in Nat, x <= y
  PROVE  HalfTax(x) \in Nat /\ HalfTax(y) \in Nat /\ HalfTax(x) <= HalfTax(y)
  <1> DEFINE g == GstRate \div 2
             a == x * g
             b == y * g
  <1>1. g \in Nat
    BY TotalsAssumption
  <1>2. a \in Nat /\ b \in Nat /\ a <= b
    BY <1>1, Products
  <1>3. HalfTax(x) = a \div 10000 /\ HalfTax(y) = b \div 10000
    BY DEF HalfTax
  <1> HIDE DEF a, b
  <1>4. a \div 10000 <= b \div 10000
    BY <1>2, WholeParts
  <1> QED BY <1>2, <1>3, <1>4, WholeParts

(* The two halves are at most the exact tax, and less than two paise short *)
(* of it when the rate is even.                                            *)
LEMMA TaxIsClose ==
  ASSUME NEW x \in Nat
  PROVE  /\ (2 * HalfTax(x)) * 10000 <= x * GstRate
         /\ GstRate % 2 = 0 => x * GstRate < (2 * HalfTax(x) + 2) * 10000
  <1> DEFINE g == GstRate \div 2
             a == x * g
             h == HalfTax(x)
  <1>1. g \in Nat /\ 2 * g <= GstRate /\ (GstRate % 2 = 0 => 2 * g = GstRate)
    BY TotalsAssumption
  <1>2. a \in Nat
    BY <1>1, Products
  <1>3. h = a \div 10000
    BY DEF HalfTax
  <1>4. x * (2 * g) = 2 * a
    BY <1>1
  <1>5. x * (2 * g) <= x * GstRate /\ x * GstRate \in Nat
    <2>1. (2 * g) * x <= GstRate * x /\ GstRate * x \in Nat
      BY <1>1, Products, TotalsAssumption
    <2>2. (2 * g) * x = x * (2 * g) /\ GstRate * x = x * GstRate
      BY <1>1, TotalsAssumption
    <2> QED BY <2>1, <2>2
  <1> HIDE DEF g, a, h
  <1>6. h \in Nat /\ 10000 * h <= a /\ a < 10000 * h + 10000
    BY <1>2, <1>3, WholeParts
  <1>7. (2 * h) * 10000 <= 2 * a /\ 2 * a < (2 * h + 2) * 10000
    BY <1>2, <1>6
  <1>8. (2 * h) * 10000 <= x * GstRate
    <2> DEFINE e == x * GstRate
    <2>1. 2 * a <= e /\ e \in Nat
      BY <1>4, <1>5
    <2> HIDE DEF e
    <2>2. (2 * h) * 10000 <= e
      BY <1>2, <1>6, <1>7, <2>1
    <2> QED BY <2>2 DEF e
  <1>9. ASSUME GstRate % 2 = 0
        PROVE  x * GstRate < (2 * h + 2) * 10000
    BY <1>1, <1>4, <1>7, <1>9
  <1> QED BY <1>8, <1>9 DEF h

(* compute_invoice_totals is fair for every subtotal, every discount and   *)
(* every setting of the rate, the shipping and the free shipping minimum:  *)
(* an offer makes a cart dearer only by the free shipping it loses, and    *)
(* the two rounded halves of the tax lose less than two paise.             *)
THEOREM TotalsAreFair ==
  \A subtotal \in Nat, discount \in Nat :
    Fair(subtotal, Taxable(subtotal, discount), Total(subtotal, discount))
  <1> SUFFICES ASSUME NEW s \in Nat, NEW d \in Nat
               PROVE  Fair(s, Taxable(s, d), Total(s, d))
    OBVIOUS
  <1> DEFINE t == Taxable(s, d)
             tax == 2 * HalfTax(t)
             fullTax == 2 * HalfTax(s)
  <1>1. t \in Nat /\ t <= s
    BY DEF Taxable
  <1>2. tax \in Nat /\ fullTax \in Nat /\ tax <= fullTax
    BY <1>1, TaxGrows
  <1>3. Taxable(s, 0) = s
    BY DEF Taxable
  <1>4. Total(s, d) = t + tax + ShippingFor(t) /\ Total(s, 0) = s + fullTax + ShippingFor(s)
    BY <1>3 DEF Total
  <1>5. tax * 10000 <= t * GstRate /\ (GstRate % 2 = 0 => t * GstRate < (tax + 2) * 10000)
    BY <1>1, TaxIsClose
  <1> HIDE DEF t, tax, fullTax
  <1>6. ShippingFor(t) \in Nat /\ ShippingFor(s) \in Nat
    BY TotalsAssumption DEF ShippingFor
  <1>7. Total(s, d) - t - ShippingFor(t) = tax
    BY <1>1, <1>2, <1>4, <1>6
  <1>8. \/ Total(s, d) <= Total(s, 0)
        \/ /\ t < FreeShippingMin /\ s >= FreeShippingMin
           /\ Total(s, d) < Total(s, 0) + Shipping
    <2>1. CASE t < FreeShippingMin /\ s >= FreeShippingMin
      <3>1. ShippingFor(t) = Shipping /\ ShippingFor(s) = 0
        BY <2>1, <1>1, TotalsAssumption DEF ShippingFor
      <3>2. t < s
        BY <2>1, <1>1, TotalsAssumption
      <3> QED BY <2>1, <3>1, <3>2, <1>1, <1>2, <1>4, TotalsAssumption
    <2>2. CASE ~(t < FreeShippingMin /\ s >= FreeShippingMin)
      <3>1. ShippingFor(t) = ShippingFor(s)
        BY <2>2, <1>1, TotalsAssumption DEF ShippingFor
      <3> QED BY <3>1, <1>1, <1>2, <1>4, <1>6
    <2> QED BY <2>1, <2>2
  <1> QED BY <1>5, <1>7, <1>8 DEF Fair, t
-----------------------------------------------------------------------------
(* A process has items left where it syncs or looks up, and nowhere else.  *)
WorkInv ==
  \A p \in Procs :
    /\ pc[p] \in {"sync", "lookup"} <=> todo[p] # {}
    /\ p \in Ops /\ pc[p] = "terminate" => target[p] \in Offers

(* Every list has finitely many offers, as each request makes one active.  *)
FiniteInv ==
  /\ IsFiniteSet(Active)
  /\ \A i \in Items : cache[i] # NoValue => IsFiniteSet(cache[i])
  /\ \A p \in Procs : copy[p] # NoValue => IsFiniteSet(copy[p])
  /\ \A t \in Turns : IsFiniteSet(quote[t])

(* A bill is the invoice of some subtotal and some discount.               *)
Invoiced(b) ==
  \E s \in Nat, d \in Nat :
    b.subtotal = s /\ b.taxable = Taxable(s, d) /\ b.total = Total(s, d)

BillInv ==
  \A t \in Turns :
    /\ pc[t] \in {"lookup", "quoted"} => bill[t] \in [cart: Carts]
    /\ pc[t] = "billed" => Invoiced(bill[t])

IInv == TypeOK /\ WorkInv /\ FiniteInv /\ BillInv
-----------------------------------------------------------------------------
(* The offers a change names, and the item a process is at.                *)
LEMMA PayloadTypes ==
  ASSUME NEW o \in Offers
  PROVE  /\ ItemsOf(o) \subseteq Items /\ Affected(o) \subseteq Items
         /\ Payload[o].value \in Nat
<1>1. Payload[o] \in [type: {"COMBO", "COUPON", "DISCOUNT", "FESTIVAL_CAMPAIGN"},
                      items: (SUBSET Items) \union {NoValue}, with: SUBSET Items,
                      kind: {"PERCENT", "FLAT", "CASHBACK"}, value: Nat]
  BY OfferAssumption
<1>. QED
  BY <1>1 DEF Affected, ItemsOf, StoredItems

LEMMA AtItem ==
  ASSUME TypeOK, NEW p \in Procs, todo[p] # {}
  PROVE  At(p) \in todo[p] /\ At(p) \in Items
<1>1. todo[p] \in SUBSET Items /\ todo[p] \in SUBSET Nat
  BY OfferAssumption DEF TypeOK
<1>2. \E m \in todo[p] : \A k \in todo[p] : m <= k
  BY <1>1, LeastNatural
<1>. QED
  BY <1>1, <1>2 DEF At, Min

LEMMA ActiveTypes ==
  ASSUME FiniteInv, NEW i, NEW general \in {{}, General \intersect Active}
  PROVE  /\ ActiveFor(i) \subseteq Offers /\ IsFiniteSet(ActiveFor(i))
         /\ ActiveFor(i) \union general \subseteq Offers
         /\ IsFiniteSet(ActiveFor(i) \union general)
<1>1. ActiveFor(i) \subseteq Active /\ ActiveFor(i) \union general \subseteq Active
  BY DEF ActiveFor
<1>2. Active \subseteq Offers
  BY DEF Active
<1>3. IsFiniteSet(ActiveFor(i)) /\ IsFiniteSet(ActiveFor(i) \union general)
  BY <1>1, FS_Subset DEF FiniteInv
<1>. QED
  BY <1>1, <1>2, <1>3

(* A change of one offer leaves finitely many active.                      *)
LEMMA StillFinite ==
  ASSUME IsFiniteSet(Active), NEW o, NEW new, state' = [state EXCEPT ![o] = new]
  PROVE  IsFiniteSet(Active')
<1>1. Active' \subseteq Active \union {o}
  BY DEF Active
<1>2. IsFiniteSet(Active \union {o})
  BY FS_AddElement
<1>. QED
  BY <1>1, <1>2, FS_Subset

(* What a process that goes on does to where the processes are.            *)
LEMMA AdvanceTypes ==
  ASSUME IInv, NEW p \in Procs, pc[p] \in {"sync", "lookup"},
         NEW last \in {"done", "quoted"}, Advance(p, last)
  PROVE  /\ At(p) \in Items
         /\ pc' \in [Procs -> Places] /\ todo' \in [Procs -> SUBSET Items]
         /\ copy' \in [Procs -> (SUBSET Offers) \union {NoValue}] /\ late' \subseteq Procs
         /\ \A q \in Procs : copy'[q] # NoValue => copy'[q] = copy[q] /\ todo'[q] # {}
         /\ \A q \in Procs : pc'[q] \in {"sync", "lookup"} <=> todo'[q] # {}
         /\ \A q \in Procs \ {p} : pc'[q] = pc[q]
         /\ pc'[p] \in {pc[p], last}
<1>1. At(p) \in todo[p] /\ At(p) \in Items
  BY AtItem DEF IInv, WorkInv
<1>2. /\ todo' = [todo EXCEPT ![p] = @ \ {At(p)}]
      /\ copy' = [copy EXCEPT ![p] = NoValue]
      /\ late' = late \ {p}
      /\ pc' = [pc EXCEPT ![p] = IF todo[p] = {At(p)} THEN last ELSE pc[p]]
  BY DEF Advance, Goes
<1>3. /\ pc' \in [Procs -> Places] /\ todo' \in [Procs -> SUBSET Items]
      /\ copy' \in [Procs -> (SUBSET Offers) \union {NoValue}] /\ late' \subseteq Procs
  BY <1>2 DEF IInv, TypeOK, Places
<1>4. /\ todo'[p] = todo[p] \ {At(p)} /\ copy'[p] = NoValue
      /\ pc'[p] = IF todo[p] = {At(p)} THEN last ELSE pc[p]
      /\ \A q \in Procs \ {p} : todo'[q] = todo[q] /\ copy'[q] = copy[q] /\ pc'[q] = pc[q]
  BY <1>2 DEF IInv, TypeOK
<1>5. \A q \in Procs : copy'[q] # NoValue => copy'[q] = copy[q] /\ todo'[q] # {}
  BY <1>4 DEF IInv, TypeOK
<1>6. \A q \in Procs : pc'[q] \in {"sync", "lookup"} <=> todo'[q] # {}
  <2>1. todo'[p] = {} <=> todo[p] = {At(p)}
    BY <1>1, <1>4
  <2>. QED
    BY <1>4, <2>1 DEF IInv, WorkInv
<1>. QED
  BY <1>1, <1>3, <1>4, <1>5, <1>6
-----------------------------------------------------------------------------
(* Steps of the requests that create or terminate an offer.                *)
LEMMA CommitTypes ==
  ASSUME IInv, NEW p \in Ops, NEW o \in Offers, NEW new \in {"active", "ended"},
         pc[p] \in {"idle", "terminate"}, Commit(p, o, new),
         target' = [target EXCEPT ![p] = NoValue] \/ UNCHANGED target,
         UNCHANGED faults
  PROVE  IInv'
<1> DEFINE next == IF Affected(o) = {} THEN "done" ELSE "sync"
<1>1. /\ p \in Procs /\ p \notin Turns
      /\ state' = [state EXCEPT ![o] = new]
      /\ late' \subseteq late \union Procs
      /\ todo' = [todo EXCEPT ![p] = Affected(o)]
      /\ pc' = [pc EXCEPT ![p] = next]
      /\ UNCHANGED <<cache, ttl, copy, quote, bill, torn>>
  BY OfferAssumption DEF Commit, Goes, turnVars, Procs
<1>2. Affected(o) \subseteq Items
  BY PayloadTypes
<1>3. todo[p] = {}
  BY <1>1 DEF IInv, WorkInv
<1>4. TypeOK'
  <2>1. \A q \in Procs : copy'[q] # NoValue => todo'[q] # {}
    BY <1>1, <1>3 DEF IInv, TypeOK
  <2>2. state' \in [Offers -> {"none", "active", "ended"}] /\ pc' \in [Procs -> Places]
    BY <1>1 DEF IInv, TypeOK, Places
  <2>3. todo' \in [Procs -> SUBSET Items] /\ late' \subseteq Procs
        /\ target' \in [Ops -> Offers \union {NoValue}]
    BY <1>1, <1>2 DEF IInv, TypeOK
  <2>. QED
    BY <1>1, <2>1, <2>2, <2>3 DEF IInv, TypeOK
<1>5. WorkInv'
  <2>1. ASSUME NEW q \in Procs PROVE pc'[q] \in {"sync", "lookup"} <=> todo'[q] # {}
    BY <1>1 DEF IInv, TypeOK, WorkInv
  <2>2. ASSUME NEW q \in Ops, pc'[q] = "terminate" PROVE target'[q] \in Offers
    <3>1. q # p /\ q \in Procs /\ pc[q] = "terminate"
      BY <1>1, <2>2 DEF IInv, TypeOK, Procs
    <3>. QED
      BY <3>1 DEF IInv, TypeOK, WorkInv
  <2>. QED
    BY <2>1, <2>2 DEF WorkInv
<1>6. FiniteInv'
  BY <1>1, StillFinite DEF IInv, FiniteInv
<1>7. BillInv'
  <2>1. \A t \in Turns : pc'[t] = pc[t]
    BY <1>1 DEF IInv, TypeOK, Procs
  <2>. QED
    BY <1>1, <2>1 DEF IInv, BillInv
<1>. QED
  BY <1>4, <1>5, <1>6, <1>7 DEF IInv

LEMMA RestTypes ==
  ASSUME IInv, NEW p \in Ops, pc[p] \in {"idle", "terminate"},
         NEW where \in {"done", "terminate"}, Goes(p, where),
         NEW o \in Offers \union {NoValue}, where = "terminate" => o \in Offers,
         target' = [target EXCEPT ![p] = o] \/ (where = "done" /\ UNCHANGED target),
         UNCHANGED <<state, cache, ttl, todo, copy, turnVars, late, torn>>,
         faults' \in 0..MaxFaults
  PROVE  IInv'
<1>1. /\ p \in Procs /\ p \notin Turns
      /\ pc' = [pc EXCEPT ![p] = where]
      /\ UNCHANGED <<quote, bill>>
  BY OfferAssumption DEF Goes, turnVars, Procs
<1>2. TypeOK'
  <2>1. pc' \in [Procs -> Places] /\ target' \in [Ops -> Offers \union {NoValue}]
    BY <1>1 DEF IInv, TypeOK, Places
  <2>. QED
    BY <1>1, <2>1 DEF IInv, TypeOK
<1>3. WorkInv'
  BY <1>1 DEF IInv, TypeOK, WorkInv, Procs
<1>4. FiniteInv'
  BY <1>1 DEF IInv, FiniteInv, Active
<1>5. BillInv'
  <2>1. \A t \in Turns : pc'[t] = pc[t]
    BY <1>1 DEF IInv, TypeOK, Procs
  <2>. QED
    BY <1>1, <2>1 DEF IInv, BillInv
<1>. QED
  BY <1>2, <1>3, <1>4, <1>5 DEF IInv

(* A SELECT of the table.                                                  *)
LEMMA SelectTypes ==
  ASSUME IInv, NEW p \in Procs, pc[p] \in {"sync", "lookup"},
         NEW general \in {{}, General \intersect Active},
         copy' = [copy EXCEPT ![p] = ActiveFor(At(p)) \union general],
         UNCHANGED <<state, cache, ttl, pc, target, todo, turnVars, late, torn>>,
         faults' \in 0..MaxFaults
  PROVE  IInv'
<1> DEFINE list == ActiveFor(At(p)) \union general
<1>1. list \in SUBSET Offers /\ IsFiniteSet(list)
  BY ActiveTypes DEF IInv
<1> HIDE DEF list
<1>2. UNCHANGED <<quote, bill>>
  BY DEF turnVars
<1>3. todo[p] # {}
  BY DEF IInv, WorkInv
<1>4. TypeOK'
  <2>1. /\ copy' \in [Procs -> (SUBSET Offers) \union {NoValue}]
        /\ \A q \in Procs : copy'[q] # NoValue => todo'[q] # {}
    BY <1>1, <1>3 DEF IInv, TypeOK, list
  <2>. QED
    BY <1>2, <2>1 DEF IInv, TypeOK
<1>5. FiniteInv'
  <2>1. ASSUME NEW q \in Procs, copy'[q] # NoValue PROVE IsFiniteSet(copy'[q])
    BY <1>1, <2>1 DEF IInv, TypeOK, FiniteInv, list
  <2>. QED
    BY <1>2, <2>1 DEF IInv, FiniteInv, Active
<1>6. WorkInv' /\ BillInv'
  BY <1>2 DEF IInv, WorkInv, BillInv
<1>. QED
  BY <1>4, <1>5, <1>6 DEF IInv

(* A process that goes on to its next item.                                *)
LEMMA GoesOnTypes ==
  ASSUME IInv, NEW p \in Procs, NEW last, Advance(p, last),
         \/ p \in Ops /\ pc[p] = "sync" /\ last = "done"
         \/ p \in Turns /\ pc[p] = "lookup" /\ last = "quoted",
         cache' \in [Items -> (SUBSET Offers) \union {NoValue}],
         ttl' \subseteq {i \in Items : cache'[i] # NoValue},
         \A i \in Items : cache'[i] # NoValue => IsFiniteSet(cache'[i]),
         quote' \in [Turns -> SUBSET Offers], \A t \in Turns : IsFiniteSet(quote'[t]),
         torn' \subseteq Items, faults' \in 0..MaxFaults,
         UNCHANGED <<state, target, bill>>
  PROVE  IInv'
<1>1. /\ pc' \in [Procs -> Places] /\ todo' \in [Procs -> SUBSET Items]
      /\ copy' \in [Procs -> (SUBSET Offers) \union {NoValue}] /\ late' \subseteq Procs
      /\ \A q \in Procs : copy'[q] # NoValue => copy'[q] = copy[q] /\ todo'[q] # {}
      /\ \A q \in Procs : pc'[q] \in {"sync", "lookup"} <=> todo'[q] # {}
      /\ \A q \in Procs \ {p} : pc'[q] = pc[q]
      /\ pc'[p] \in {pc[p], last}
  BY AdvanceTypes
<1>2. TypeOK'
  BY <1>1 DEF IInv, TypeOK
<1>3. WorkInv'
  BY <1>1 DEF IInv, WorkInv
<1>4. FiniteInv'
  BY <1>1 DEF IInv, FiniteInv, Active
<1>5. BillInv'
  <2>1. ASSUME NEW t \in Turns, t = p PROVE pc[t] = "lookup" /\ pc'[t] \in {"lookup", "quoted"}
    BY <1>1, <2>1, OfferAssumption
  <2>2. ASSUME NEW t \in Turns, t # p PROVE pc'[t] = pc[t]
    BY <1>1, <2>2 DEF Procs
  <2>. QED
    BY <2>1, <2>2 DEF IInv, BillInv
<1>. QED
  BY <1>2, <1>3, <1>4, <1>5 DEF IInv

(* The list of an item is stored.                                          *)
LEMMA StoreTypes ==
  ASSUME IInv, NEW p \in Procs, pc[p] \in {"sync", "lookup"}, copy[p] # NoValue, Store(p)
  PROVE  /\ At(p) \in Items /\ torn' \subseteq Items
         /\ cache' \in [Items -> (SUBSET Offers) \union {NoValue}]
         /\ cache'[At(p)] # NoValue
         /\ \A i \in Items \ {At(p)} : cache'[i] = cache[i]
         /\ \A i \in Items : cache'[i] # NoValue => IsFiniteSet(cache'[i])
<1>1. At(p) \in Items /\ copy[p] \in SUBSET Offers /\ IsFiniteSet(copy[p])
  BY AtItem DEF IInv, TypeOK, WorkInv, FiniteInv
<1>2. cache' = [cache EXCEPT ![At(p)] = copy[p]] /\ torn' \subseteq torn \union {At(p)}
  BY DEF Store
<1>. QED
  BY <1>1, <1>2 DEF IInv, TypeOK, FiniteInv

LEMMA FaultTypes ==
  ASSUME IInv
  PROVE  /\ Fault => faults' \in 0..MaxFaults
         /\ UNCHANGED faults => faults' \in 0..MaxFaults
BY OfferAssumption DEF IInv, TypeOK, Fault

LEMMA OpTypes ==
  ASSUME IInv, NEW p \in Ops, OpStep(p)
  PROVE  IInv'
<1>1. p \in Procs
  BY DEF Procs
<1>2. ASSUME NEW o \in Offers, NEW type, Create(p, o, type) PROVE IInv'
  BY <1>2, CommitTypes DEF Create
<1>3. ASSUME NEW o \in Offers, RefuseCombo(p, o) \/ ReadOffer(p, o) PROVE IInv'
  BY <1>3, RestTypes, FaultTypes DEF RefuseCombo, ReadOffer
<1>4. CASE Terminate(p)
  <2>1. target[p] \in Offers
    BY <1>1, <1>4 DEF Terminate, IInv, WorkInv
  <2>. QED
    BY <1>4, <2>1, CommitTypes DEF Terminate
<1>5. CASE CommitFails(p)
  BY <1>5, RestTypes, FaultTypes DEF CommitFails
<1>6. CASE SyncSelect(p)
  <2> DEFINE none == {}
  <2>1. copy' = [copy EXCEPT ![p] = ActiveFor(At(p)) \union none]
    BY <1>6 DEF SyncSelect
  <2>2. none \in {{}, General \intersect Active}
    OBVIOUS
  <2> HIDE DEF none
  <2>. QED
    BY <1>1, <1>6, <2>1, <2>2, SelectTypes, FaultTypes DEF SyncSelect
<1>7. CASE SyncSet(p)
  <2>1. /\ pc[p] = "sync" /\ copy[p] # NoValue /\ Store(p) /\ Advance(p, "done")
        /\ ttl' = ttl \union {At(p)} /\ UNCHANGED <<state, target, quote, bill, faults>>
    BY <1>7 DEF SyncSet, turnVars
  <2>2. ttl' \subseteq {i \in Items : cache'[i] # NoValue}
    BY <1>1, <2>1, StoreTypes DEF IInv, TypeOK
  <2>. QED
    BY <1>1, <2>1, <2>2, StoreTypes, FaultTypes, GoesOnTypes DEF IInv, TypeOK, FiniteInv
<1>8. CASE SyncFails(p)
  <2>1. /\ pc[p] = "sync" /\ Fault /\ torn' = torn \union {At(p)} /\ Advance(p, "done")
        /\ UNCHANGED <<state, cache, ttl, target, quote, bill>>
    BY <1>8 DEF SyncFails, turnVars
  <2>2. At(p) \in Items
    BY <1>1, <2>1, AtItem DEF IInv, WorkInv
  <2>. QED
    BY <1>1, <2>1, <2>2, FaultTypes, GoesOnTypes DEF IInv, TypeOK, FiniteInv
<1>9. CASE Crash(p)
  <2>1. /\ pc[p] = "sync" /\ Fault /\ torn' = torn \union todo[p]
        /\ todo' = [todo EXCEPT ![p] = {}] /\ copy' = [copy EXCEPT ![p] = NoValue]
        /\ late' = late \ {p} /\ pc' = [pc EXCEPT ![p] = "done"]
        /\ UNCHANGED <<state, cache, ttl, target, quote, bill>>
    BY <1>9 DEF Crash, Goes, turnVars
  <2>2. TypeOK'
    <3>1. /\ pc' \in [Procs -> Places] /\ todo' \in [Procs -> SUBSET Items]
          /\ copy' \in [Procs -> (SUBSET Offers) \union {NoValue}]
          /\ torn' \subseteq Items /\ late' \subseteq Procs
      BY <1>1, <2>1 DEF IInv, TypeOK, Places
    <3>2. \A q \in Procs : copy'[q] # NoValue => todo'[q] # {}
      BY <1>1, <2>1 DEF IInv, TypeOK
    <3>. QED
      BY <2>1, <3>1, <3>2, FaultTypes DEF IInv, TypeOK
  <2>3. WorkInv'
    BY <1>1, <2>1 DEF IInv, TypeOK, WorkInv
  <2>4. FiniteInv'
    BY <1>1, <2>1 DEF IInv, TypeOK, FiniteInv, Active
  <2>5. BillInv'
    <3>1. \A t \in Turns : pc'[t] = pc[t]
      BY <2>1, OfferAssumption DEF IInv, TypeOK, Procs
    <3>. QED
      BY <2>1, <3>1 DEF IInv, BillInv
  <2>. QED
    BY <2>2, <2>3, <2>4, <2>5 DEF IInv
<1>. QED
  BY <1>2, <1>3, <1>4, <1>5, <1>6, <1>7, <1>8, <1>9
  DEF OpStep, CreateCombo, CreateCoupon, CreateDiscount, CreateFestivalCampaign
-----------------------------------------------------------------------------
(* What a cart costs, and what an offer saves on it.                       *)
LEMMA SavedTypes ==
  ASSUME NEW o \in Offers, NEW cart \in Carts
  PROVE  SumFunctionOnSet(cart, Items) \in Nat /\ Saved(o, cart) \in Nat
<1>1. IsFiniteSet(Items) /\ cart \in [Items -> Nat]
  BY OfferAssumption
<1> DEFINE on == IF ItemsOf(o) = {} THEN Items ELSE ItemsOf(o)
           part == SumFunctionOnSet(cart, on)
<1>2. on \subseteq Items /\ IsFiniteSet(on)
  BY <1>1, PayloadTypes, FS_Subset
<1> HIDE DEF on
<1>3. \A i \in on : cart[i] \in Nat
  BY <1>1, <1>2
<1>4. part \in Nat /\ TargetSubtotal(o, cart) = part
  <2>1. part \in Nat
    BY <1>2, <1>3, SumType
  <2>. QED
    BY <2>1 DEF TargetSubtotal, on
<1>5. SumFunctionOnSet(cart, Items) \in Nat
  <2>1. \A i \in Items : cart[i] \in Nat
    BY <1>1
  <2>. QED
    BY <1>1, <2>1, SumType
<1> DEFINE v == Payload[o].value
<1>6. v \in Nat
  BY PayloadTypes
<1> HIDE DEF part
<1>7. (part * v) \div 100 \in Nat
  <2> DEFINE x == part * v
  <2>1. x \in Nat
    BY <1>4, <1>6, Products
  <2> HIDE DEF x
  <2>2. x \div 100 \in Nat
    BY <2>1
  <2>. QED
    BY <2>2 DEF x
<1>8. Saved(o, cart) \in {0, v, (part * v) \div 100}
  BY <1>4 DEF Saved
<1>. QED
  BY <1>5, <1>6, <1>7, <1>8

LEMMA TotalTypes ==
  ASSUME NEW s \in Nat, NEW d \in Nat
  PROVE  Taxable(s, d) \in Nat /\ Total(s, d) \in Nat
<1> DEFINE t == Taxable(s, d)
<1>1. t \in Nat
  BY DEF Taxable
<1> HIDE DEF t
<1>2. HalfTax(t) \in Nat /\ ShippingFor(t) \in Nat
  BY <1>1, TaxGrows, TotalsAssumption DEF ShippingFor
<1>3. Total(s, d) = t + 2 * HalfTax(t) + ShippingFor(t)
  BY DEF Total, t
<1>. QED
  BY <1>1, <1>2, <1>3 DEF t

LEMMA BillTypes ==
  ASSUME IInv, NEW t \in Turns, Bill(t)
  PROVE  IInv'
<1> DEFINE cart == bill[t].cart
           saved == [o \in Offers |-> Saved(o, cart)]
           s == SumFunctionOnSet(cart, Items)
           d == SumFunctionOnSet(saved, quote[t])
           b == [cart |-> cart, subtotal |-> s, discount |-> d,
                 taxable |-> Taxable(s, d), total |-> Total(s, d)]
<1>1. /\ t \in Procs /\ t \notin Ops /\ pc[t] = "quoted"
      /\ bill' = [bill EXCEPT ![t] = b] /\ pc' = [pc EXCEPT ![t] = "billed"]
      /\ UNCHANGED <<state, cache, ttl, target, todo, copy, quote, late, torn, faults>>
  BY OfferAssumption DEF Bill, Goes, Procs
<1>2. cart \in Carts /\ quote[t] \subseteq Offers /\ IsFiniteSet(quote[t])
  BY <1>1 DEF IInv, TypeOK, BillInv, FiniteInv
<1> HIDE DEF cart
<1>3. \A o \in quote[t] : saved[o] \in Nat
  BY <1>2, SavedTypes
<1>4. s \in Nat
  <2>1. IsFiniteSet(Items) /\ \A i \in Items : cart[i] \in Nat
    BY <1>2, OfferAssumption
  <2>. QED
    BY <2>1, SumType
<1> HIDE DEF saved
<1>5. d \in Nat
  BY <1>2, <1>3, SumType
<1> HIDE DEF s, d
<1>6. Taxable(s, d) \in Nat /\ Total(s, d) \in Nat
  BY <1>4, <1>5, TotalTypes
<1>7. b \in [cart: Carts, subtotal: Nat, discount: Nat, taxable: Nat, total: Nat] /\ Invoiced(b)
  <2>1. b.subtotal = s /\ b.taxable = Taxable(s, d) /\ b.total = Total(s, d)
    OBVIOUS
  <2>. QED
    BY <1>2, <1>4, <1>5, <1>6, <2>1 DEF Invoiced
<1> HIDE DEF b
<1>8. TypeOK'
  <2>1. pc' \in [Procs -> Places]
    BY <1>1 DEF IInv, TypeOK, Places
  <2>2. bill' \in [Turns -> {NoValue} \union [cart: Carts] \union
                [cart: Carts, subtotal: Nat, discount: Nat, taxable: Nat, total: Nat]]
    BY <1>1, <1>7 DEF IInv, TypeOK
  <2>. QED
    BY <1>1, <2>1, <2>2 DEF IInv, TypeOK
<1>9. WorkInv' /\ FiniteInv'
  BY <1>1 DEF IInv, TypeOK, WorkInv, FiniteInv, Active, Procs
<1>10. BillInv'
  <2>1. pc'[t] = "billed" /\ bill'[t] = b
    BY <1>1 DEF IInv, TypeOK
  <2>2. \A q \in Turns \ {t} : pc'[q] = pc[q] /\ bill'[q] = bill[q]
    BY <1>1 DEF IInv, TypeOK
  <2>. QED
    BY <1>7, <2>1, <2>2 DEF IInv, BillInv
<1>. QED
  BY <1>8, <1>9, <1>10 DEF IInv

(* Steps of a turn.                                                        *)
LEMMA ToldTypes ==
  ASSUME IInv, NEW t \in Turns, NEW list \in SUBSET Offers, IsFiniteSet(list), Told(t, list)
  PROVE  quote' \in [Turns -> SUBSET Offers] /\ \A q \in Turns : IsFiniteSet(quote'[q])
<1>1. quote' = [quote EXCEPT ![t] = @ \union list]
  BY DEF Told
<1>2. IsFiniteSet(quote[t]) /\ quote[t] \in SUBSET Offers
  BY DEF IInv, TypeOK, FiniteInv
<1>3. IsFiniteSet(quote[t] \union list)
  BY <1>2, FS_Union
<1>. QED
  BY <1>1, <1>2, <1>3 DEF IInv, TypeOK, FiniteInv

LEMMA TurnTypes ==
  ASSUME IInv, NEW t \in Turns, TurnStep(t)
  PROVE  IInv'
<1>1. t \in Procs /\ t \notin Ops
  BY OfferAssumption DEF Procs
<1>2. ASSUME NEW cart \in Carts, Begin(t, cart) PROVE IInv'
  <2> DEFINE named == {i \in Items : cart[i] > 0}
             first == [cart |-> cart]
             where == IF \E i \in Items : cart[i] > 0 THEN "lookup" ELSE "quoted"
  <2>1. /\ pc[t] = "idle" /\ todo' = [todo EXCEPT ![t] = named]
        /\ bill' = [bill EXCEPT ![t] = first] /\ pc' = [pc EXCEPT ![t] = where]
        /\ UNCHANGED <<state, cache, ttl, target, copy, quote, late, torn, faults>>
    BY <1>2 DEF Begin, Goes
  <2>2. where \in {"lookup", "quoted"} /\ (where = "lookup" <=> named # {}) /\ named \subseteq Items
    OBVIOUS
  <2>3. first \in [cart: Carts]
    OBVIOUS
  <2> HIDE DEF named, first, where
  <2>4. TypeOK'
    <3>1. pc' \in [Procs -> Places] /\ todo' \in [Procs -> SUBSET Items]
      BY <2>1, <2>2 DEF IInv, TypeOK, Places
    <3>2. \A q \in Procs : copy'[q] # NoValue => todo'[q] # {}
      <4>1. todo[t] = {} /\ copy[t] = NoValue
        BY <1>1, <2>1 DEF IInv, TypeOK, WorkInv
      <4>. QED
        BY <2>1, <4>1 DEF IInv, TypeOK
    <3>3. bill' \in [Turns -> {NoValue} \union [cart: Carts] \union
                [cart: Carts, subtotal: Nat, discount: Nat, taxable: Nat, total: Nat]]
      BY <2>1, <2>3 DEF IInv, TypeOK
    <3>. QED
      BY <2>1, <3>1, <3>2, <3>3 DEF IInv, TypeOK
  <2>5. WorkInv'
    BY <1>1, <2>1, <2>2 DEF IInv, TypeOK, WorkInv
  <2>6. FiniteInv'
    BY <2>1 DEF IInv, FiniteInv, Active
  <2>7. BillInv'
    <3>1. pc'[t] \in {"lookup", "quoted"} /\ bill'[t] = first
      BY <1>1, <2>1, <2>2 DEF IInv, TypeOK
    <3>2. \A q \in Turns \ {t} : pc'[q] = pc[q] /\ bill'[q] = bill[q]
      BY <2>1 DEF IInv, TypeOK, Procs
    <3>. QED
      BY <2>3, <3>1, <3>2 DEF IInv, BillInv
  <2>. QED
    BY <2>4, <2>5, <2>6, <2>7 DEF IInv
<1>3. CASE Hit(t)
  <2>1. /\ pc[t] = "lookup" /\ cache[At(t)] # NoValue /\ Told(t, cache[At(t)])
        /\ Advance(t, "quoted") /\ UNCHANGED <<state, cache, ttl, target, bill, torn, faults>>
    BY <1>3 DEF Hit
  <2>2. At(t) \in Items
    BY <1>1, <2>1, AtItem DEF IInv, WorkInv
  <2>3. cache[At(t)] \in SUBSET Offers /\ IsFiniteSet(cache[At(t)])
    BY <2>1, <2>2 DEF IInv, TypeOK, FiniteInv
  <2>. QED
    BY <1>1, <2>1, <2>3, ToldTypes, GoesOnTypes DEF IInv, TypeOK, FiniteInv
<1>4. CASE Miss(t)
  <2>1. PICK general \in {{}, General \intersect Active} :
          copy' = [copy EXCEPT ![t] = ActiveFor(At(t)) \union general]
    BY <1>4 DEF Miss
  <2>. QED
    BY <1>1, <1>4, <2>1, SelectTypes, FaultTypes DEF Miss
<1>5. CASE Fill(t)
  <2>1. /\ pc[t] = "lookup" /\ copy[t] # NoValue /\ Store(t) /\ ttl' = ttl \ {At(t)}
        /\ Told(t, copy[t]) \/ Told(t, {})
        /\ Fault \/ UNCHANGED faults
        /\ Advance(t, "quoted") /\ UNCHANGED <<state, target, bill>>
    BY <1>5 DEF Fill
  <2>2. copy[t] \in SUBSET Offers /\ IsFiniteSet(copy[t])
    BY <1>1, <2>1 DEF IInv, TypeOK, FiniteInv
  <2>3. {} \in SUBSET Offers /\ IsFiniteSet({})
    BY FS_EmptySet
  <2>4. quote' \in [Turns -> SUBSET Offers] /\ \A q \in Turns : IsFiniteSet(quote'[q])
    BY <2>1, <2>2, <2>3, ToldTypes
  <2>5. /\ torn' \subseteq Items
        /\ cache' \in [Items -> (SUBSET Offers) \union {NoValue}]
        /\ \A i \in Items \ {At(t)} : cache'[i] = cache[i]
        /\ \A i \in Items : cache'[i] # NoValue => IsFiniteSet(cache'[i])
    BY <1>1, <2>1, StoreTypes
  <2>6. ttl' \subseteq {i \in Items : cache'[i] # NoValue}
    BY <2>1, <2>5 DEF IInv, TypeOK
  <2>. QED
    BY <1>1, <2>1, <2>4, <2>5, <2>6, FaultTypes, GoesOnTypes
<1>6. CASE FillFails(t)
  <2>1. /\ pc[t] = "lookup" /\ copy[t] # NoValue /\ Fault /\ Told(t, copy[t])
        /\ Advance(t, "quoted") /\ UNCHANGED <<state, cache, ttl, target, bill, torn>>
    BY <1>6 DEF FillFails
  <2>2. copy[t] \in SUBSET Offers /\ IsFiniteSet(copy[t])
    BY <1>1, <2>1 DEF IInv, TypeOK, FiniteInv
  <2>. QED
    BY <1>1, <2>1, <2>2, ToldTypes, FaultTypes, GoesOnTypes DEF IInv, TypeOK, FiniteInv
<1>. QED
  BY <1>2, <1>3, <1>4, <1>5, <1>6, BillTypes DEF TurnStep
-----------------------------------------------------------------------------
LEMMA InitIInv == Init => IInv
<1> SUFFICES ASSUME Init PROVE IInv
  OBVIOUS
<1>1. TypeOK /\ WorkInv
  BY OfferAssumption DEF Init, TypeOK, WorkInv, Places
<1>2. Active = {}
  BY DEF Init, Active
<1>3. FiniteInv
  BY <1>2, FS_EmptySet DEF Init, FiniteInv
<1>4. BillInv
  BY DEF Init, BillInv, Procs
<1>. QED
  BY <1>1, <1>3, <1>4 DEF IInv

LEMMA NextIInv == IInv /\ [Next]_vars => IInv'
<1> SUFFICES ASSUME IInv, [Next]_vars PROVE IInv'
  OBVIOUS
<1>1. ASSUME NEW i \in Items, Expire(i) PROVE IInv'
  <2>1. /\ cache' = [cache EXCEPT ![i] = NoValue] /\ ttl' = ttl \ {i}
        /\ UNCHANGED <<state, pc, target, todo, copy, quote, bill, late, torn, faults>>
    BY <1>1 DEF Expire, procVars, turnVars
  <2>2. TypeOK'
    BY <2>1 DEF IInv, TypeOK
  <2>3. WorkInv' /\ BillInv'
    BY <2>1 DEF IInv, WorkInv, BillInv
  <2>4. FiniteInv'
    BY <2>1 DEF IInv, TypeOK, FiniteInv, Active
  <2>. QED
    BY <2>2, <2>3, <2>4 DEF IInv
<1>2. ASSUME UNCHANGED vars PROVE IInv'
  BY <1>2 DEF IInv, TypeOK, WorkInv, FiniteInv, BillInv, Active, vars, procVars, turnVars
<1>. QED
  BY <1>1, <1>2, OpTypes, TurnTypes DEF Next

LEMMA InductiveInvariant == Spec => []IInv
BY InitIInv, NextIInv, PTL DEF Spec

(* Every variable has values of its type; a process that has read a list   *)
(* from the table still has the item it read it for ahead.                 *)
THEOREM TypeCorrect == Spec => []TypeOK
<1>1. IInv => TypeOK
  BY DEF IInv
<1>. QED
  BY InductiveInvariant, <1>1, PTL

(* Every invoice of the program is fair, whatever offers the look-ups told *)
(* the turn, for every catalogue of offers and every cart: a sum of any    *)
(* savings is a discount compute_invoice_totals treats as TotalsAreFair    *)
(* says.                                                                   *)
THEOREM BillsAreFair == Spec => []BillIsFair
<1>1. ASSUME IInv PROVE BillIsFair
  <2> SUFFICES ASSUME NEW t \in Turns, pc[t] = "billed"
               PROVE  Fair(bill[t].subtotal, bill[t].taxable, bill[t].total)
    BY DEF BillIsFair
  <2>1. PICK s \in Nat, d \in Nat :
          /\ bill[t].subtotal = s /\ bill[t].taxable = Taxable(s, d)
          /\ bill[t].total = Total(s, d)
    BY <1>1 DEF IInv, BillInv, Invoiced
  <2>2. Fair(s, Taxable(s, d), Total(s, d))
    BY TotalsAreFair
  <2>. QED
    BY <2>1, <2>2
<1>. QED
  BY InductiveInvariant, <1>1, PTL
=============================================================================
