----------------------------- MODULE CatalogUpload ----------------------------
(***************************************************************************)
(* The items table and the catalogue cache in Redis: one catalog:item      *)
(* entry per item and one catalog:index list.  Uploads of the merchant     *)
(* add stock with a read-modify-write of quantity_available, reservations  *)
(* and rollbacks change it in one UPDATE, and all of them, as well as      *)
(* reads that miss, write what they read into the cache in later steps.    *)
(*                                                                         *)
(* An upload flushes and commits in one step here: after a flush the rows  *)
(* are locked until the commit, so no other change falls between the two.  *)
(* Items differ in name, brand, expiry date or weight, the columns of      *)
(* uq_items_identity; no code clears is_active, and prices are left out.   *)
(***************************************************************************)
EXTENDS Integers, Sequences, FiniteSets, Functions

CONSTANTS
  Items,         \* identities of rows of the items table
  Brands,
  BrandOf,       \* [Items -> Brands]
  InitialStock,  \* [Items -> Nat \union {NoValue}], NoValue where there is no row
  Uploads,       \* requests to /admin/items/upload
  File,          \* [Uploads -> Seq([item: Items, qty: Nat \union {NoValue}])]
  Tasks,         \* reservations, rollbacks and catalogue reads
  MaxEvents,     \* bound on Redis keys that expire and on failed calls
  NoValue

Quantities == Nat \union {NoValue}

(* validate_catalog_rows: a row with a blank or malformed field is         *)
(* rejected, the others are taken.                                         *)
ValidRows(u) == SelectSeq(File[u], LAMBDA r : r.qty # NoValue)

ASSUME UploadAssumption ==
  /\ NoValue \notin Nat
  /\ BrandOf \in [Items -> Brands]
  /\ Items \intersect Brands = {} /\ {"none", "all"} \intersect (Items \union Brands) = {}
  /\ InitialStock \in [Items -> Quantities]
  /\ Uploads \intersect Tasks = {}
  /\ \A u \in Uploads : /\ File[u] \in Seq([item: Items, qty: Quantities])
                        /\ ValidRows(u) \in Seq([item: Items, qty: Nat])
  /\ MaxEvents \in Nat

Ops == Uploads \union Tasks

VARIABLES
  stock,     \* quantity_available of each row
  held,      \* units of each item that reservations hold
  entry,     \* catalog:item:{id}
  index,     \* catalog:index, the quantity of each item it lists; a missing
             \* key and an empty list are the same to _load_index
  pc,        \* where each operation is
  line,      \* rows of its file an upload has dealt with
  was,       \* quantities an upload loaded, NoValue for an item it inserts
  seen,      \* quantities an operation will write to the cache
  todo,      \* items whose entry is still to be deleted or written
  scope,     \* which rows a read takes
  committed, \* uploads whose transaction committed
  old,       \* items committed by others since the operation read them
  debt,      \* items an operation has committed and not yet written to Redis
  raced,     \* items committed while an upload had them loaded
  stale,     \* items whose last write was overtaken, or never happened
  narrow,    \* whether the index was written from a partial or overtaken read
  aged,      \* listed items committed since the quantities in the index were read
  events

rowVars == <<stock, held, committed, raced>>
keyVars == <<entry, index, stale, narrow>>
cacheVars == <<keyVars, aged>>
opVars == <<pc, line, was, seen, todo, scope, old, debt>>
vars == <<rowVars, cacheVars, opVars, events>>

Nothing == [i \in {} |-> 0]
Rows == {i \in Items : stock[i] # NoValue}
Scopes == {"none", "all"} \union Items \union Brands
Places == {"idle", "rows", "read", "invalidate", "refresh", "warm", "done", "failed"}

Init ==
  /\ stock = InitialStock
  /\ held = [i \in Items |-> 0]
  /\ entry = [i \in Items |-> NoValue]
  /\ index = Nothing
  /\ pc = [o \in Ops |-> IF o \in Uploads THEN "rows" ELSE "idle"]
  /\ line = [u \in Uploads |-> 0]
  /\ was = [u \in Uploads |-> Nothing]
  /\ seen = [o \in Ops |-> Nothing]
  /\ todo = [o \in Ops |-> {}]
  /\ scope = [o \in Ops |-> "none"]
  /\ committed = {}
  /\ old = [o \in Ops |-> {}]
  /\ debt = [o \in Ops |-> {}]
  /\ raced = {} /\ stale = {} /\ narrow = FALSE /\ aged = {}
  /\ events = 0
-----------------------------------------------------------------------------
(* An operation that ends forgets what it read.                            *)
Ends(o, how) ==
  /\ pc' = [pc EXCEPT ![o] = how]
  /\ line' = [u \in Uploads |-> IF u = o THEN 0 ELSE line[u]]
  /\ was' = [u \in Uploads |-> IF u = o THEN Nothing ELSE was[u]]
  /\ seen' = [seen EXCEPT ![o] = Nothing]
  /\ todo' = [todo EXCEPT ![o] = {}]
  /\ scope' = [scope EXCEPT ![o] = "none"]
  /\ old' = [old EXCEPT ![o] = {}]
  /\ debt' = [debt EXCEPT ![o] = {}]

(* What a committed change of the items in S means: the operation owes     *)
(* Redis the new value, and the reads of the others are overtaken, the one *)
(* the index was made from among them.                                     *)
Commits(o, S) ==
  /\ debt' = [debt EXCEPT ![o] = S]
  /\ aged' = aged \union (S \intersect DOMAIN index)
  /\ old' = [p \in Ops |-> IF p = o THEN old[p] \ S
                           ELSE old[p] \union {i \in S : i \in DOMAIN seen[p] \/ pc[p] = "warm"}]
  /\ raced' = raced \union
       {i \in S : \E u \in Uploads \ {o} :
          /\ pc[u] = "rows"
          /\ i \in DOMAIN was[u]
          /\ was[u][i] # NoValue}

(* Mutant: a row of the file that names an item again starts from the      *)
(* quantity in the table.                                                  *)
MutLoadedAgain(u, i) == stock[i]

(* The SELECT of upsert_catalog_rows.  An item the session has loaded is   *)
(* the object it already has, with the changes made to it.                 *)
Loaded(u, i) == IF i \in DOMAIN seen[u] THEN seen[u][i] ELSE stock[i]

With(f, i, v) == [j \in DOMAIN f \union {i} |-> IF j = i THEN v ELSE f[j]]

UpsertRow(u) ==
  LET row == ValidRows(u)[line[u] + 1]
      i == row.item
      found == Loaded(u, i)
  IN  /\ pc[u] = "rows"
      /\ line[u] < Len(ValidRows(u))
      /\ line' = [line EXCEPT ![u] = @ + 1]
      /\ was' = [was EXCEPT ![u] = IF i \in DOMAIN @ THEN @ ELSE With(@, i, found)]
      /\ seen' = [seen EXCEPT ![u] = With(@, i, IF found = NoValue THEN row.qty
                                                ELSE found + row.qty)]
      /\ UNCHANGED <<rowVars, cacheVars, pc, todo, scope, old, debt, events>>

(* What the flush writes: SQLAlchemy sends the columns that changed, with  *)
(* the value they have in memory.                                          *)
Written(u) == {i \in DOMAIN was[u] : was[u][i] # seen[u][i]}

(* The insert of an item whose identity another upload has committed since *)
(* is refused by uq_items_identity.                                        *)
Conflicts(u) == \E i \in DOMAIN was[u] : was[u][i] = NoValue /\ stock[i] # NoValue

CommitUpload(u) ==
  /\ pc[u] = "rows"
  /\ line[u] = Len(ValidRows(u))
  /\ ~Conflicts(u)
  /\ stock' = [i \in Items |-> IF i \in Written(u) THEN seen[u][i] ELSE stock[i]]
  /\ committed' = committed \union {u}
  /\ Commits(u, Written(u))
  /\ pc' = [pc EXCEPT ![u] = IF DOMAIN seen[u] = {} THEN "refresh" ELSE "invalidate"]
  /\ todo' = [todo EXCEPT ![u] = DOMAIN seen[u]]
  /\ line' = [line EXCEPT ![u] = 0]
  /\ was' = [was EXCEPT ![u] = Nothing]
  /\ UNCHANGED <<held, keyVars, seen, scope, events>>

RefuseUpload(u) ==
  /\ pc[u] = "rows"
  /\ line[u] = Len(ValidRows(u))
  /\ Conflicts(u)
  /\ Ends(u, "failed")
  /\ UNCHANGED <<rowVars, cacheVars, events>>
-----------------------------------------------------------------------------
(* invalidate_catalog_items, then refresh_catalog_items from the objects   *)
(* in memory, then rebuild_catalog_index_from_db.                          *)
InvalidateItem(u, i) ==
  /\ pc[u] = "invalidate" /\ i \in todo[u]
  /\ entry' = [entry EXCEPT ![i] = NoValue]
  /\ stale' = stale \ {i}
  /\ IF todo[u] = {i}
       THEN /\ pc' = [pc EXCEPT ![u] = "refresh"]
            /\ todo' = [todo EXCEPT ![u] = DOMAIN seen[u]]
       ELSE /\ todo' = [todo EXCEPT ![u] = @ \ {i}]
            /\ UNCHANGED pc
  /\ UNCHANGED <<rowVars, index, narrow, aged, line, was, seen, scope, old, debt, events>>

(* One SET of refresh_catalog_items.  A reservation or a read of one item  *)
(* has no more to do after it.                                             *)
SetEntry(o, i) ==
  /\ pc[o] \in {"refresh", "warm"} /\ i \in todo[o]
  /\ entry' = [entry EXCEPT ![i] = seen[o][i]]
  /\ stale' = IF i \in old[o] THEN stale \union {i} ELSE stale \ {i}
  /\ IF scope[o] = i
       THEN Ends(o, "done")
       ELSE /\ todo' = [todo EXCEPT ![o] = @ \ {i}]
            /\ debt' = [debt EXCEPT ![o] = @ \ {i}]
            /\ UNCHANGED <<pc, line, was, seen, scope, old>>
  /\ UNCHANGED <<rowVars, index, narrow, aged, events>>

(* The SELECT of the rebuild returns the objects the session already has   *)
(* (expire_on_commit is off): their quantities are not read again.         *)
ReadForIndex(u) ==
  /\ pc[u] = "refresh" /\ todo[u] = {}
  /\ pc' = [pc EXCEPT ![u] = "warm"]
  /\ seen' = [seen EXCEPT ![u] = [i \in Rows |-> Loaded(u, i)]]
  /\ todo' = [todo EXCEPT ![u] = Rows]
  /\ scope' = [scope EXCEPT ![u] = "all"]
  /\ UNCHANGED <<rowVars, cacheVars, line, was, old, debt, events>>

(* warm_catalog_cache writes the entries and then the index.  The index is *)
(* narrow when its read was filtered, or was overtaken by an insert.       *)
SetIndex(o) ==
  /\ pc[o] = "warm" /\ todo[o] = {}
  /\ index' = seen[o]
  /\ narrow' = (scope[o] # "all" \/ ~(old[o] \subseteq DOMAIN seen[o]))
  /\ aged' = old[o] \intersect DOMAIN seen[o]
  /\ Ends(o, "done")
  /\ UNCHANGED <<rowVars, entry, stale, events>>
-----------------------------------------------------------------------------
(* A reservation of one unit, and its release, as the reservation service  *)
(* commits them: an UPDATE relative to the row.  The catalogue entry is    *)
(* read and written afterwards.                                            *)
Adjust(k, i, n) ==
  /\ pc[k] = "idle"
  /\ stock[i] # NoValue
  /\ stock' = [stock EXCEPT ![i] = @ - n]
  /\ held' = [held EXCEPT ![i] = @ + n]
  /\ Commits(k, {i})
  /\ pc' = [pc EXCEPT ![k] = "read"]
  /\ scope' = [scope EXCEPT ![k] = i]
  /\ todo' = [todo EXCEPT ![k] = {i}]
  /\ UNCHANGED <<committed, keyVars, line, was, seen, events>>

(* Mutant: the UPDATE has no condition on the quantity.                    *)
MutReserveAny(k, i) == stock[i] # NoValue /\ Adjust(k, i, 1)

Reserve(k, i) == stock[i] # NoValue /\ stock[i] >= 1 /\ Adjust(k, i, 1)

Release(k, i) == held[i] >= 1 /\ Adjust(k, i, -1)

(* A read that finds nothing in Redis goes to the table.                   *)
Cold == index = Nothing

BeginRead(k, s) ==
  /\ pc[k] = "idle"
  /\ pc' = [pc EXCEPT ![k] = "read"]
  /\ scope' = [scope EXCEPT ![k] = s]
  /\ UNCHANGED <<rowVars, cacheVars, line, was, seen, todo, old, debt, events>>

GetById(k, i) == entry[i] = NoValue /\ BeginRead(k, i)
SearchByName(k) == Cold /\ BeginRead(k, "all")
AlternativesSameName(k, b) == Cold /\ BeginRead(k, b)

(* Mutant: the index is built from the rows in stock only.                 *)
MutTakenInStock(s) ==
  CASE s \in Items -> Rows \intersect {s}
    [] s \in Brands -> {i \in Rows : BrandOf[i] # s /\ stock[i] > 0}
    [] OTHER -> {i \in Rows : stock[i] > 0}

(* The rows a read takes: one item, all, or those in stock of other        *)
(* brands.                                                                 *)
Taken(s) ==
  CASE s \in Items -> Rows \intersect {s}
    [] s \in Brands -> {i \in Rows : BrandOf[i] # s /\ stock[i] > 0}
    [] OTHER -> Rows

ReadRows(k) ==
  /\ pc[k] = "read"
  /\ Taken(scope[k]) # {} \/ scope[k] \notin Items
  /\ seen' = [seen EXCEPT ![k] = [i \in Taken(scope[k]) |-> stock[i]]]
  /\ todo' = [todo EXCEPT ![k] = Taken(scope[k])]
  /\ pc' = [pc EXCEPT ![k] = IF scope[k] \in Items THEN "refresh" ELSE "warm"]
  /\ UNCHANGED <<rowVars, cacheVars, line, was, scope, old, debt, events>>

(* get_by_id of an item without a row writes nothing.                      *)
ReadNoRow(k) ==
  /\ pc[k] = "read"
  /\ scope[k] \in Items /\ Taken(scope[k]) = {}
  /\ Ends(k, "done")
  /\ UNCHANGED <<rowVars, cacheVars, events>>
-----------------------------------------------------------------------------
Event == events < MaxEvents /\ events' = events + 1

(* catalog_cache_ttl_seconds.                                              *)
ExpireEntry(i) ==
  /\ Event
  /\ entry[i] # NoValue
  /\ entry' = [entry EXCEPT ![i] = NoValue]
  /\ stale' = stale \ {i}
  /\ UNCHANGED <<rowVars, index, narrow, aged, opVars>>

ExpireIndex ==
  /\ Event
  /\ ~Cold
  /\ index' = Nothing
  /\ aged' = {}
  /\ UNCHANGED <<rowVars, entry, stale, narrow, opVars>>

(* A failed call of the database rolls an upload back; of Redis, or a      *)
(* crash, ends the operation where it is.                                  *)
Fails(o) ==
  /\ Event
  /\ pc[o] \notin {"idle", "done", "failed"}
  /\ Ends(o, "failed")
  /\ stale' = stale \union debt[o]
  /\ narrow' = (narrow \/ o \in committed)
  /\ UNCHANGED <<rowVars, entry, index, aged>>

UploadStep(u) ==
  \/ UpsertRow(u) \/ CommitUpload(u) \/ RefuseUpload(u)
  \/ ReadForIndex(u)
  \/ \E i \in Items : InvalidateItem(u, i)

TaskStep(k) ==
  \/ SearchByName(k) \/ ReadRows(k) \/ ReadNoRow(k)
  \/ \E i \in Items : Reserve(k, i) \/ Release(k, i) \/ GetById(k, i)
  \/ \E b \in Brands : AlternativesSameName(k, b)

Next ==
  \/ \E u \in Uploads : UploadStep(u)
  \/ \E k \in Tasks : TaskStep(k)
  \/ \E o \in Ops : SetIndex(o) \/ Fails(o) \/ \E i \in Items : SetEntry(o, i)
  \/ \E i \in Items : ExpireEntry(i)
  \/ ExpireIndex

Spec == Init /\ [][Next]_vars
-----------------------------------------------------------------------------
(* Quantities of some of the items.                                        *)
Counts(f, Q) == DOMAIN f \subseteq Items /\ \A i \in DOMAIN f : f[i] \in Q

(* Every variable has values of its type.  Quantities are natural numbers: *)
(* no sequence of changes makes one negative.                              *)
TypeOK ==
  /\ stock \in [Items -> Quantities]
  /\ held \in [Items -> Nat]
  /\ entry \in [Items -> Quantities]
  /\ Counts(index, Nat)
  /\ pc \in [Ops -> Places]
  /\ line \in [Uploads -> Nat]
  /\ DOMAIN was = Uploads /\ \A u \in Uploads : Counts(was[u], Quantities)
  /\ DOMAIN seen = Ops /\ \A o \in Ops : Counts(seen[o], Nat)
  /\ todo \in [Ops -> SUBSET Items] /\ scope \in [Ops -> Scopes]
  /\ old \in [Ops -> SUBSET Items] /\ debt \in [Ops -> SUBSET Items]
  /\ committed \subseteq Uploads
  /\ raced \subseteq Items /\ stale \subseteq Items /\ narrow \in BOOLEAN
  /\ aged \subseteq Items
  /\ events \in Nat

(* What the first n rows of an upload say they add to an item, and what    *)
(* all the rows of the committed uploads do.                               *)
Units(u, i) ==
  [k \in 1..Len(ValidRows(u)) |-> IF ValidRows(u)[k].item = i THEN ValidRows(u)[k].qty ELSE 0]

Adds(u, i, n) == SumFunctionOnSet(Units(u, i), 1..n)

Added(i) ==
  SumFunctionOnSet([u \in Uploads |-> Adds(u, i, Len(ValidRows(u)))], committed)

Count(q) == IF q = NoValue THEN 0 ELSE q

(* Units add up: what is on the shelf and what is held is what was there   *)
(* at first and what committed uploads added, counting every row of a file *)
(* also when several name one item, unless a change of the item was        *)
(* committed while an upload had it loaded; an upload that failed added    *)
(* nothing.  upsert_catalog_rows and the one commit after it.              *)
StockAccounted ==
  \A i \in Items \ raced :
    Count(stock[i]) + held[i] = Count(InitialStock[i]) + Added(i)

(* An entry is what the row says, unless the operation that wrote it last  *)
(* was overtaken or failed, or the one that changed the row is not done.   *)
EntryAgrees(i) ==
  \/ entry[i] \in {NoValue, stock[i]}
  \/ i \in stale
  \/ \E o \in Ops : i \in debt[o]

IndexLists ==
  \/ Cold \/ narrow \/ DOMAIN index = Rows
  \/ \E u \in committed : pc[u] \in {"invalidate", "refresh", "warm"}

IndexCounts == \A i \in DOMAIN index : index[i] = stock[i] \/ i \in aged

(* What Redis shows of the table.  An entry has the quantity of the row,   *)
(* and the index lists every row, unless the operation that wrote it last  *)
(* was overtaken by a commit, failed half way or read a part of the rows   *)
(* (alternatives_same_name), or the one that changed it is not done yet.   *)
(* A quantity in the index is the one of the row when the index was made:  *)
(* a reservation or a release since then changes the row and the entry,    *)
(* and leaves the index as it is, with no fault or race, until the index   *)
(* is made again.                                                          *)
CacheAgrees ==
  /\ \A i \in Items : EntryAgrees(i)
  /\ IndexLists
  /\ IndexCounts

(* Said by docs/HOW_THE_AGENT_BUILT_PHASE2.md, "stock holds so we don't    *)
(* oversell": there are never more units for sale and on hold than came    *)
(* in.                                                                     *)
NoUnitsFromNowhere ==
  \A i \in Items : Count(stock[i]) + held[i] <= Count(InitialStock[i]) + Added(i)
===============================================================================
