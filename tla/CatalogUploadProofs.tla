------------------------- MODULE CatalogUploadProofs -------------------------
(***************************************************************************)
(* Proofs about CatalogUpload for every catalogue, every set of uploads,   *)
(* reservations, rollbacks and reads, and every way they interleave.       *)
(***************************************************************************)
EXTENDS CatalogUpload, SumTheorems, SequenceTheorems, TLAPS

(* What an operation knows of the table: a quantity it has read is the one *)
(* in the table, or a commit has overtaken it and it is in old.            *)
Current(f, o) == \A i \in DOMAIN f : f[i] = stock[i] \/ i \in old[o]

Loads(u) ==
  /\ debt[u] = {} /\ u \notin Tasks
  /\ DOMAIN was[u] = DOMAIN seen[u] /\ Current(was[u], u)
  /\ \A i \in DOMAIN was[u] : was[u][i] # NoValue => i \in Rows

Writes(o) ==
  /\ todo[o] \subseteq DOMAIN seen[o] /\ DOMAIN seen[o] \subseteq Rows
  /\ Current(seen[o], o)

(* What holds of an operation wherever it is.  What it owes Redis is among *)
(* what it has still to write.                                             *)
Works(o) ==
  /\ pc[o] = "idle" => o \in Tasks /\ todo[o] = {} /\ debt[o] = {}
  /\ pc[o] = "rows" => o \in Uploads /\ Loads(o)
  /\ pc[o] = "read" => o \in Tasks /\ debt[o] \subseteq {scope[o]}
  /\ pc[o] = "invalidate" => o \in Uploads /\ debt[o] \subseteq DOMAIN seen[o]
  /\ pc[o] \in {"refresh", "warm"} => debt[o] \subseteq todo[o]
  /\ pc[o] \in {"invalidate", "refresh", "warm"} => Writes(o)
  /\ pc[o] = "warm" /\ scope[o] = "all" => Rows \subseteq DOMAIN seen[o] \union old[o]
  /\ debt[o] \subseteq Rows
  /\ scope[o] \in Items => o \in Tasks /\ todo[o] \subseteq {scope[o]} /\ pc[o] # "warm"

(* What CacheAgrees says of the entries and of what the index lists.       *)
KeysAgree == IndexLists /\ \A i \in Items : EntryAgrees(i)

IInv == TypeOK /\ KeysAgree /\ \A o \in Ops : Works(o)
-----------------------------------------------------------------------------
(* An operation that does nothing, while the table stays as it is.         *)
Rests(p) ==
  /\ pc'[p] = pc[p] /\ seen'[p] = seen[p] /\ todo'[p] = todo[p]
  /\ scope'[p] = scope[p] /\ debt'[p] = debt[p]
  /\ p \in Uploads => was'[p] = was[p]

LEMMA StillWorks ==
  ASSUME NEW p \in Ops, Works(p), Rests(p), old'[p] = old[p], UNCHANGED stock
  PROVE  Works(p)'
<1>1. Rows' = Rows
  BY DEF Rows
<1>2. ASSUME p \in Uploads, Loads(p) PROVE Loads(p)'
  BY <1>1, <1>2 DEF Rests, Loads, Current
<1>3. ASSUME Writes(p) PROVE Writes(p)'
  BY <1>1, <1>3 DEF Rests, Writes, Current
<1>. QED
  BY <1>1, <1>2, <1>3 DEF Works, Rests

(* An operation that another one overtakes by a commit of the items in S.  *)
LEMMA Overtaken ==
  ASSUME NEW p \in Ops, Works(p), Rests(p), NEW S \in SUBSET Items,
         stock \in [Items -> Quantities], p \in Uploads => DOMAIN was[p] \subseteq Items,
         DOMAIN seen[p] \subseteq Items,
         \A i \in Items \ S : stock'[i] = stock[i],
         \A i \in S : stock'[i] # NoValue,
         old'[p] = old[p] \union {i \in S : i \in DOMAIN seen[p] \/ pc[p] = "warm"}
  PROVE  Works(p)'
<1>1. Rows \subseteq Rows' /\ Rows' \subseteq Rows \union S
  BY DEF Rows
<1>2. ASSUME p \in Uploads, Loads(p) PROVE Loads(p)'
  BY <1>1, <1>2 DEF Rests, Loads, Current
<1>3. ASSUME Writes(p) PROVE Writes(p)'
  BY <1>1, <1>3 DEF Rests, Writes, Current
<1>4. ASSUME pc[p] = "warm", Rows \subseteq DOMAIN seen[p] \union old[p]
      PROVE  Rows' \subseteq DOMAIN seen'[p] \union old'[p]
  BY <1>1, <1>4 DEF Rests
<1>. QED
  BY <1>1, <1>2, <1>3, <1>4 DEF Works, Rests

(* An operation that ends.                                                 *)
LEMMA EndsStep ==
  ASSUME TypeOK, NEW o \in Ops, NEW how \in {"done", "failed"}, Ends(o, how)
  PROVE  /\ Works(o)' /\ pc'[o] = how /\ debt'[o] = {}
         /\ \A p \in Ops \ {o} : Rests(p) /\ old'[p] = old[p]
         /\ pc' \in [Ops -> Places] /\ line' \in [Uploads -> Nat]
         /\ DOMAIN was' = Uploads /\ \A u \in Uploads : Counts(was'[u], Quantities)
         /\ DOMAIN seen' = Ops /\ \A p \in Ops : Counts(seen'[p], Nat)
         /\ todo' \in [Ops -> SUBSET Items] /\ scope' \in [Ops -> Scopes]
         /\ old' \in [Ops -> SUBSET Items] /\ debt' \in [Ops -> SUBSET Items]
<1>1. Counts(Nothing, Nat) /\ Counts(Nothing, Quantities)
  BY DEF Nothing, Counts
<1>2. /\ pc'[o] = how /\ debt'[o] = {} /\ todo'[o] = {} /\ scope'[o] = "none"
      /\ \A p \in Ops \ {o} : Rests(p) /\ old'[p] = old[p]
  BY DEF Ends, TypeOK, Rests, Ops
<1>3. Works(o)'
  BY <1>2, UploadAssumption DEF Works
<1>4. /\ pc' \in [Ops -> Places] /\ todo' \in [Ops -> SUBSET Items]
      /\ scope' \in [Ops -> Scopes] /\ line' \in [Uploads -> Nat]
      /\ old' \in [Ops -> SUBSET Items] /\ debt' \in [Ops -> SUBSET Items]
  BY DEF Ends, TypeOK, Places, Scopes
<1>5. /\ DOMAIN was' = Uploads /\ \A u \in Uploads : Counts(was'[u], Quantities)
      /\ DOMAIN seen' = Ops /\ \A p \in Ops : Counts(seen'[p], Nat)
  BY <1>1 DEF Ends, TypeOK
<1>. QED
  BY <1>2, <1>3, <1>4, <1>5

-----------------------------------------------------------------------------
LEMMA UpsertKeeps ==
  ASSUME IInv, NEW u \in Uploads, UpsertRow(u)
  PROVE  IInv'
<1> DEFINE row == ValidRows(u)[line[u] + 1]
           i == row.item
           found == Loaded(u, i)
           sum == IF found = NoValue THEN row.qty ELSE found + row.qty
<1>1. /\ pc[u] = "rows" /\ u \in Ops /\ line[u] < Len(ValidRows(u))
      /\ line' = [line EXCEPT ![u] = @ + 1]
      /\ was' = [was EXCEPT ![u] = IF i \in DOMAIN @ THEN @ ELSE With(@, i, found)]
      /\ seen' = [seen EXCEPT ![u] = With(@, i, sum)]
      /\ UNCHANGED <<stock, held, committed, raced, entry, index, stale, narrow, aged,
                     pc, todo, scope, old, debt, events>>
  BY DEF UpsertRow, rowVars, cacheVars, keyVars, Ops
<1>2. i \in Items /\ row.qty \in Nat
  <2>1. line[u] \in Nat /\ ValidRows(u) \in Seq([item: Items, qty: Nat])
    BY UploadAssumption DEF IInv, TypeOK
  <2>2. line[u] + 1 \in 1..Len(ValidRows(u))
    BY <1>1, <2>1
  <2>3. \A k \in 1..Len(ValidRows(u)) : ValidRows(u)[k] \in [item: Items, qty: Nat]
    BY <2>1, ElementOfSeq
  <2>4. row \in [item: Items, qty: Nat]
    BY <2>2, <2>3
  <2> HIDE DEF row
  <2>. QED
    BY <2>4
<1> HIDE DEF row
<1>3. found \in Quantities /\ (i \notin DOMAIN seen[u] => found = stock[i])
  BY <1>1, <1>2 DEF IInv, TypeOK, Loaded, Counts, Quantities
<1>4. sum \in Nat
  BY <1>2, <1>3 DEF Quantities
<1> HIDE DEF i, found, sum
<1>5. /\ DOMAIN seen[u] \subseteq Items /\ DOMAIN was[u] = DOMAIN seen[u]
      /\ Current(was[u], u)
      /\ \A j \in DOMAIN was[u] : was[u][j] # NoValue => j \in Rows
      /\ \A j \in DOMAIN was[u] : was[u][j] \in Quantities
      /\ \A j \in DOMAIN seen[u] : seen[u][j] \in Nat
  BY <1>1 DEF IInv, TypeOK, Works, Loads, Counts
<1>6. /\ DOMAIN seen'[u] = DOMAIN seen[u] \union {i}
      /\ \A j \in DOMAIN seen'[u] : seen'[u][j] \in Nat
  BY <1>1, <1>4, <1>5 DEF IInv, TypeOK, With
<1>7. /\ DOMAIN was'[u] = DOMAIN was[u] \union {i}
      /\ \A j \in DOMAIN was[u] : was'[u][j] = was[u][j]
      /\ i \notin DOMAIN was[u] => was'[u][i] = found
  BY <1>1 DEF IInv, TypeOK, With
<1>8. TypeOK'
  <2>1. \A v \in Uploads : Counts(was'[v], Quantities)
    BY <1>1, <1>2, <1>3, <1>5, <1>7 DEF IInv, TypeOK, Counts
  <2>2. \A o \in Ops : Counts(seen'[o], Nat)
    BY <1>1, <1>2, <1>5, <1>6 DEF IInv, TypeOK, Counts
  <2>. QED
    BY <1>1, <2>1, <2>2 DEF IInv, TypeOK
<1>9. Loads(u)'
  <2>1. Rows' = Rows
    BY <1>1 DEF Rows
  <2>2. debt[u] = {} /\ u \notin Tasks
    BY <1>1 DEF IInv, Works, Loads
  <2>3. found # NoValue /\ i \notin DOMAIN was[u] => i \in Rows
    BY <1>2, <1>3, <1>5 DEF Rows
  <2>. QED
    BY <1>1, <1>3, <1>5, <1>6, <1>7, <2>1, <2>2, <2>3 DEF Loads, Current
<1>10. \A o \in Ops : Works(o)'
  <2>1. Works(u)'
    <3>1. Works(u) /\ Rows' = Rows
      BY <1>1 DEF IInv, Rows
    <3>. QED
      BY <1>1, <1>9, <3>1 DEF Works
  <2>2. ASSUME NEW p \in Ops \ {u} PROVE Works(p)'
    BY <1>1, StillWorks DEF IInv, TypeOK, Rests
  <2>. QED
    BY <2>1, <2>2
<1>11. KeysAgree'
  BY <1>1 DEF IInv, KeysAgree, EntryAgrees, IndexLists, Cold, Rows
<1>. QED
  BY <1>8, <1>10, <1>11 DEF IInv

LEMMA CommitKeeps ==
  ASSUME IInv, NEW u \in Uploads, CommitUpload(u)
  PROVE  IInv'
<1> DEFINE S == Written(u)
<1>1. /\ pc[u] = "rows" /\ u \in Ops
      /\ stock' = [i \in Items |-> IF i \in S THEN seen[u][i] ELSE stock[i]]
      /\ committed' = committed \union {u}
      /\ pc' = [pc EXCEPT ![u] = IF DOMAIN seen[u] = {} THEN "refresh" ELSE "invalidate"]
      /\ todo' = [todo EXCEPT ![u] = DOMAIN seen[u]]
      /\ line' = [line EXCEPT ![u] = 0]
      /\ was' = [was EXCEPT ![u] = Nothing]
      /\ UNCHANGED <<held, entry, index, stale, narrow, seen, scope, events>>
  BY DEF CommitUpload, cacheVars, keyVars, Ops
<1>2. /\ debt' = [debt EXCEPT ![u] = S]
      /\ old' = [p \in Ops |-> IF p = u THEN old[p] \ S
                  ELSE old[p] \union {i \in S : i \in DOMAIN seen[p] \/ pc[p] = "warm"}]
      /\ raced' \subseteq raced \union S /\ aged' \subseteq aged \union S
  BY DEF CommitUpload, Commits
<1>3. /\ DOMAIN seen[u] \subseteq Items /\ DOMAIN was[u] = DOMAIN seen[u]
      /\ Current(was[u], u) /\ debt[u] = {} /\ u \notin Tasks
      /\ \A j \in DOMAIN was[u] : was[u][j] # NoValue => j \in Rows
      /\ \A j \in DOMAIN seen[u] : seen[u][j] \in Nat
      /\ scope[u] \notin Items /\ scope[u] \in Scopes
  BY <1>1 DEF IInv, TypeOK, Works, Loads, Counts
<1>4. /\ S \subseteq DOMAIN was[u]
      /\ \A j \in DOMAIN was[u] \ S : was[u][j] = seen[u][j]
  BY DEF Written
<1>5. ~Conflicts(u)
  BY DEF CommitUpload
<1> HIDE DEF S
<1>6. /\ \A i \in Items \ S : stock'[i] = stock[i]
      /\ \A i \in S : stock'[i] = seen[u][i] /\ stock'[i] # NoValue
  BY <1>1, <1>3, <1>4, UploadAssumption
<1>7. TypeOK'
  <2>1. stock' \in [Items -> Quantities]
    BY <1>1, <1>3, <1>4 DEF IInv, TypeOK, Quantities
  <2>2. \A v \in Uploads : Counts(was'[v], Quantities)
    BY <1>1 DEF IInv, TypeOK, Counts, Nothing
  <2>3. /\ pc' \in [Ops -> Places] /\ todo' \in [Ops -> SUBSET Items]
        /\ line' \in [Uploads -> Nat]
    BY <1>1, <1>3 DEF IInv, TypeOK, Places
  <2>4. /\ old' \in [Ops -> SUBSET Items] /\ debt' \in [Ops -> SUBSET Items]
        /\ raced' \subseteq Items /\ aged' \subseteq Items
    BY <1>2, <1>3, <1>4 DEF IInv, TypeOK
  <2>. QED
    BY <1>1, <2>1, <2>2, <2>3, <2>4 DEF IInv, TypeOK
<1>8. Works(u)'
  <2>1. /\ pc'[u] \in {"refresh", "invalidate"} /\ todo'[u] = DOMAIN seen[u]
        /\ seen'[u] = seen[u] /\ debt'[u] = S /\ scope'[u] = scope[u]
        /\ old'[u] = old[u] \ S
    BY <1>1, <1>2 DEF IInv, TypeOK
  <2>2. \A j \in DOMAIN seen[u] : stock'[j] = seen[u][j] \/ j \in old'[u]
    BY <1>3, <1>4, <1>6, <2>1 DEF Current
  <2>3. DOMAIN seen[u] \subseteq Rows'
    <3>1. ASSUME NEW j \in DOMAIN seen[u] \ S PROVE stock'[j] # NoValue
      <4>1. was[u][j] = seen[u][j] /\ was[u][j] # NoValue
        BY <1>3, <1>4, <3>1, UploadAssumption
      <4>. QED
        BY <1>3, <1>6, <3>1, <4>1 DEF Rows
    <3>. QED
      BY <1>3, <1>6, <3>1 DEF Rows
  <2>. QED
    BY <1>3, <1>4, <2>1, <2>2, <2>3 DEF Works, Writes, Current
<1>9. ASSUME NEW p \in Ops \ {u} PROVE Works(p)'
  <2>1. Works(p) /\ stock \in [Items -> Quantities] /\ DOMAIN seen[p] \subseteq Items
        /\ (p \in Uploads => DOMAIN was[p] \subseteq Items) /\ S \in SUBSET Items
    BY <1>3, <1>4 DEF IInv, TypeOK, Counts
  <2>2. Rests(p)
    BY <1>1, <1>2 DEF IInv, TypeOK, Rests
  <2>3. old'[p] = old[p] \union {i \in S : i \in DOMAIN seen[p] \/ pc[p] = "warm"}
    BY <1>2
  <2>. QED
    BY <1>6, <2>1, <2>2, <2>3, Overtaken
<1>10. KeysAgree'
  <2>1. pc'[u] \in {"refresh", "invalidate"} /\ u \in committed'
    BY <1>1 DEF IInv, TypeOK
  <2>2. debt'[u] = S /\ \A p \in Ops \ {u} : debt'[p] = debt[p]
    BY <1>1, <1>2 DEF IInv, TypeOK
  <2>3. ASSUME NEW i \in Items
        PROVE  \/ entry'[i] \in {NoValue, stock'[i]} \/ i \in stale'
               \/ \E o \in Ops : i \in debt'[o]
    BY <1>1, <1>3, <1>6, <2>2 DEF IInv, KeysAgree, EntryAgrees, IndexLists
  <2>. QED
    BY <2>1, <2>3 DEF KeysAgree, EntryAgrees, IndexLists
<1>. QED
  BY <1>7, <1>8, <1>9, <1>10 DEF IInv

LEMMA RefuseKeeps ==
  ASSUME IInv, NEW u \in Uploads, RefuseUpload(u)
  PROVE  IInv'
<1>1. /\ u \in Ops /\ pc[u] = "rows" /\ Ends(u, "failed")
      /\ UNCHANGED <<stock, held, committed, raced, entry, index, stale, narrow, aged, events>>
  BY DEF RefuseUpload, rowVars, cacheVars, keyVars, Ops
<1>2. /\ Works(u)' /\ pc'[u] = "failed"
      /\ \A p \in Ops \ {u} : Rests(p) /\ old'[p] = old[p]
  BY <1>1, EndsStep DEF IInv
<1>3. TypeOK'
  BY <1>1, EndsStep DEF IInv, TypeOK
<1>4. \A p \in Ops : Works(p)'
  BY <1>1, <1>2, StillWorks DEF IInv
<1>5. KeysAgree'
  <2>1. debt[u] = {}
    BY <1>1 DEF IInv, Works, Loads
  <2>2. \A p \in Ops \ {u} : debt'[p] = debt[p] /\ pc'[p] = pc[p]
    BY <1>2 DEF Rests
  <2>3. \A i \in Items : EntryAgrees(i)'
    BY <1>1, <2>1, <2>2 DEF IInv, KeysAgree, EntryAgrees
  <2>4. IndexLists'
    BY <1>1, <2>2 DEF IInv, KeysAgree, IndexLists, Cold, Rows, TypeOK, Ops
  <2>. QED
    BY <2>3, <2>4 DEF KeysAgree, EntryAgrees, IndexLists
<1>. QED
  BY <1>3, <1>4, <1>5 DEF IInv

LEMMA InvalidateKeeps ==
  ASSUME IInv, NEW u \in Uploads, NEW i \in Items, InvalidateItem(u, i)
  PROVE  IInv'
<1>1. /\ u \in Ops /\ pc[u] = "invalidate" /\ i \in todo[u]
      /\ entry' = [entry EXCEPT ![i] = NoValue]
      /\ stale' = stale \ {i}
      /\ \/ /\ pc' = [pc EXCEPT ![u] = "refresh"]
            /\ todo' = [todo EXCEPT ![u] = DOMAIN seen[u]]
         \/ /\ todo' = [todo EXCEPT ![u] = @ \ {i}]
            /\ UNCHANGED pc
      /\ UNCHANGED <<stock, held, committed, raced, index, narrow, aged,
                     line, was, seen, scope, old, debt, events>>
  BY DEF InvalidateItem, rowVars, Ops
<1>2. Works(u) /\ DOMAIN seen[u] \subseteq Items
  BY <1>1 DEF IInv, TypeOK, Counts
<1>3. /\ \/ pc'[u] = "refresh" /\ todo'[u] = DOMAIN seen[u]
         \/ pc'[u] = "invalidate" /\ todo'[u] = todo[u] \ {i}
      /\ \A p \in Ops \ {u} : pc'[p] = pc[p] /\ todo'[p] = todo[p]
  BY <1>1 DEF IInv, TypeOK
<1>4. TypeOK'
  BY <1>1, <1>2, ZenonT(90) DEF IInv, TypeOK, Places, Quantities
<1>5. Works(u)'
  BY <1>1, <1>2, <1>3, UploadAssumption DEF Works, Writes, Current, Rows
<1>6. \A p \in Ops \ {u} : Works(p)'
  BY <1>1, <1>3, StillWorks DEF IInv, Rests
<1>7. KeysAgree'
  <2>1. \A j \in Items : EntryAgrees(j)'
    BY <1>1 DEF IInv, KeysAgree, EntryAgrees, TypeOK
  <2>2. IndexLists'
    BY <1>1, <1>3 DEF IInv, KeysAgree, IndexLists, Cold, Rows, TypeOK, Ops
  <2>. QED
    BY <2>1, <2>2 DEF KeysAgree, EntryAgrees, IndexLists
<1>. QED
  BY <1>4, <1>5, <1>6, <1>7 DEF IInv

LEMMA SetEntryKeeps ==
  ASSUME IInv, NEW o \in Ops, NEW i \in Items, SetEntry(o, i)
  PROVE  IInv'
<1>1. /\ pc[o] \in {"refresh", "warm"} /\ i \in todo[o]
      /\ entry' = [entry EXCEPT ![i] = seen[o][i]]
      /\ stale' = IF i \in old[o] THEN stale \union {i} ELSE stale \ {i}
      /\ \/ scope[o] = i /\ Ends(o, "done")
         \/ /\ todo' = [todo EXCEPT ![o] = @ \ {i}]
            /\ debt' = [debt EXCEPT ![o] = @ \ {i}]
            /\ UNCHANGED <<pc, line, was, seen, scope, old>>
      /\ UNCHANGED <<stock, held, committed, raced, index, narrow, aged, events>>
  BY DEF SetEntry, rowVars
<1>2. /\ Works(o) /\ Writes(o) /\ debt[o] \subseteq todo[o]
      /\ i \in DOMAIN seen[o] /\ seen[o][i] \in Nat
      /\ seen[o][i] = stock[i] \/ i \in old[o]
  BY <1>1 DEF IInv, TypeOK, Works, Writes, Current, Counts
<1>3. /\ Works(o)' /\ \A p \in Ops \ {o} : Rests(p) /\ old'[p] = old[p]
      /\ debt[o] \subseteq debt'[o] \union {i}
      /\ pc'[o] = pc[o] \/ o \in Tasks
  <2>1. CASE scope[o] = i /\ Ends(o, "done")
    BY <1>2, <2>1, EndsStep DEF IInv, Works
  <2>2. CASE /\ todo' = [todo EXCEPT ![o] = @ \ {i}]
             /\ debt' = [debt EXCEPT ![o] = @ \ {i}]
             /\ UNCHANGED <<pc, line, was, seen, scope, old>>
    <3>1. /\ todo'[o] = todo[o] \ {i} /\ debt'[o] = debt[o] \ {i}
          /\ \A p \in Ops \ {o} : Rests(p) /\ old'[p] = old[p]
      BY <2>2 DEF IInv, TypeOK, Rests
    <3>2. Works(o)'
      BY <1>1, <1>2, <2>2, <3>1 DEF Works, Writes, Current, Rows
    <3>. QED
      BY <2>2, <3>1, <3>2
  <2>. QED
    BY <1>1, <2>1, <2>2
<1>4. TypeOK'
  <2>1. entry' \in [Items -> Quantities] /\ stale' \subseteq Items
    BY <1>1, <1>2 DEF IInv, TypeOK, Quantities
  <2>2. CASE Ends(o, "done")
    BY <1>1, <2>1, <2>2, EndsStep DEF IInv, TypeOK
  <2>3. CASE /\ todo' = [todo EXCEPT ![o] = @ \ {i}]
             /\ debt' = [debt EXCEPT ![o] = @ \ {i}]
             /\ UNCHANGED <<pc, line, was, seen, scope, old>>
    BY <1>1, <2>1, <2>3 DEF IInv, TypeOK
  <2>. QED
    BY <1>1, <2>2, <2>3
<1>5. \A p \in Ops \ {o} : Works(p)'
  BY <1>1, <1>3, StillWorks DEF IInv
<1>6. KeysAgree'
  <2>1. \A p \in Ops \ {o} : debt'[p] = debt[p] /\ pc'[p] = pc[p]
    BY <1>3 DEF Rests
  <2>2. /\ \A j \in Items \ {i} : entry'[j] = entry[j] /\ (j \in stale' <=> j \in stale)
        /\ entry'[i] = stock[i] \/ i \in stale'
    BY <1>1, <1>2 DEF IInv, TypeOK
  <2>3. \A j \in Items : EntryAgrees(j)'
    BY <1>1, <1>3, <2>1, <2>2 DEF IInv, KeysAgree, EntryAgrees
  <2>4. \A u \in committed : pc'[u] = pc[u]
    BY <1>3, <2>1, UploadAssumption DEF IInv, TypeOK, Ops
  <2>5. IndexLists'
    BY <1>1, <2>4 DEF IInv, KeysAgree, IndexLists, Cold, Rows
  <2>. QED
    BY <2>3, <2>5 DEF KeysAgree, EntryAgrees, IndexLists
<1>. QED
  BY <1>3, <1>4, <1>5, <1>6 DEF IInv

LEMMA ReadForIndexKeeps ==
  ASSUME IInv, NEW u \in Uploads, ReadForIndex(u)
  PROVE  IInv'
<1>1. /\ u \in Ops /\ pc[u] = "refresh" /\ todo[u] = {}
      /\ pc' = [pc EXCEPT ![u] = "warm"]
      /\ seen' = [seen EXCEPT ![u] = [i \in Rows |-> Loaded(u, i)]]
      /\ todo' = [todo EXCEPT ![u] = Rows]
      /\ scope' = [scope EXCEPT ![u] = "all"]
      /\ UNCHANGED <<stock, held, committed, raced, entry, index, stale, narrow, aged,
                     line, was, old, debt, events>>
  BY DEF ReadForIndex, rowVars, cacheVars, keyVars, Ops
<1>2. /\ debt[u] = {} /\ Writes(u)
      /\ \A i \in Rows : Loaded(u, i) \in Nat /\ (Loaded(u, i) = stock[i] \/ i \in old[u])
  BY <1>1 DEF IInv, TypeOK, Works, Writes, Current, Counts, Loaded, Rows, Quantities
<1>3. /\ pc'[u] = "warm" /\ todo'[u] = Rows /\ scope'[u] = "all"
      /\ DOMAIN seen'[u] = Rows /\ \A i \in Rows : seen'[u][i] = Loaded(u, i)
      /\ \A p \in Ops \ {u} : Rests(p)
  BY <1>1 DEF IInv, TypeOK, Rests
<1>4. TypeOK'
  <2>1. \A p \in Ops : Counts(seen'[p], Nat)
    BY <1>2, <1>3 DEF IInv, TypeOK, Counts, Rests, Rows
  <2>. QED
    BY <1>1, <2>1 DEF IInv, TypeOK, Places, Scopes, Rows
<1>5. Works(u)'
  BY <1>1, <1>2, <1>3, UploadAssumption DEF Works, Writes, Current, Rows
<1>6. \A p \in Ops \ {u} : Works(p)'
  BY <1>1, <1>3, StillWorks DEF IInv
<1>7. KeysAgree'
  <2>1. \A j \in Items : EntryAgrees(j)'
    BY <1>1 DEF IInv, KeysAgree, EntryAgrees
  <2>2. IndexLists'
    BY <1>1, <1>3 DEF IInv, KeysAgree, IndexLists, Cold, Rows, TypeOK, Ops, Rests
  <2>. QED
    BY <2>1, <2>2 DEF KeysAgree, EntryAgrees, IndexLists
<1>. QED
  BY <1>4, <1>5, <1>6, <1>7 DEF IInv

LEMMA SetIndexKeeps ==
  ASSUME IInv, NEW o \in Ops, SetIndex(o)
  PROVE  IInv'
<1>1. /\ pc[o] = "warm" /\ todo[o] = {} /\ index' = seen[o]
      /\ narrow' = (scope[o] # "all" \/ ~(old[o] \subseteq DOMAIN seen[o]))
      /\ aged' = old[o] \intersect DOMAIN seen[o]
      /\ Ends(o, "done")
      /\ UNCHANGED <<stock, held, committed, raced, entry, stale, events>>
  BY DEF SetIndex, rowVars
<1>2. /\ Works(o) /\ Writes(o) /\ debt[o] = {} /\ Counts(seen[o], Nat)
  BY <1>1 DEF IInv, TypeOK, Works
<1>3. /\ Works(o)' /\ \A p \in Ops \ {o} : Rests(p) /\ old'[p] = old[p]
  BY <1>1, EndsStep DEF IInv
<1>4. TypeOK'
  BY <1>1, <1>2, EndsStep DEF IInv, TypeOK
<1>5. \A p \in Ops \ {o} : Works(p)'
  BY <1>1, <1>3, StillWorks DEF IInv
<1>6. KeysAgree'
  <2>1. \A i \in Items : EntryAgrees(i)'
    BY <1>1, <1>2, <1>3 DEF IInv, KeysAgree, EntryAgrees, Rests
  <2>2. narrow' \/ DOMAIN index' = Rows'
    BY <1>1, <1>2 DEF Works, Writes, Rows
  <2>. QED
    BY <2>1, <2>2 DEF KeysAgree, IndexLists
<1>. QED
  BY <1>3, <1>4, <1>5, <1>6 DEF IInv
-----------------------------------------------------------------------------
(* A reservation or a release, in either direction.                        *)
LEMMA AdjustKeeps ==
  ASSUME IInv, NEW k \in Tasks, NEW i \in Items, NEW n \in {1, -1}, Adjust(k, i, n),
         n = 1 => stock[i] >= 1, n = -1 => held[i] >= 1
  PROVE  IInv'
<1>1. /\ k \in Ops /\ pc[k] = "idle" /\ stock[i] # NoValue
      /\ stock' = [stock EXCEPT ![i] = @ - n]
      /\ held' = [held EXCEPT ![i] = @ + n]
      /\ pc' = [pc EXCEPT ![k] = "read"]
      /\ scope' = [scope EXCEPT ![k] = i]
      /\ todo' = [todo EXCEPT ![k] = {i}]
      /\ UNCHANGED <<committed, entry, index, stale, narrow, line, was, seen, events>>
  BY DEF Adjust, cacheVars, keyVars, Ops
<1>2. /\ debt' = [debt EXCEPT ![k] = {i}]
      /\ old' = [p \in Ops |-> IF p = k THEN old[p] \ {i}
                  ELSE old[p] \union {j \in {i} : j \in DOMAIN seen[p] \/ pc[p] = "warm"}]
      /\ raced' \subseteq raced \union {i} /\ aged' \subseteq aged \union {i}
  BY DEF Adjust, Commits
<1>3. stock[i] \in Nat /\ held[i] \in Nat
  BY <1>1 DEF IInv, TypeOK, Quantities
<1>4. stock[i] - n \in Nat /\ held[i] + n \in Nat
  BY <1>3
<1>5. /\ stock'[i] \in Nat /\ stock'[i] # NoValue /\ Rows' = Rows /\ i \in Rows
      /\ \A j \in Items \ {i} : stock'[j] = stock[j]
  BY <1>1, <1>4, UploadAssumption DEF IInv, TypeOK, Rows
<1>6. TypeOK'
  <2>1. stock' \in [Items -> Quantities] /\ held' \in [Items -> Nat]
    BY <1>1, <1>4 DEF IInv, TypeOK, Quantities
  <2>2. /\ pc' \in [Ops -> Places] /\ scope' \in [Ops -> Scopes]
        /\ todo' \in [Ops -> SUBSET Items]
    BY <1>1 DEF IInv, TypeOK, Places, Scopes
  <2>3. /\ old' \in [Ops -> SUBSET Items] /\ debt' \in [Ops -> SUBSET Items]
        /\ raced' \subseteq Items /\ aged' \subseteq Items
    BY <1>2 DEF IInv, TypeOK
  <2>. QED
    BY <1>1, <2>1, <2>2, <2>3 DEF IInv, TypeOK
<1>7. /\ pc'[k] = "read" /\ scope'[k] = i /\ todo'[k] = {i} /\ debt'[k] = {i}
      /\ \A p \in Ops \ {k} : Rests(p)
  BY <1>1, <1>2 DEF IInv, TypeOK, Rests
<1>8. Works(k)'
  BY <1>5, <1>7 DEF Works
<1>9. ASSUME NEW p \in Ops \ {k} PROVE Works(p)'
  <2>1. /\ Works(p) /\ stock \in [Items -> Quantities] /\ DOMAIN seen[p] \subseteq Items
        /\ p \in Uploads => DOMAIN was[p] \subseteq Items
        /\ {i} \in SUBSET Items
    BY DEF IInv, TypeOK, Counts
  <2>2. old'[p] = old[p] \union {j \in {i} : j \in DOMAIN seen[p] \/ pc[p] = "warm"}
    BY <1>2
  <2>. QED
    BY <1>5, <1>7, <2>1, <2>2, Overtaken
<1>10. KeysAgree'
  <2>1. \A p \in Ops \ {k} : debt'[p] = debt[p] /\ pc'[p] = pc[p]
    BY <1>7 DEF Rests
  <2>2. debt[k] = {} /\ k \notin committed /\ committed \subseteq Ops
    BY <1>1, UploadAssumption DEF IInv, Works, TypeOK, Ops
  <2>3. \A j \in Items : EntryAgrees(j)'
    BY <1>1, <1>5, <1>7, <2>1, <2>2 DEF IInv, KeysAgree, EntryAgrees
  <2>4. IndexLists'
    BY <1>1, <1>5, <2>1, <2>2 DEF IInv, KeysAgree, IndexLists, Cold
  <2>. QED
    BY <2>3, <2>4 DEF KeysAgree, EntryAgrees, IndexLists
<1>. QED
  BY <1>6, <1>8, <1>9, <1>10 DEF IInv

(* What a task that touches neither the table nor Redis does to the rest.  *)
LEMMA ReadingKeeps ==
  ASSUME IInv, NEW k \in Tasks, TypeOK', Works(k)', debt[k] \subseteq debt'[k],
         \A p \in Ops \ {k} : Rests(p) /\ old'[p] = old[p],
         UNCHANGED <<stock, committed, entry, index, stale, narrow>>
  PROVE  IInv'
<1>1. \A p \in Ops \ {k} : Works(p)' /\ debt'[p] = debt[p] /\ pc'[p] = pc[p]
  BY StillWorks DEF IInv, Rests
<1>2. k \notin committed /\ committed \subseteq Ops
  BY UploadAssumption DEF IInv, TypeOK, Ops
<1>3. \A j \in Items : EntryAgrees(j)'
  BY <1>1 DEF IInv, KeysAgree, EntryAgrees
<1>4. IndexLists'
  BY <1>1, <1>2 DEF IInv, KeysAgree, IndexLists, Cold, Rows
<1>. QED
  BY <1>1, <1>3, <1>4 DEF IInv, KeysAgree, EntryAgrees, IndexLists

LEMMA BeginReadKeeps ==
  ASSUME IInv, NEW k \in Tasks, NEW s \in Scopes, BeginRead(k, s)
  PROVE  IInv'
<1>1. /\ k \in Ops /\ pc[k] = "idle"
      /\ pc' = [pc EXCEPT ![k] = "read"]
      /\ scope' = [scope EXCEPT ![k] = s]
      /\ UNCHANGED <<stock, held, committed, raced, entry, index, stale, narrow, aged,
                     line, was, seen, todo, old, debt, events>>
  BY DEF BeginRead, rowVars, cacheVars, keyVars, Ops
<1>2. /\ pc'[k] = "read" /\ scope'[k] = s
      /\ todo[k] = {} /\ debt[k] = {}
      /\ \A p \in Ops \ {k} : Rests(p) /\ old'[p] = old[p]
  BY <1>1 DEF IInv, TypeOK, Works, Rests
<1>3. TypeOK'
  BY <1>1 DEF IInv, TypeOK, Places
<1>4. Works(k)'
  BY <1>1, <1>2 DEF Works
<1>. QED
  BY <1>1, <1>2, <1>3, <1>4, ReadingKeeps

LEMMA TakenRows ==
  ASSUME NEW s \in Scopes
  PROVE  /\ Taken(s) \subseteq Rows
         /\ s \in Items => Taken(s) = Rows \intersect {s}
         /\ s = "all" => Taken(s) = Rows
<1>1. CASE s \in Items
  BY <1>1, UploadAssumption DEF Taken
<1>2. CASE s \in Brands
  BY <1>2, UploadAssumption DEF Taken
<1>3. CASE s \in {"none", "all"}
  BY <1>3, UploadAssumption DEF Taken
<1>. QED
  BY <1>1, <1>2, <1>3 DEF Scopes

LEMMA ReadRowsKeeps ==
  ASSUME IInv, NEW k \in Tasks, ReadRows(k)
  PROVE  IInv'
<1> DEFINE T == Taken(scope[k])
<1>1. /\ k \in Ops /\ pc[k] = "read"
      /\ seen' = [seen EXCEPT ![k] = [i \in T |-> stock[i]]]
      /\ todo' = [todo EXCEPT ![k] = T]
      /\ pc' = [pc EXCEPT ![k] = IF scope[k] \in Items THEN "refresh" ELSE "warm"]
      /\ UNCHANGED <<stock, held, committed, raced, entry, index, stale, narrow, aged,
                     line, was, scope, old, debt, events>>
  BY DEF ReadRows, rowVars, cacheVars, keyVars, Ops
<1>2. /\ T \subseteq Rows /\ (scope[k] \in Items => T = Rows \intersect {scope[k]})
      /\ scope[k] = "all" => T = Rows
  BY <1>1, TakenRows DEF IInv, TypeOK
<1> HIDE DEF T
<1>3. Works(k) /\ debt[k] \subseteq {scope[k]} /\ debt[k] \subseteq Rows
  BY <1>1 DEF IInv, Works
<1>4. /\ pc'[k] = IF scope[k] \in Items THEN "refresh" ELSE "warm"
      /\ todo'[k] = T /\ DOMAIN seen'[k] = T /\ \A i \in T : seen'[k][i] = stock[i]
      /\ \A p \in Ops \ {k} : Rests(p) /\ old'[p] = old[p]
  BY <1>1 DEF IInv, TypeOK, Rests
<1>5. TypeOK'
  <2>1. \A i \in T : stock[i] \in Nat
    BY <1>2 DEF IInv, TypeOK, Rows, Quantities
  <2>2. \A p \in Ops : Counts(seen'[p], Nat)
    BY <1>2, <1>4, <2>1 DEF IInv, TypeOK, Counts, Rests, Rows
  <2>. QED
    BY <1>1, <1>2, <2>2 DEF IInv, TypeOK, Places, Rows
<1>6. Works(k)'
  <2>1. Writes(k)'
    BY <1>1, <1>2, <1>4 DEF Writes, Current, Rows
  <2>2. debt[k] \subseteq T
    BY <1>2, <1>3 DEF Rows
  <2>. QED
    BY <1>1, <1>2, <1>3, <1>4, <2>1, <2>2 DEF Works, Rows
<1>. QED
  BY <1>1, <1>4, <1>5, <1>6, ReadingKeeps

LEMMA ReadNoRowKeeps ==
  ASSUME IInv, NEW k \in Tasks, ReadNoRow(k)
  PROVE  IInv'
<1>1. /\ k \in Ops /\ pc[k] = "read" /\ scope[k] \in Items /\ Taken(scope[k]) = {}
      /\ Ends(k, "done")
      /\ UNCHANGED <<stock, held, committed, raced, entry, index, stale, narrow, aged, events>>
  BY DEF ReadNoRow, rowVars, cacheVars, keyVars, Ops
<1>2. debt[k] = {}
  BY <1>1, TakenRows DEF IInv, TypeOK, Works
<1>3. TypeOK'
  BY <1>1, EndsStep DEF IInv, TypeOK
<1>. QED
  BY <1>1, <1>2, <1>3, EndsStep, ReadingKeeps DEF IInv
-----------------------------------------------------------------------------
(* Keys that expire and calls that fail.                                   *)
LEMMA ExpireEntryKeeps ==
  ASSUME IInv, NEW i \in Items, ExpireEntry(i)
  PROVE  IInv'
<1>1. /\ entry' = [entry EXCEPT ![i] = NoValue] /\ stale' = stale \ {i}
      /\ events' = events + 1
      /\ UNCHANGED <<stock, held, committed, raced, index, narrow, aged,
                     pc, line, was, seen, todo, scope, old, debt>>
  BY DEF ExpireEntry, Event, rowVars, opVars
<1>2. TypeOK'
  <2>1. entry' \in [Items -> Quantities] /\ stale' \subseteq Items /\ events' \in Nat
    BY <1>1 DEF IInv, TypeOK, Quantities
  <2>. QED
    BY <1>1, <2>1 DEF IInv, TypeOK
<1>3. \A p \in Ops : Works(p)'
  BY <1>1, StillWorks DEF IInv, Rests
<1>4. \A j \in Items : EntryAgrees(j)'
  BY <1>1 DEF IInv, KeysAgree, TypeOK, EntryAgrees
<1>5. IndexLists'
  BY <1>1 DEF IInv, KeysAgree, IndexLists, Cold, Rows
<1>. QED
  BY <1>2, <1>3, <1>4, <1>5 DEF IInv, KeysAgree, EntryAgrees, IndexLists

LEMMA ExpireIndexKeeps ==
  ASSUME IInv, ExpireIndex
  PROVE  IInv'
<1>1. /\ index' = Nothing /\ aged' = {} /\ events' = events + 1
      /\ UNCHANGED <<stock, held, committed, raced, entry, stale, narrow,
                     pc, line, was, seen, todo, scope, old, debt>>
  BY DEF ExpireIndex, Event, rowVars, opVars
<1>2. TypeOK'
  BY <1>1 DEF IInv, TypeOK, Counts, Nothing
<1>3. \A p \in Ops : Works(p)'
  BY <1>1, StillWorks DEF IInv, Rests
<1>4. KeysAgree'
  BY <1>1 DEF IInv, KeysAgree, EntryAgrees, IndexLists, Cold
<1>. QED
  BY <1>2, <1>3, <1>4 DEF IInv

LEMMA FailsKeeps ==
  ASSUME IInv, NEW o \in Ops, Fails(o)
  PROVE  IInv'
<1>1. /\ Ends(o, "failed") /\ stale' = stale \union debt[o]
      /\ narrow' = (narrow \/ o \in committed) /\ events' = events + 1
      /\ UNCHANGED <<stock, held, committed, raced, entry, index, aged>>
  BY DEF Fails, Event, rowVars
<1>2. Works(o)' /\ \A p \in Ops \ {o} : Rests(p) /\ old'[p] = old[p]
  BY <1>1, EndsStep DEF IInv
<1>3. TypeOK'
  BY <1>1, EndsStep DEF IInv, TypeOK
<1>4. \A p \in Ops : Works(p)'
  BY <1>1, <1>2, StillWorks DEF IInv
<1>5. KeysAgree'
  <2>1. \A p \in Ops \ {o} : debt'[p] = debt[p] /\ pc'[p] = pc[p]
    BY <1>2 DEF Rests
  <2>2. \A j \in Items : EntryAgrees(j)'
    BY <1>1, <2>1 DEF IInv, KeysAgree, EntryAgrees
  <2>3. IndexLists'
    BY <1>1, <2>1 DEF IInv, KeysAgree, IndexLists, Cold, Rows, TypeOK, Ops
  <2>. QED
    BY <2>2, <2>3 DEF KeysAgree, EntryAgrees, IndexLists
<1>. QED
  BY <1>3, <1>4, <1>5 DEF IInv
-----------------------------------------------------------------------------
LEMMA InitIInv == Init => IInv
<1> SUFFICES ASSUME Init PROVE IInv
  OBVIOUS
<1>1. Counts(Nothing, Nat) /\ Counts(Nothing, Quantities)
  BY DEF Nothing, Counts
<1>2. TypeOK
  <2>1. /\ stock \in [Items -> Quantities] /\ held \in [Items -> Nat]
        /\ entry \in [Items -> Quantities]
    BY UploadAssumption DEF Init, Quantities
  <2>2. /\ pc \in [Ops -> Places] /\ line \in [Uploads -> Nat]
        /\ todo \in [Ops -> SUBSET Items] /\ scope \in [Ops -> Scopes]
        /\ old \in [Ops -> SUBSET Items] /\ debt \in [Ops -> SUBSET Items]
    BY DEF Init, Places, Scopes
  <2>3. /\ DOMAIN was = Uploads /\ \A u \in Uploads : Counts(was[u], Quantities)
        /\ DOMAIN seen = Ops /\ \A o \in Ops : Counts(seen[o], Nat)
    BY <1>1 DEF Init
  <2>. QED
    BY <1>1, <2>1, <2>2, <2>3 DEF Init, TypeOK
<1>3. KeysAgree
  BY DEF Init, KeysAgree, EntryAgrees, IndexLists, Cold
<1>4. ASSUME NEW o \in Ops PROVE Works(o)
  <2>1. /\ todo[o] = {} /\ debt[o] = {} /\ scope[o] = "none" /\ scope[o] \notin Items
        /\ pc[o] = IF o \in Uploads THEN "rows" ELSE "idle"
    BY UploadAssumption DEF Init
  <2>2. o \in Uploads => Loads(o)
    <3>1. DOMAIN Nothing = {}
      BY DEF Nothing
    <3>. QED
      BY <2>1, <3>1, UploadAssumption DEF Init, Loads, Current
  <2>. QED
    BY <2>1, <2>2 DEF Works, Ops
<1>. QED
  BY <1>2, <1>3, <1>4 DEF IInv

LEMMA NextIInv == IInv /\ [Next]_vars => IInv'
<1> SUFFICES ASSUME IInv, [Next]_vars PROVE IInv'
  OBVIOUS
<1>1. ASSUME NEW u \in Uploads, UploadStep(u) PROVE IInv'
  BY <1>1, UpsertKeeps, CommitKeeps, RefuseKeeps, ReadForIndexKeeps, InvalidateKeeps
  DEF UploadStep
<1>2. ASSUME NEW k \in Tasks, TaskStep(k) PROVE IInv'
  <2>1. ASSUME NEW i \in Items, Reserve(k, i) PROVE IInv'
    BY <2>1, AdjustKeeps DEF Reserve
  <2>2. ASSUME NEW i \in Items, Release(k, i) PROVE IInv'
    BY <2>2, AdjustKeeps DEF Release
  <2>3. ASSUME NEW s \in Scopes, BeginRead(k, s) PROVE IInv'
    BY <2>3, BeginReadKeeps
  <2>4. CASE ReadRows(k) \/ ReadNoRow(k)
    BY <2>4, ReadRowsKeeps, ReadNoRowKeeps
  <2>. QED
    BY <1>2, <2>1, <2>2, <2>3, <2>4
    DEF TaskStep, SearchByName, GetById, AlternativesSameName, Scopes
<1>3. ASSUME NEW o \in Ops, SetIndex(o) \/ Fails(o) \/ \E i \in Items : SetEntry(o, i)
      PROVE  IInv'
  BY <1>3, SetIndexKeeps, FailsKeeps, SetEntryKeeps
<1>4. CASE ExpireIndex \/ \E i \in Items : ExpireEntry(i)
  BY <1>4, ExpireIndexKeeps, ExpireEntryKeeps
<1>5. ASSUME UNCHANGED vars PROVE IInv'
  <2>1. TypeOK'
    BY <1>5 DEF IInv, TypeOK, vars, rowVars, cacheVars, keyVars, opVars
  <2>2. KeysAgree'
    BY <1>5 DEF IInv, KeysAgree, EntryAgrees, IndexLists, Cold, Rows, vars, rowVars, cacheVars, keyVars, opVars
  <2>3. \A p \in Ops : Works(p)'
    BY <1>5, StillWorks DEF IInv, Rests, vars, rowVars, cacheVars, keyVars, opVars
  <2>. QED
    BY <2>1, <2>2, <2>3 DEF IInv
<1>. QED
  BY <1>1, <1>2, <1>3, <1>4, <1>5 DEF Next

LEMMA InductiveInvariant == Spec => []IInv
BY InitIInv, NextIInv, PTL DEF Spec

(* Every variable has values of its type: neither the read-modify-write of *)
(* an upload nor the UPDATE of a reservation makes a quantity negative.    *)
THEOREM TypeCorrect == Spec => []TypeOK
<1>1. IInv => TypeOK
  BY DEF IInv
<1>. QED
  BY InductiveInvariant, <1>1, PTL

(* A change of the table by one commit makes the listed items of it aged.  *)
LEMMA CountsCommit ==
  ASSUME IInv, IndexCounts, NEW o \in Ops, NEW S \in SUBSET Items, Commits(o, S),
         \A i \in Items \ S : stock'[i] = stock[i], UNCHANGED index
  PROVE  IndexCounts'
<1>1. aged' = aged \union (S \intersect DOMAIN index) /\ DOMAIN index \subseteq Items
  BY DEF Commits, IInv, TypeOK, Counts
<1>. QED
  BY <1>1 DEF IndexCounts

(* What an operation has read is in the table, or a commit overtook it.    *)
LEMMA CountsStep == IInv /\ IndexCounts /\ [Next]_vars => IndexCounts'
<1> SUFFICES ASSUME IInv, IndexCounts, [Next]_vars PROVE IndexCounts'
  OBVIOUS
<1>1. ASSUME UNCHANGED <<stock, index, aged>> PROVE IndexCounts'
  BY <1>1 DEF IndexCounts
<1>2. ASSUME NEW u \in Uploads, CommitUpload(u) PROVE IndexCounts'
  <2>1. u \in Ops /\ Written(u) \in SUBSET Items /\ Commits(u, Written(u)) /\ UNCHANGED index
    BY <1>2 DEF CommitUpload, keyVars, Ops, Written, IInv, TypeOK, Counts
  <2>2. \A i \in Items \ Written(u) : stock'[i] = stock[i]
    BY <1>2 DEF CommitUpload
  <2>. QED
    BY <2>1, <2>2, CountsCommit
<1>3. ASSUME NEW k \in Tasks, NEW i \in Items, NEW n, Adjust(k, i, n) PROVE IndexCounts'
  <2>1. k \in Ops /\ {i} \in SUBSET Items /\ Commits(k, {i}) /\ UNCHANGED index
    BY <1>3 DEF Adjust, keyVars, Ops
  <2>2. \A j \in Items \ {i} : stock'[j] = stock[j]
    BY <1>3 DEF Adjust, IInv, TypeOK
  <2>. QED
    BY <2>1, <2>2, CountsCommit
<1>4. ASSUME NEW o \in Ops, SetIndex(o) PROVE IndexCounts'
  <2>1. /\ index' = seen[o] /\ aged' = old[o] \intersect DOMAIN seen[o] /\ UNCHANGED stock
        /\ pc[o] = "warm"
    BY <1>4 DEF SetIndex, rowVars
  <2>2. \A i \in DOMAIN seen[o] : seen[o][i] = stock[i] \/ i \in old[o]
    BY <2>1 DEF IInv, Works, Writes, Current
  <2>. QED
    BY <2>1, <2>2 DEF IndexCounts
<1>5. CASE ExpireIndex
  BY <1>5 DEF ExpireIndex, Nothing, IndexCounts
<1>6. ASSUME NEW u \in Uploads, UploadStep(u), ~CommitUpload(u) PROVE IndexCounts'
  BY <1>1, <1>6
     DEF UploadStep, UpsertRow, RefuseUpload, ReadForIndex, InvalidateItem, rowVars, cacheVars,
         keyVars
<1>7. ASSUME NEW k \in Tasks, TaskStep(k) PROVE IndexCounts'
  BY <1>1, <1>3, <1>7
     DEF TaskStep, SearchByName, GetById, AlternativesSameName, BeginRead, ReadRows, ReadNoRow,
         Reserve, Release, rowVars, cacheVars, keyVars
<1>8. CASE UNCHANGED vars
  BY <1>1, <1>8 DEF vars, rowVars, cacheVars, keyVars
<1>9. ASSUME NEW o \in Ops, Fails(o) \/ \E i \in Items : SetEntry(o, i) PROVE IndexCounts'
  BY <1>1, <1>9 DEF Fails, SetEntry, rowVars
<1>10. ASSUME NEW i \in Items, ExpireEntry(i) PROVE IndexCounts'
  BY <1>1, <1>10 DEF ExpireEntry, rowVars
<1>. QED
  BY <1>2, <1>4, <1>5, <1>6, <1>7, <1>8, <1>9, <1>10 DEF Next

(* What Redis shows of the catalogue is what the items table has, for any  *)
(* number of uploads, reservations, rollbacks and reads in any order.  An  *)
(* entry has the quantity of the row and the index lists every row, except *)
(* where a write of the cache was overtaken, filtered, lost or is not done *)
(* yet.  A quantity in the index is the one of the row when the index was  *)
(* made: every reservation and release since then leaves it behind.        *)
THEOREM CacheAgreement == Spec => []CacheAgrees
<1>1. IInv /\ IndexCounts => CacheAgrees
  BY DEF IInv, KeysAgree, CacheAgrees
<1>2. Init => IndexCounts
  BY DEF Init, Nothing, IndexCounts
<1>. QED
  BY InductiveInvariant, <1>1, <1>2, CountsStep, PTL DEF Spec
-----------------------------------------------------------------------------
(* What an upload has in memory: of an item it has not met the rows so far *)
(* add nothing, of another the quantity is the loaded one and what they    *)
(* add; and what it loaded is in the table, unless the item was raced.     *)
Tallies(u) ==
  /\ u \notin committed
  /\ line[u] <= Len(ValidRows(u))
  /\ \A i \in Items \ DOMAIN seen[u] : Adds(u, i, line[u]) = 0
  /\ \A i \in DOMAIN seen[u] : seen[u][i] = Count(was[u][i]) + Adds(u, i, line[u])
  /\ \A i \in DOMAIN was[u] \ raced : was[u][i] # NoValue => was[u][i] = stock[i]

UnitsInv ==
  /\ IsFiniteSet(committed)
  /\ StockAccounted
  /\ \A u \in Uploads : pc[u] = "rows" => Tallies(u)

(* Sums over the rows of a file.                                           *)
LEMMA UnitsType ==
  ASSUME NEW u \in Uploads, NEW i \in Items
  PROVE  /\ Len(ValidRows(u)) \in Nat
         /\ \A k \in 1..Len(ValidRows(u)) :
              /\ ValidRows(u)[k].qty \in Nat /\ Units(u, i)[k] \in Nat
              /\ Units(u, i)[k] = IF ValidRows(u)[k].item = i THEN ValidRows(u)[k].qty ELSE 0
<1>1. ValidRows(u) \in Seq([item: Items, qty: Nat])
  BY UploadAssumption
<1>2. \A k \in 1..Len(ValidRows(u)) : ValidRows(u)[k] \in [item: Items, qty: Nat]
  BY <1>1, ElementOfSeq
<1>3. Len(ValidRows(u)) \in Nat
  BY <1>1
<1>4. \A k \in 1..Len(ValidRows(u)) : ValidRows(u)[k].qty \in Nat
  BY <1>2
<1>. QED
  BY <1>3, <1>4 DEF Units

LEMMA AddsRows ==
  ASSUME NEW u \in Uploads, NEW i \in Items, NEW n \in Nat, n <= Len(ValidRows(u))
  PROVE  /\ Adds(u, i, n) \in Nat /\ Adds(u, i, 0) = 0
         /\ n < Len(ValidRows(u)) => Adds(u, i, n + 1) = Adds(u, i, n) + Units(u, i)[n + 1]
<1>1. \A k \in 1..Len(ValidRows(u)) : Units(u, i)[k] \in Nat
  BY UnitsType
<1>2. IsFiniteSet(1..n) /\ 1..n \subseteq 1..Len(ValidRows(u)) /\ Len(ValidRows(u)) \in Nat
  <2>1. IsFiniteSet(1..n)
    BY FS_Interval
  <2>2. Len(ValidRows(u)) \in Nat
    BY UnitsType
  <2>. QED
    BY <2>1, <2>2
<1> DEFINE S == 1..n
           f == Units(u, i)
<1>3. IsFiniteSet(S) /\ \A k \in S : f[k] \in Nat
  BY <1>1, <1>2
<1>4. 1..0 = {}
  OBVIOUS
<1>5. Adds(u, i, 0) = 0
  BY <1>4, SumEmpty DEF Adds
<1>6. Adds(u, i, n) = SumFunctionOnSet(f, S)
  BY DEF Adds
<1>7. ASSUME n < Len(ValidRows(u)) PROVE Adds(u, i, n + 1) = Adds(u, i, n) + f[n + 1]
  <2> DEFINE x == n + 1
  <2>1. x \notin S /\ 1..x = S \union {x} /\ \A k \in S \union {x} : f[k] \in Nat
    BY <1>1, <1>2, <1>7
  <2>2. Adds(u, i, x) = SumFunctionOnSet(f, 1..x)
    BY DEF Adds
  <2> HIDE DEF S, f, x
  <2>3. Adds(u, i, x) = SumFunctionOnSet(f, S) + f[x]
    <3>1. SumFunctionOnSet(f, S \union {x}) = SumFunctionOnSet(f, S) + f[x]
      BY <1>3, <2>1, SumAdd
    <3>. QED
      BY <2>1, <2>2, <3>1
  <2>. QED
    BY <1>6, <2>3 DEF x
<1> HIDE DEF S, f
<1>8. Adds(u, i, n) \in Nat
  BY <1>3, <1>6, SumType
<1>. QED
  BY <1>5, <1>7, <1>8 DEF f

(* What the committed uploads added.                                       *)
LEMMA AddedMore ==
  ASSUME NEW u \in Uploads, NEW C \in SUBSET Uploads, IsFiniteSet(C), u \notin C, NEW i \in Items
  PROVE  LET all == [v \in Uploads |-> Adds(v, i, Len(ValidRows(v)))]
         IN  /\ SumFunctionOnSet(all, C) \in Nat
             /\ SumFunctionOnSet(all, C \union {u})
                  = SumFunctionOnSet(all, C) + Adds(u, i, Len(ValidRows(u)))
<1> DEFINE all == [v \in Uploads |-> Adds(v, i, Len(ValidRows(v)))]
<1>1. \A v \in Uploads : all[v] \in Nat
  BY AddsRows, UnitsType
<1>2. all[u] = Adds(u, i, Len(ValidRows(u)))
  OBVIOUS
<1> HIDE DEF all
<1>3. \A v \in C \union {u} : all[v] \in Nat
  BY <1>1
<1>4. SumFunctionOnSet(all, C) \in Nat
  BY <1>3, SumType
<1>5. SumFunctionOnSet(all, C \union {u}) = SumFunctionOnSet(all, C) + all[u]
  BY <1>3, SumAdd
<1>. QED
  BY <1>2, <1>4, <1>5 DEF all
-----------------------------------------------------------------------------
(* A step that leaves the table alone, and every upload that goes on with  *)
(* its file.                                                               *)
LEMMA UnitsFrame ==
  ASSUME UnitsInv, UNCHANGED rowVars,
         \A u \in Uploads : pc'[u] = "rows" =>
            pc[u] = "rows" /\ line'[u] = line[u] /\ was'[u] = was[u] /\ seen'[u] = seen[u]
  PROVE  UnitsInv'
<1>1. UNCHANGED <<stock, held, committed, raced>>
  BY DEF rowVars
<1>2. StockAccounted'
  BY <1>1 DEF UnitsInv, StockAccounted, Added
<1>3. ASSUME NEW u \in Uploads, pc'[u] = "rows" PROVE Tallies(u)'
  BY <1>1, <1>3 DEF UnitsInv, Tallies
<1>. QED
  BY <1>1, <1>2, <1>3 DEF UnitsInv

(* One row of a file.                                                      *)
LEMMA UnitsUpsert ==
  ASSUME IInv, UnitsInv, NEW u \in Uploads, UpsertRow(u)
  PROVE  UnitsInv'
<1> DEFINE n == line[u]
           row == ValidRows(u)[n + 1]
           i == row.item
           found == Loaded(u, i)
           sum == IF found = NoValue THEN row.qty ELSE found + row.qty
<1>1. /\ pc[u] = "rows" /\ n < Len(ValidRows(u))
      /\ line' = [line EXCEPT ![u] = @ + 1]
      /\ was' = [was EXCEPT ![u] = IF i \in DOMAIN @ THEN @ ELSE With(@, i, found)]
      /\ seen' = [seen EXCEPT ![u] = With(@, i, sum)]
      /\ UNCHANGED <<stock, held, committed, raced, pc>>
  BY DEF UpsertRow, rowVars
<1>2. n \in Nat /\ Len(ValidRows(u)) \in Nat /\ n + 1 \in 1..Len(ValidRows(u))
  BY <1>1, UnitsType DEF IInv, TypeOK
<1>3. i \in Items /\ row.qty \in Nat
  <2>1. ValidRows(u) \in Seq([item: Items, qty: Nat])
    BY UploadAssumption
  <2>2. row \in [item: Items, qty: Nat]
    BY <1>2, <2>1, ElementOfSeq
  <2> HIDE DEF row
  <2>. QED
    BY <2>2
<1>4. \A j \in Items : Units(u, j)[n + 1] = IF i = j THEN row.qty ELSE 0
  BY <1>2, UnitsType
<1> HIDE DEF row
<1>5. \A j \in Items : Adds(u, j, n) \in Nat /\ Adds(u, j, n + 1) = Adds(u, j, n) + Units(u, j)[n + 1]
  BY <1>1, <1>2, AddsRows
<1>6. /\ u \in Ops /\ DOMAIN seen[u] \subseteq Items /\ DOMAIN was[u] = DOMAIN seen[u]
      /\ Tallies(u)
      /\ \A j \in DOMAIN was[u] : was[u][j] \in Quantities
      /\ \A j \in DOMAIN seen[u] : seen[u][j] \in Nat
  BY <1>1 DEF IInv, UnitsInv, TypeOK, Works, Loads, Counts, Ops
<1>7. found = IF i \in DOMAIN seen[u] THEN seen[u][i] ELSE stock[i]
  BY DEF Loaded
<1>8. found \in Quantities
  BY <1>3, <1>6, <1>7 DEF IInv, TypeOK, Quantities
<1>9. sum = Count(found) + row.qty /\ Count(found) \in Nat
  BY <1>3, <1>8 DEF Count, Quantities
<1> HIDE DEF i, found, sum
<1>10. /\ line'[u] = n + 1
       /\ DOMAIN seen'[u] = DOMAIN seen[u] \union {i} /\ seen'[u][i] = sum
       /\ \A j \in DOMAIN seen[u] \ {i} : seen'[u][j] = seen[u][j]
  BY <1>1, <1>6 DEF IInv, TypeOK, With
<1>11. /\ DOMAIN was'[u] = DOMAIN was[u] \union {i}
       /\ \A j \in DOMAIN was[u] : was'[u][j] = was[u][j]
       /\ i \notin DOMAIN was[u] => was'[u][i] = found
  BY <1>1 DEF IInv, TypeOK, With
<1>12. /\ \A j \in Items \ DOMAIN seen[u] : Adds(u, j, n) = 0
       /\ \A j \in DOMAIN seen[u] : seen[u][j] = Count(was[u][j]) + Adds(u, j, n)
       /\ \A j \in DOMAIN was[u] \ raced : was[u][j] # NoValue => was[u][j] = stock[j]
       /\ u \notin committed
  BY <1>6 DEF Tallies
<1> HIDE DEF n
<1>13. ASSUME NEW j \in Items \ DOMAIN seen'[u] PROVE Adds(u, j, n + 1) = 0
  BY <1>4, <1>5, <1>10, <1>12, <1>13
<1>14. ASSUME NEW j \in DOMAIN seen'[u]
       PROVE  seen'[u][j] = Count(was'[u][j]) + Adds(u, j, n + 1)
  <2>1. /\ j \in Items /\ Adds(u, j, n) \in Nat
        /\ Adds(u, j, n + 1) = Adds(u, j, n) + Units(u, j)[n + 1]
        /\ Units(u, j)[n + 1] = IF i = j THEN row.qty ELSE 0
    BY <1>3, <1>4, <1>5, <1>6, <1>10
  <2>2. CASE j # i
    <3>1. j \in DOMAIN seen[u] /\ j \in DOMAIN was[u]
      BY <1>6, <1>10, <2>2
    <3>2. /\ seen'[u][j] = seen[u][j] /\ was'[u][j] = was[u][j]
          /\ seen[u][j] = Count(was[u][j]) + Adds(u, j, n)
      BY <1>10, <1>11, <1>12, <2>2, <3>1
    <3>3. Adds(u, j, n + 1) = Adds(u, j, n)
      BY <2>1, <2>2
    <3>. QED
      BY <3>2, <3>3
  <2>3. CASE j = i /\ i \in DOMAIN seen[u]
    <3>1. /\ was'[u][i] = was[u][i] /\ found = seen[u][i] /\ found \in Nat
          /\ seen[u][i] = Count(was[u][i]) + Adds(u, i, n)
      BY <1>6, <1>7, <1>11, <1>12, <2>3
    <3>2. Count(was[u][i]) \in Nat /\ Count(found) = found
      <4>1. was[u][i] \in Quantities
        BY <1>6, <2>3
      <4>. QED
        BY <3>1, <4>1, UploadAssumption DEF Count, Quantities
    <3>3. /\ Adds(u, i, n + 1) = Adds(u, i, n) + row.qty /\ seen'[u][i] = found + row.qty
          /\ Adds(u, i, n) \in Nat /\ row.qty \in Nat
      BY <1>3, <1>9, <1>10, <2>1, <2>3, <3>2
    <3> DEFINE w == Count(was[u][i])
               a == Adds(u, i, n)
               q == row.qty
    <3>4. found = w + a /\ w \in Nat /\ a \in Nat /\ q \in Nat
      BY <3>1, <3>2, <3>3
    <3>5. seen'[u][i] = found + q /\ Adds(u, i, n + 1) = a + q /\ Count(was'[u][i]) = w
      BY <3>1, <3>3
    <3> HIDE DEF w, a, q
    <3>. QED
      BY <2>3, <3>4, <3>5
  <2>4. CASE j = i /\ i \notin DOMAIN seen[u]
    <3>1. was'[u][i] = found /\ Adds(u, i, n) = 0
      BY <1>3, <1>6, <1>11, <1>12, <2>4
    <3>2. Adds(u, i, n + 1) = row.qty /\ seen'[u][i] = Count(found) + row.qty
      BY <1>3, <1>9, <1>10, <2>1, <2>4, <3>1
    <3>. QED
      BY <2>4, <3>1, <3>2
  <2>. QED
    BY <2>2, <2>3, <2>4
<1>15. ASSUME NEW j \in DOMAIN was'[u] \ raced', was'[u][j] # NoValue
       PROVE  was'[u][j] = stock'[j]
  <2>1. CASE j \in DOMAIN was[u]
    BY <1>1, <1>11, <1>12, <1>15, <2>1
  <2>2. CASE j \notin DOMAIN was[u]
    BY <1>1, <1>6, <1>7, <1>11, <1>15, <2>2
  <2>. QED
    BY <2>1, <2>2
<1>16. Tallies(u)'
  <2>1. n + 1 <= Len(ValidRows(u)) /\ u \notin committed'
    BY <1>1, <1>2, <1>12
  <2>. QED
    BY <1>10, <1>13, <1>14, <1>15, <2>1 DEF Tallies
<1>17. ASSUME NEW v \in Uploads \ {u}, pc'[v] = "rows" PROVE Tallies(v)'
  <2>1. line'[v] = line[v] /\ was'[v] = was[v] /\ seen'[v] = seen[v] /\ Tallies(v)
    BY <1>1, <1>17 DEF UnitsInv, IInv, TypeOK, Ops
  <2>. QED
    BY <1>1, <2>1 DEF Tallies
<1>18. StockAccounted' /\ IsFiniteSet(committed)'
  BY <1>1 DEF UnitsInv, StockAccounted, Added
<1>. QED
  BY <1>16, <1>17, <1>18 DEF UnitsInv

(* The commit of a file: each item gets what its rows add.                 *)
LEMMA UnitsCommit ==
  ASSUME IInv, UnitsInv, NEW u \in Uploads, CommitUpload(u)
  PROVE  UnitsInv'
<1> DEFINE S == Written(u)
           n == Len(ValidRows(u))
<1>1. /\ pc[u] = "rows" /\ u \in Ops /\ line[u] = n /\ ~Conflicts(u)
      /\ stock' = [i \in Items |-> IF i \in S THEN seen[u][i] ELSE stock[i]]
      /\ committed' = committed \union {u}
      /\ pc' = [pc EXCEPT ![u] = IF DOMAIN seen[u] = {} THEN "refresh" ELSE "invalidate"]
      /\ line' = [line EXCEPT ![u] = 0]
      /\ was' = [was EXCEPT ![u] = Nothing]
      /\ UNCHANGED <<held, seen>>
  BY DEF CommitUpload, Ops
<1>2. raced' = raced \union
       {i \in S : \E v \in Uploads \ {u} :
          pc[v] = "rows" /\ i \in DOMAIN was[v] /\ was[v][i] # NoValue}
  BY DEF CommitUpload, Commits
<1>3. /\ DOMAIN seen[u] \subseteq Items /\ DOMAIN was[u] = DOMAIN seen[u]
      /\ \A j \in DOMAIN was[u] : was[u][j] \in Quantities
      /\ \A j \in DOMAIN seen[u] : seen[u][j] \in Nat
      /\ Tallies(u)
  BY <1>1 DEF IInv, UnitsInv, TypeOK, Works, Loads, Counts
<1>4. S = {j \in DOMAIN was[u] : was[u][j] # seen[u][j]}
  BY DEF Written
<1>5. \A j \in DOMAIN was[u] : was[u][j] = NoValue => stock[j] = NoValue
  BY <1>1 DEF Conflicts
<1>6. /\ \A j \in Items \ DOMAIN seen[u] : Adds(u, j, n) = 0
      /\ \A j \in DOMAIN seen[u] : seen[u][j] = Count(was[u][j]) + Adds(u, j, n)
      /\ \A j \in DOMAIN was[u] \ raced : was[u][j] # NoValue => was[u][j] = stock[j]
      /\ u \notin committed
  BY <1>1, <1>3 DEF Tallies
<1>7. \A j \in Items : Adds(u, j, n) \in Nat
  BY UnitsType, AddsRows
<1> HIDE DEF S, n
<1>8. ASSUME NEW i \in Items \ raced PROVE Count(stock'[i]) = Count(stock[i]) + Adds(u, i, n)
  <2>1. Adds(u, i, n) \in Nat /\ stock[i] \in Quantities /\ Count(stock[i]) \in Nat
    BY <1>7 DEF IInv, TypeOK, Count, Quantities
  <2>2. CASE i \notin DOMAIN seen[u]
    BY <1>1, <1>3, <1>4, <1>6, <2>1, <2>2
  <2>3. CASE i \in DOMAIN seen[u]
    <3>1. /\ seen[u][i] \in Nat /\ seen[u][i] = Count(was[u][i]) + Adds(u, i, n)
          /\ was[u][i] \in Quantities
      BY <1>3, <1>6, <2>3
    <3>2. was[u][i] = stock[i]
      BY <1>3, <1>5, <1>6, <2>3
    <3>3. Count(seen[u][i]) = seen[u][i]
      BY <3>1, UploadAssumption DEF Count
    <3>4. CASE i \in S
      BY <1>1, <3>1, <3>2, <3>3, <3>4
    <3>5. CASE i \notin S
      <4>1. was[u][i] = seen[u][i] /\ stock'[i] = stock[i]
        BY <1>1, <1>3, <1>4, <2>3, <3>5
      <4>. QED
        BY <2>1, <3>1, <3>2, <3>3, <4>1
    <3>. QED
      BY <3>4, <3>5
  <2>. QED
    BY <2>2, <2>3
<1>9. StockAccounted'
  <2> SUFFICES ASSUME NEW i \in Items \ raced'
               PROVE  Count(stock'[i]) + held'[i] = Count(InitialStock[i]) + Added(i)'
    BY DEF StockAccounted
  <2>1. i \in Items /\ i \notin raced
    BY <1>2
  <2>2. Count(stock[i]) + held[i] = Count(InitialStock[i]) + Added(i)
    BY <2>1 DEF UnitsInv, StockAccounted
  <2>3. committed \in SUBSET Uploads /\ IsFiniteSet(committed) /\ u \notin committed
    BY <1>6 DEF UnitsInv, IInv, TypeOK
  <2>4. Added(i) \in Nat /\ Added(i)' = Added(i) + Adds(u, i, n)
    BY <1>1, <2>1, <2>3, AddedMore DEF Added, n
  <2>5. /\ Count(stock'[i]) = Count(stock[i]) + Adds(u, i, n) /\ held'[i] = held[i]
        /\ Adds(u, i, n) \in Nat
    BY <1>1, <1>7, <1>8, <2>1
  <2>6. Count(stock[i]) \in Nat /\ held[i] \in Nat /\ Count(InitialStock[i]) \in Nat
    BY <2>1, UploadAssumption DEF IInv, TypeOK, Count, Quantities
  <2> DEFINE more == Added(i)'
             have == Count(stock'[i])
  <2>7. more = Added(i) + Adds(u, i, n) /\ have = Count(stock[i]) + Adds(u, i, n)
    BY <2>4, <2>5
  <2> HIDE DEF more, have
  <2>8. have + held[i] = Count(InitialStock[i]) + more
    BY <2>2, <2>4, <2>5, <2>6, <2>7
  <2>. QED
    BY <2>5, <2>8 DEF more, have
<1>10. ASSUME NEW v \in Uploads, pc'[v] = "rows" PROVE Tallies(v)'
  <2>1. /\ v # u /\ pc[v] = "rows" /\ line'[v] = line[v] /\ was'[v] = was[v]
        /\ seen'[v] = seen[v]
    BY <1>1, <1>10 DEF IInv, TypeOK, Ops
  <2>2. Tallies(v) /\ v \notin committed' /\ DOMAIN was[v] \subseteq Items
    BY <1>1, <2>1 DEF UnitsInv, IInv, TypeOK, Counts, Tallies
  <2>3. ASSUME NEW i \in DOMAIN was[v] \ raced', was[v][i] # NoValue
        PROVE  was[v][i] = stock'[i]
    <3>1. i \notin S /\ i \notin raced /\ i \in Items
      BY <1>2, <2>1, <2>2, <2>3
    <3>. QED
      BY <1>1, <2>2, <2>3, <3>1 DEF Tallies
  <2>. QED
    BY <2>1, <2>2, <2>3 DEF Tallies
<1>11. IsFiniteSet(committed')
  BY <1>1, FS_AddElement DEF UnitsInv
<1>. QED
  BY <1>9, <1>10, <1>11 DEF UnitsInv

(* A reservation or a release moves a unit between the shelf and the hold. *)
LEMMA UnitsAdjust ==
  ASSUME IInv, UnitsInv, NEW k \in Tasks, NEW i \in Items, NEW m \in {1, -1}, Adjust(k, i, m),
         m = 1 => stock[i] >= 1, m = -1 => held[i] >= 1
  PROVE  UnitsInv'
<1>1. /\ k \in Ops /\ k \notin Uploads /\ pc[k] = "idle" /\ stock[i] # NoValue
      /\ stock' = [stock EXCEPT ![i] = @ - m]
      /\ held' = [held EXCEPT ![i] = @ + m]
      /\ pc' = [pc EXCEPT ![k] = "read"]
      /\ UNCHANGED <<committed, line, was, seen>>
  BY UploadAssumption DEF Adjust, Ops
<1>2. raced' = raced \union
       {j \in {i} : \E v \in Uploads \ {k} :
          pc[v] = "rows" /\ j \in DOMAIN was[v] /\ was[v][j] # NoValue}
  BY DEF Adjust, Commits
<1>3. stock[i] \in Nat /\ held[i] \in Nat
  BY <1>1 DEF IInv, TypeOK, Quantities
<1>4. stock'[i] = stock[i] - m /\ held'[i] = held[i] + m /\ stock'[i] \in Nat
  BY <1>1, <1>3 DEF IInv, TypeOK
<1>5. Count(stock'[i]) = stock[i] - m /\ Count(stock[i]) = stock[i]
  BY <1>3, <1>4, UploadAssumption DEF Count
<1>6. \A j \in Items \ {i} : stock'[j] = stock[j] /\ held'[j] = held[j]
  BY <1>1 DEF IInv, TypeOK
<1>7. StockAccounted'
  <2> SUFFICES ASSUME NEW j \in Items \ raced'
               PROVE  Count(stock'[j]) + held'[j] = Count(InitialStock[j]) + Added(j)'
    BY DEF StockAccounted
  <2>1. Count(stock[j]) + held[j] = Count(InitialStock[j]) + Added(j)
    BY <1>2 DEF UnitsInv, StockAccounted
  <2>2. Added(j)' = Added(j)
    BY <1>1 DEF Added
  <2>3. Count(stock'[j]) + held'[j] = Count(stock[j]) + held[j]
    <3>1. CASE j = i
      BY <1>3, <1>4, <1>5, <3>1
    <3>2. CASE j # i
      BY <1>6, <3>2
    <3>. QED
      BY <3>1, <3>2
  <2>. QED
    BY <2>1, <2>2, <2>3
<1>8. ASSUME NEW v \in Uploads, pc'[v] = "rows" PROVE Tallies(v)'
  <2>1. pc[v] = "rows" /\ v # k
    BY <1>1, <1>8 DEF IInv, TypeOK, Ops
  <2>2. Tallies(v) /\ DOMAIN was[v] \subseteq Items
    BY <2>1 DEF UnitsInv, IInv, TypeOK, Counts
  <2>3. ASSUME NEW j \in DOMAIN was[v] \ raced', was[v][j] # NoValue
        PROVE  was[v][j] = stock'[j]
    <3>1. j # i /\ j \notin raced /\ j \in Items
      BY <1>2, <2>1, <2>2, <2>3
    <3>. QED
      BY <1>6, <2>2, <2>3, <3>1 DEF Tallies
  <2>. QED
    BY <1>1, <2>2, <2>3 DEF Tallies
<1>. QED
  BY <1>1, <1>7, <1>8 DEF UnitsInv

(* An operation that ends is at none of its rows.                          *)
LEMMA UnitsEnds ==
  ASSUME IInv, UnitsInv, NEW o \in Ops, NEW how \in {"done", "failed"}, Ends(o, how),
         UNCHANGED rowVars
  PROVE  UnitsInv'
<1>1. pc' = [pc EXCEPT ![o] = how] /\ seen' = [seen EXCEPT ![o] = Nothing]
  BY DEF Ends
<1>2. \A u \in Uploads \ {o} : line'[u] = line[u] /\ was'[u] = was[u]
  BY DEF Ends
<1>3. ASSUME NEW u \in Uploads, pc'[u] = "rows"
      PROVE  pc[u] = "rows" /\ line'[u] = line[u] /\ was'[u] = was[u] /\ seen'[u] = seen[u]
  <2>1. u # o /\ u \in Ops
    BY <1>1, <1>3 DEF IInv, TypeOK, Ops
  <2>. QED
    BY <1>1, <1>2, <1>3, <2>1 DEF IInv, TypeOK
<1>. QED
  BY <1>3, UnitsFrame

(* An operation that is not at its rows, before or after.                  *)
LEMMA UnitsElsewhere ==
  ASSUME IInv, UnitsInv, NEW o \in Ops, pc[o] # "rows", pc'[o] # "rows",
         \A p \in Ops \ {o} : pc'[p] = pc[p] /\ seen'[p] = seen[p],
         UNCHANGED <<rowVars, line, was>>
  PROVE  UnitsInv'
<1>1. ASSUME NEW u \in Uploads, pc'[u] = "rows"
      PROVE  pc[u] = "rows" /\ line'[u] = line[u] /\ was'[u] = was[u] /\ seen'[u] = seen[u]
  BY <1>1 DEF Ops
<1>. QED
  BY <1>1, UnitsFrame

LEMMA UnitsInit == Init => UnitsInv
<1> SUFFICES ASSUME Init PROVE UnitsInv
  OBVIOUS
<1>1. committed = {} /\ IsFiniteSet(committed)
  BY FS_EmptySet DEF Init
<1>2. ASSUME NEW i \in Items
      PROVE  Count(stock[i]) + held[i] = Count(InitialStock[i]) + Added(i)
  <2>1. Added(i) = 0
    BY <1>1, SumEmpty DEF Added
  <2>2. held[i] = 0 /\ stock[i] = InitialStock[i]
    BY DEF Init
  <2>. QED
    BY <2>1, <2>2
<1>3. ASSUME NEW u \in Uploads PROVE Tallies(u)
  <2>1. /\ line[u] = 0 /\ DOMAIN seen[u] = {} /\ DOMAIN was[u] = {}
        /\ Len(ValidRows(u)) \in Nat
    BY UnitsType, UploadAssumption DEF Init, Nothing, Ops
  <2>2. Len(ValidRows(u)) \in Nat
    BY UploadAssumption
  <2>3. \A i \in Items : Adds(u, i, 0) = 0
    BY <2>2, AddsRows
  <2>. QED
    BY <1>1, <2>1, <2>2, <2>3 DEF Tallies
<1>. QED
  BY <1>1, <1>2, <1>3 DEF UnitsInv, StockAccounted

LEMMA UnitsNext == IInv /\ UnitsInv /\ [Next]_vars => UnitsInv'
<1> SUFFICES ASSUME IInv, UnitsInv, [Next]_vars PROVE UnitsInv'
  OBVIOUS
<1>1. ASSUME NEW u \in Uploads, UploadStep(u) PROVE UnitsInv'
  <2>1. u \in Ops
    BY DEF Ops
  <2>2. CASE RefuseUpload(u)
    BY <2>1, <2>2, UnitsEnds DEF RefuseUpload
  <2>3. CASE ReadForIndex(u)
    <3>1. /\ pc[u] = "refresh" /\ pc' = [pc EXCEPT ![u] = "warm"]
          /\ \E f : seen' = [seen EXCEPT ![u] = f]
          /\ UNCHANGED <<rowVars, line, was>>
      BY <2>3 DEF ReadForIndex
    <3>. QED
      BY <2>1, <3>1, UnitsElsewhere DEF IInv, TypeOK
  <2>4. ASSUME NEW i \in Items, InvalidateItem(u, i) PROVE UnitsInv'
    <3>1. /\ pc[u] = "invalidate" /\ (pc' = [pc EXCEPT ![u] = "refresh"] \/ pc' = pc)
          /\ UNCHANGED <<rowVars, line, was, seen>>
      BY <2>4 DEF InvalidateItem
    <3>. QED
      BY <2>1, <3>1, UnitsElsewhere DEF IInv, TypeOK
  <2>. QED
    BY <1>1, <2>2, <2>3, <2>4, UnitsUpsert, UnitsCommit DEF UploadStep
<1>2. ASSUME NEW k \in Tasks, TaskStep(k) PROVE UnitsInv'
  <2>1. k \in Ops
    BY DEF Ops
  <2>2. ASSUME NEW i \in Items, Reserve(k, i) PROVE UnitsInv'
    BY <2>2, UnitsAdjust DEF Reserve
  <2>3. ASSUME NEW i \in Items, Release(k, i) PROVE UnitsInv'
    BY <2>3, UnitsAdjust DEF Release
  <2>4. ASSUME NEW s, BeginRead(k, s) PROVE UnitsInv'
    <3>1. /\ pc[k] = "idle" /\ pc' = [pc EXCEPT ![k] = "read"]
          /\ UNCHANGED <<rowVars, line, was, seen>>
      BY <2>4 DEF BeginRead
    <3>. QED
      BY <2>1, <3>1, UnitsElsewhere DEF IInv, TypeOK
  <2>5. CASE ReadRows(k)
    <3>1. /\ pc[k] = "read"
          /\ pc' = [pc EXCEPT ![k] = IF scope[k] \in Items THEN "refresh" ELSE "warm"]
          /\ \E f : seen' = [seen EXCEPT ![k] = f]
          /\ UNCHANGED <<rowVars, line, was>>
      BY <2>5 DEF ReadRows
    <3>. QED
      BY <2>1, <3>1, UnitsElsewhere DEF IInv, TypeOK
  <2>6. CASE ReadNoRow(k)
    BY <2>1, <2>6, UnitsEnds DEF ReadNoRow
  <2>. QED
    BY <1>2, <2>2, <2>3, <2>4, <2>5, <2>6
    DEF TaskStep, SearchByName, GetById, AlternativesSameName
<1>3. ASSUME NEW o \in Ops, SetIndex(o) \/ Fails(o) PROVE UnitsInv'
  BY <1>3, UnitsEnds DEF SetIndex, Fails, rowVars
<1>4. ASSUME NEW o \in Ops, NEW i \in Items, SetEntry(o, i) PROVE UnitsInv'
  <2>1. CASE Ends(o, "done")
    BY <1>4, <2>1, UnitsEnds DEF SetEntry
  <2>2. CASE ~Ends(o, "done")
    <3>1. /\ pc[o] \in {"refresh", "warm"}
          /\ UNCHANGED <<rowVars, pc, line, was, seen>>
      BY <1>4, <2>2 DEF SetEntry
    <3>. QED
      BY <3>1, UnitsElsewhere
  <2>. QED
    BY <2>1, <2>2
<1>5. CASE ExpireIndex \/ (\E i \in Items : ExpireEntry(i)) \/ UNCHANGED vars
  <2>1. UNCHANGED <<rowVars, pc, line, was, seen>>
    BY <1>5 DEF ExpireIndex, ExpireEntry, vars, opVars
  <2>. QED
    BY <2>1, UnitsFrame
<1>. QED
  BY <1>1, <1>2, <1>3, <1>4, <1>5 DEF Next

(* Units add up for every file, also one that names an item again, and     *)
(* however many uploads, reservations and rollbacks interleave: only an    *)
(* item that was committed while an upload had it loaded can be off.       *)
THEOREM UnitsAddUp == Spec => []StockAccounted
<1>1. UnitsInv => StockAccounted
  BY DEF UnitsInv
<1>2. Init => IInv /\ UnitsInv
  BY InitIInv, UnitsInit
<1>3. IInv /\ UnitsInv /\ [Next]_vars => (IInv /\ UnitsInv)'
  BY NextIInv, UnitsNext
<1>. QED
  BY <1>1, <1>2, <1>3, PTL DEF Spec
=============================================================================
