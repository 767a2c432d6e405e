---------------------- MODULE ReservationServiceProofs ----------------------
(***************************************************************************)
(* Proofs about ReservationService for every set of items, requests,       *)
(* schedulers and payers, and every bound: types and safety, then what the *)
(* service owes, so that no interleaving loses a unit or creates one, and  *)
(* that the interleaved transactions implement StockLedger, each step one  *)
(* ledger step or none.                                                    *)
(***************************************************************************)
EXTENDS ReservationService, ReservationDataProofs

(* The row of the line that a reserve() handler is about to update.        *)
LEMMA LineRowType ==
  ASSUME TypeOK, NEW r \in Requests, LinePending(r)
  PROVE  LineRow(r) \in Rows
<1>1. line[r] \in 1..MaxLines /\ line[r] <= Len(Lines[r])
  BY LinesAssumption DEF TypeOK, LocalType, LinePending
<1>. QED
  BY <1>1 DEF LineRow, Rows

(* Every variable keeps its type.                                          *)
LEMMA TypeStep == TypeOK /\ [Next]_vars => TypeOK'
<1> SUFFICES ASSUME TypeOK, [Next]_vars PROVE TypeOK'
  OBVIOUS
<1> USE ProcsAssumption, BoundsAssumption
<1> USE DEF TypeOK, DbType, LockType, RedisType, PcType, LocalType, dbVars, lockVars, redisVars, reqVars, scanVars, bounds,
            RequestPc, SchedulerPc, PayerPc, Status, Procs, NoDelta, NoCopy
<1>1. ASSUME NEW r \in Requests, Reject(r) PROVE TypeOK'
  BY <1>1 DEF Reject
<1>2. ASSUME NEW r \in Requests, BeginReserve(r) PROVE TypeOK'
  BY <1>2 DEF BeginReserve
<1>3. ASSUME NEW r \in Requests, DecrementStock(r) PROVE TypeOK'
  <2>1. /\ ItemOf(LineRow(r)) \in Items
        /\ QtyOf(LineRow(r)) \in Nat
    BY <1>3, LineRowType, RowType, SMTT(30) DEF DecrementStock
  <2>. QED
    BY <1>3, <2>1 DEF DecrementStock
<1>4. ASSUME NEW r \in Requests, NoteUnavailable(r) PROVE TypeOK'
  BY <1>4 DEF NoteUnavailable
<1>5. ASSUME NEW r \in Requests, RefuseInvoice(r) PROVE TypeOK'
  BY <1>5 DEF RefuseInvoice, EndTx, FreeItems, FreeRows, ForgetLines
<1>6. ASSUME NEW r \in Requests, CommitHold(r) PROVE TypeOK'
  BY <1>6 DEF CommitHold, EndTx, FreeItems, FreeRows, ForgetLines
<1>7. ASSUME NEW r \in Requests, StoreInvoice(r) PROVE TypeOK'
  <2>1. DbType' /\ LockType'
    BY <1>7 DEF StoreInvoice
  <2>3. RedisType'
    <3>1. clock + Ttl \in Nat
      OBVIOUS
    <3>. QED
      BY <1>7, <3>1 DEF StoreInvoice
  <2>2. PcType' /\ LocalType'
    BY <1>7 DEF StoreInvoice
  <2>. QED
    BY <2>1, <2>2, <2>3
<1>8. ASSUME NEW s \in Schedulers, BeginScan(s) PROVE TypeOK'
  BY <1>8 DEF BeginScan
<1>9. ASSUME NEW s \in Schedulers, SelectExpired(s) PROVE TypeOK'
  BY <1>9 DEF SelectExpired, Expired
<1>10. ASSUME NEW s \in Schedulers, NEW row \in Rows, ReleaseRow(s, row) PROVE TypeOK'
  <2>1. CASE status[row] = "HELD"
    <3>1. /\ todo' = [todo EXCEPT ![s] = @ \ {row}]
          /\ cur' = [cur EXCEPT ![s] = row]
          /\ released' = [released EXCEPT ![s] = @ \union {row}]
          /\ pc' = [pc EXCEPT ![s] = "restock"]
          /\ UNCHANGED <<clock, dbVars, lockVars, redisVars, reqVars, scanNow, copy, bounds>>
      BY <1>10, <2>1, Zenon DEF ReleaseRow
    <3>2. DbType' /\ LockType' /\ RedisType'
      BY <3>1
    <3>3. PcType'
      BY <3>1
    <3>4. LocalType'
      BY <3>1
    <3>. QED
      BY <3>2, <3>3, <3>4
  <2>2. CASE status[row] # "HELD"
    BY <1>10, <2>2 DEF ReleaseRow
  <2>. QED
    BY <2>1, <2>2
<1>11. ASSUME NEW s \in Schedulers, RestockItem(s) PROVE TypeOK'
  <2>1. /\ ItemOf(cur[s]) \in Items
        /\ QtyOf(cur[s]) \in Nat
    BY <1>11, RowType DEF RestockItem
  <2>. QED
    BY <1>11, <2>1 DEF RestockItem
<1>12. ASSUME NEW s \in Schedulers, CommitRollback(s) PROVE TypeOK'
  <2>1. \A inv \in Invoices : Cardinality(ReleasedOf(s, inv)) \in Nat
    <3>1. ASSUME NEW inv \in Invoices PROVE ReleasedOf(s, inv) \in SUBSET Rows
      BY DEF ReleasedOf
    <3>. QED
      BY <3>1, RowsFinite, FS_Subset, FS_CardinalityType
  <2>. QED
    BY <1>12, <2>1 DEF CommitRollback, EndTx, FreeItems, FreeRows, ForgetScan
<1>13. ASSUME NEW p \in Requests \union Schedulers, ReadForCache(p) PROVE TypeOK'
  BY <1>13 DEF ReadForCache
<1>14. ASSUME NEW p \in Requests \union Schedulers, NEW i \in Items, SetCacheItem(p, i)
       PROVE  TypeOK'
  BY <1>14 DEF SetCacheItem
<1>15. ASSUME NEW P \in SUBSET Procs, Abort(P),
              marks' \in Nat, faults' \in Nat
       PROVE  TypeOK'
  BY <1>15 DEF Abort, EndTx, FreeItems, FreeRows, ForgetLines, ForgetScan, Answered
<1>16. ASSUME NEW p \in Requests \union Schedulers, DeadlockVictim(p) PROVE TypeOK'
  <2>1. {p} \in SUBSET Procs /\ Abort({p}) /\ marks' \in Nat /\ faults' \in Nat
    BY <1>16 DEF DeadlockVictim
  <2>. QED
    BY <1>15, <2>1
<1>17. ASSUME NEW p \in Requests \union Schedulers, RedisFailure(p) PROVE TypeOK'
  BY <1>15, <1>17 DEF RedisFailure
<1>18. ASSUME NEW p \in Payers, NEW inv \in Invoices, MarkReservedPaid(p, inv)
       PROVE  TypeOK'
  BY <1>18 DEF MarkReservedPaid, HeldRows
<1>19. ASSUME NEW p \in Payers, CommitPaid(p) PROVE TypeOK'
  BY <1>19 DEF CommitPaid, EndTx, FreeItems, FreeRows
<1>20. ASSUME NEW p \in Payers, CrashPayer(p) PROVE TypeOK'
  BY <1>15, <1>20 DEF CrashPayer
<1>21. ASSUME NEW i \in Items, ExpireCacheItem(i) PROVE TypeOK'
  BY <1>21 DEF ExpireCacheItem
<1>22. CASE CrashService
  BY <1>15, <1>22 DEF CrashService
<1>23. CASE Tick
  BY <1>23 DEF Tick
<1>24. CASE UNCHANGED vars
  BY <1>24 DEF vars
<1>. QED
  BY <1>1, <1>2, <1>3, <1>4, <1>5, <1>6, <1>7, <1>8, <1>9, <1>10, <1>11, <1>12,
     <1>13, <1>14, <1>16, <1>17, <1>18, <1>19, <1>20, <1>21, <1>22, <1>23, <1>24
  DEF Next, RequestStep, SchedulerStep, RefreshStep, PayerStep

(* The specification keeps every variable in its type.                     *)
THEOREM TypeCorrect == Spec => []TypeOK
<1>1. Init => TypeOK
  BY ProcsAssumption, LinesAssumption
  DEF Init, TypeOK, DbType, LockType, RedisType, PcType, LocalType, Status, Procs,
      RequestPc, SchedulerPc, PayerPc, NoDelta, NoCopy
<1>. QED
  BY <1>1, TypeStep, PTL DEF Spec
-----------------------------------------------------------------------------
(* Ending transactions keeps the escrow of the others.                     *)
LEMMA EscrowEndTx ==
  ASSUME TypeOK, EscrowInv, NEW P \in SUBSET Procs, EndTx(P), UNCHANGED stock
  PROVE  EscrowInv'
BY ProcsAssumption DEF TypeOK, DbType, LockType, EscrowInv, EndTx, FreeItems, NoDelta, Procs

(* No step takes more of an item than there is: a transaction's deductions *)
(* are covered by the committed stock and guarded by its item locks.       *)
LEMMA EscrowStep ==
  ASSUME TypeOK, NoOversell, EscrowInv, [Next]_vars
  PROVE  NoOversell' /\ EscrowInv'
<1> USE DEF dbVars, lockVars, redisVars, reqVars, scanVars, bounds
<1>1. CASE UNCHANGED <<stock, itemLock, delta>>
  BY <1>1 DEF NoOversell, EscrowInv
<1>2. ASSUME NEW r \in Requests, RequestStep(r) PROVE NoOversell' /\ EscrowInv'
  <2>1. CASE Reject(r) \/ BeginReserve(r) \/ NoteUnavailable(r) \/ StoreInvoice(r)
    BY <1>1, <2>1 DEF Reject, BeginReserve, NoteUnavailable, StoreInvoice
  <2>2. CASE DecrementStock(r)
    <3>1. /\ ItemOf(LineRow(r)) \in Items
          /\ QtyOf(LineRow(r)) \in Nat
      BY <2>2, LineRowType, RowType, LinesAssumption DEF DecrementStock
    <3>. QED
      BY <2>2, <3>1, ProcsAssumption
      DEF DecrementStock, NoOversell, EscrowInv, Visible, TypeOK, DbType, LockType, Procs
  <2>3. CASE RefuseInvoice(r)
    <3>1. {r} \in SUBSET Procs /\ EndTx({r}) /\ UNCHANGED stock
      BY <2>3 DEF RefuseInvoice, Procs
    <3>. QED
      BY <3>1, EscrowEndTx DEF NoOversell
  <2>4. CASE CommitHold(r)
    <3>1. \A i \in Items : stock'[i] = stock[i] - delta[r][i]
      BY <2>4 DEF CommitHold
    <3>2. \A i \in Items, p \in Procs \ {r} : delta[p][i] # 0 => delta[r][i] = 0
      BY ProcsAssumption DEF EscrowInv, Procs
    <3>3. NoOversell'
      BY <3>1 DEF NoOversell, EscrowInv, TypeOK, DbType, LockType, Procs
    <3>4. \A p \in Procs, i \in Items : delta'[p][i] = IF p = r THEN 0 ELSE delta[p][i]
      BY <2>4 DEF CommitHold, EndTx, NoDelta, TypeOK, LockType
    <3>5. \A p \in Procs, i \in Items : delta'[p][i] # 0 => itemLock'[i] = p
      BY <2>4, <3>4 DEF CommitHold, EndTx, FreeItems, EscrowInv
    <3>6. \A q \in Requests, i \in Items : delta'[q][i] <= stock'[i]
      BY <3>1, <3>2, <3>4 DEF EscrowInv, TypeOK, DbType, LockType, Procs
    <3>. QED
      BY <3>3, <3>5, <3>6 DEF EscrowInv
  <2>. QED
    BY <1>2, <2>1, <2>2, <2>3, <2>4 DEF RequestStep
<1>3. ASSUME NEW s \in Schedulers, SchedulerStep(s) PROVE NoOversell' /\ EscrowInv'
  <2>1. CASE \/ BeginScan(s) \/ SelectExpired(s)
             \/ \E row \in Rows : ReleaseRow(s, row)
    BY <1>1, <2>1 DEF BeginScan, SelectExpired, ReleaseRow
  <2>2. CASE RestockItem(s)
    <3>1. /\ ItemOf(cur[s]) \in Items
          /\ QtyOf(cur[s]) \in Nat
      BY <2>2, RowType, LinesAssumption DEF RestockItem, TypeOK, LocalType
    <3>. QED
      BY <2>2, <3>1, ProcsAssumption
      DEF RestockItem, NoOversell, EscrowInv, TypeOK, DbType, LockType, Procs
  <2>3. CASE CommitRollback(s)
    <3>1. \A i \in Items : stock'[i] >= stock[i]
      BY <2>3 DEF CommitRollback, TypeOK, DbType, LockType, Procs
    <3>2. \A p \in Procs, i \in Items : delta'[p][i] = IF p = s THEN 0 ELSE delta[p][i]
      BY <2>3 DEF CommitRollback, EndTx, NoDelta, TypeOK, LockType
    <3>3. \A p \in Procs, i \in Items : delta'[p][i] # 0 => itemLock'[i] = p
      BY <2>3, <3>2 DEF CommitRollback, EndTx, FreeItems, EscrowInv
    <3>4. stock' \in [Items -> Int]
      BY <2>3 DEF CommitRollback, TypeOK, DbType, LockType, Procs
    <3>. QED
      BY <3>1, <3>2, <3>3, <3>4, ProcsAssumption
      DEF NoOversell, EscrowInv, TypeOK, DbType, LockType, Procs
  <2>. QED
    BY <1>3, <2>1, <2>2, <2>3 DEF SchedulerStep
<1>4. ASSUME NEW P \in SUBSET Procs, Abort(P) PROVE NoOversell' /\ EscrowInv'
  <2>1. EndTx(P) /\ UNCHANGED stock
    BY <1>4 DEF Abort
  <2>. QED
    BY <2>1, EscrowEndTx DEF NoOversell
<1>5. ASSUME NEW p \in Requests \union Schedulers,
             RefreshStep(p) \/ DeadlockVictim(p) \/ RedisFailure(p)
      PROVE  NoOversell' /\ EscrowInv'
  <2>1. CASE RefreshStep(p)
    BY <1>1, <2>1 DEF RefreshStep, ReadForCache, SetCacheItem
  <2>2. CASE DeadlockVictim(p) \/ RedisFailure(p)
    <3>1. {p} \in SUBSET Procs /\ Abort({p})
      BY <2>2 DEF DeadlockVictim, RedisFailure, Procs
    <3>. QED
      BY <3>1, <1>4
  <2>. QED
    BY <1>5, <2>1, <2>2
<1>6. ASSUME NEW p \in Payers, PayerStep(p) \/ CrashPayer(p)
      PROVE  NoOversell' /\ EscrowInv'
  <2>1. CASE \E inv \in Invoices : MarkReservedPaid(p, inv)
    BY <1>1, <2>1 DEF MarkReservedPaid
  <2>2. CASE CommitPaid(p)
    <3>1. {p} \in SUBSET Procs /\ EndTx({p}) /\ UNCHANGED stock
      BY <2>2 DEF CommitPaid, Procs
    <3>. QED
      BY <3>1, EscrowEndTx DEF NoOversell
  <2>3. CASE CrashPayer(p)
    <3>1. {p} \in SUBSET Procs /\ Abort({p})
      BY <2>3 DEF CrashPayer, Procs
    <3>. QED
      BY <3>1, <1>4
  <2>. QED
    BY <1>6, <2>1, <2>2, <2>3 DEF PayerStep
<1>7. CASE CrashService
  <2>1. Requests \union Schedulers \in SUBSET Procs /\ Abort(Requests \union Schedulers)
    BY <1>7 DEF CrashService, Procs
  <2>. QED
    BY <2>1, <1>4
<1>8. CASE (\E i \in Items : ExpireCacheItem(i)) \/ Tick \/ UNCHANGED vars
  BY <1>1, <1>8 DEF ExpireCacheItem, Tick, vars
<1>. QED
  BY <1>2, <1>3, <1>5, <1>6, <1>7, <1>8 DEF Next
-----------------------------------------------------------------------------
(* A scheduler's now is never ahead of the clock, and it remembers         *)
(* released rows only from its scan to its cache refresh.                  *)
LEMMA ScanStep ==
  ASSUME TypeOK, ScanInv, [Next]_vars
  PROVE  ScanInv'
<1> USE ProcsAssumption
<1> USE DEF dbVars, lockVars, redisVars, reqVars, scanVars, bounds, TypeOK, PcType, DbType,
            LocalType, ScanInv
<1>0. \A r \in Requests, s \in Schedulers, p \in Payers : r # s /\ s # p
  OBVIOUS
<1>1. ASSUME NEW r \in Requests, RequestStep(r) PROVE ScanInv'
  BY <1>0, <1>1 DEF RequestStep, Reject, BeginReserve, DecrementStock, NoteUnavailable,
     RefuseInvoice, CommitHold, StoreInvoice, Procs
<1>2. ASSUME NEW s \in Schedulers, BeginScan(s) PROVE ScanInv'
  BY <1>2 DEF BeginScan, Procs
<1>3. ASSUME NEW s \in Schedulers, SelectExpired(s) PROVE ScanInv'
  BY <1>3 DEF SelectExpired, Procs
<1>4. ASSUME NEW s \in Schedulers, NEW row \in Rows, ReleaseRow(s, row) PROVE ScanInv'
  <2>1. CASE status[row] = "HELD"
    BY <1>4, <2>1 DEF ReleaseRow, Procs
  <2>2. CASE status[row] # "HELD"
    BY <1>4, <2>2 DEF ReleaseRow, Procs
  <2>. QED
    BY <2>1, <2>2
<1>5. ASSUME NEW s \in Schedulers, RestockItem(s) PROVE ScanInv'
  BY <1>5 DEF RestockItem, Procs
<1>6. ASSUME NEW s \in Schedulers, CommitRollback(s) PROVE ScanInv'
  BY <1>6 DEF CommitRollback, ForgetScan, Procs
<1>7. ASSUME NEW p \in Requests \union Schedulers, ReadForCache(p) PROVE ScanInv'
  BY <1>7 DEF ReadForCache, Procs
<1>8. ASSUME NEW p \in Requests \union Schedulers, NEW i \in Items, SetCacheItem(p, i)
      PROVE  ScanInv'
  BY <1>8 DEF SetCacheItem, Procs
<1>9. ASSUME NEW P \in SUBSET Procs, Abort(P) PROVE ScanInv'
  <2>1. ASSUME NEW s \in Schedulers
        PROVE  /\ scanNow'[s] = IF s \in P THEN 0 ELSE scanNow[s]
               /\ released'[s] = IF s \in P THEN {} ELSE released[s]
               /\ pc'[s] = IF s \in P THEN "sleep" ELSE pc[s]
               /\ clock' = clock
    BY <1>9 DEF Abort, ForgetScan, Procs
  <2>. QED
    BY <2>1
<1>10. ASSUME NEW p \in Requests \union Schedulers, DeadlockVictim(p) \/ RedisFailure(p)
       PROVE  ScanInv'
  <2>1. {p} \in SUBSET Procs /\ Abort({p})
    BY <1>10 DEF DeadlockVictim, RedisFailure, Procs
  <2>. QED
    BY <2>1, <1>9
<1>11. ASSUME NEW p \in Payers, PayerStep(p) PROVE ScanInv'
  BY <1>0, <1>11 DEF PayerStep, MarkReservedPaid, CommitPaid, Procs
<1>12. ASSUME NEW p \in Payers, CrashPayer(p) PROVE ScanInv'
  <2>1. {p} \in SUBSET Procs /\ Abort({p})
    BY <1>12 DEF CrashPayer, Procs
  <2>. QED
    BY <2>1, <1>9
<1>13. CASE CrashService
  <2>1. Requests \union Schedulers \in SUBSET Procs /\ Abort(Requests \union Schedulers)
    BY <1>13 DEF CrashService, Procs
  <2>. QED
    BY <2>1, <1>9
<1>14. CASE (\E i \in Items : ExpireCacheItem(i)) \/ Tick \/ UNCHANGED vars
  BY <1>14 DEF ExpireCacheItem, Tick, vars
<1>. QED
  BY <1>1, <1>2, <1>3, <1>4, <1>5, <1>6, <1>7, <1>8, <1>10, <1>11, <1>12, <1>13, <1>14
  DEF Next, SchedulerStep, RefreshStep
-----------------------------------------------------------------------------
RowSafety == AllOrNothing /\ NoEarlyRelease /\ RowLockInv /\ ProgressInv

(* A step that leaves the rows and their locks alone keeps the row         *)
(* invariants.                                                             *)
LEMMA RowQuiet ==
  ASSUME TypeOK, RowSafety,
         UNCHANGED <<status, expiresAt, rowLock>>,
         clock' \in Nat, clock' >= clock,
         \A s \in Schedulers : Selected(s)' = Selected(s),
         \A r \in Requests :
           /\ pc'[r] \in {"new", "reserve", "unavailable"}
                => pc[r] \in {"new", "reserve", "unavailable"}
           /\ pc'[r] \in {"refresh", "publish", "store", "ok"}
                => pc[r] \in {"refresh", "publish", "store", "ok"}
  PROVE  RowSafety'
<1>1. \A row \in Rows : row[1] \in Requests
  BY RowType
<1>2. \A r \in Requests : expiresAt[r] <= clock => expiresAt'[r] <= clock'
  BY DEF TypeOK, DbType
<1>3. AllOrNothing' /\ NoEarlyRelease'
  BY <1>1, <1>2 DEF RowSafety, AllOrNothing, NoEarlyRelease
<1>4. RowLockInv'
  BY <1>1, <1>2 DEF RowSafety, RowLockInv
<1>5. ProgressInv'
  BY DEF RowSafety, ProgressInv
<1>. QED
  BY <1>3, <1>4, <1>5 DEF RowSafety

(* Ending transactions frees row locks and changes no row.                 *)
LEMMA RowAbort ==
  ASSUME TypeOK, RowSafety, NEW P \in SUBSET Procs, Abort(P)
  PROVE  RowSafety'
<1> USE ProcsAssumption
<1>1. UNCHANGED <<clock, status, expiresAt>>
  BY DEF Abort, dbVars
<1>2. AllOrNothing' /\ NoEarlyRelease'
  BY <1>1 DEF RowSafety, AllOrNothing, NoEarlyRelease
<1>3. RowLockInv'
  <2>1. \A row \in Rows : rowLock'[row] = IF rowLock[row] \in P THEN NoProc ELSE rowLock[row]
    BY DEF Abort, EndTx, FreeRows
  <2>2. \A s \in Schedulers : Selected(s)' = IF s \in P THEN {} ELSE Selected(s)
    BY DEF Abort, ForgetScan, Procs, Selected
  <2>3. \A row \in Rows : rowLock'[row] # NoProc => status'[row] = "HELD"
    BY <1>1, <2>1 DEF RowSafety, RowLockInv
  <2>4. \A r \in Requests : \A row1, row2 \in RowsOf(r) : rowLock'[row1] = rowLock'[row2]
    BY <2>1 DEF RowSafety, RowLockInv, RowsOf
  <2>5. \A r \in Requests, row \in Rows : rowLock'[row] # r
    BY <2>1 DEF RowSafety, RowLockInv, Procs
  <2>6. ASSUME NEW s \in Schedulers, NEW row \in Rows
        PROVE  /\ rowLock'[row] = s <=> row \in Selected(s)'
               /\ rowLock'[row] = s => expiresAt'[row[1]] <= clock'
    <3>1. rowLock'[row] = s <=> s \notin P /\ rowLock[row] = s
      BY <2>1 DEF Procs
    <3>. QED
      BY <1>1, <2>2, <3>1 DEF RowSafety, RowLockInv
  <2>. QED
    BY <2>3, <2>4, <2>5, <2>6 DEF RowLockInv
<1>4. ProgressInv'
  <2>1. \A r \in Requests : pc'[r] = pc[r] \/ pc'[r] = "failed"
    BY DEF Abort, Procs
  <2>. QED
    BY <1>1, <2>1 DEF RowSafety, ProgressInv
<1>. QED
  BY <1>2, <1>3, <1>4 DEF RowSafety
(* The rows of a request move together from NONE to HELD to RELEASED or    *)
(* PAID, never before their expiry, and only under the lock of the         *)
(* transaction that moves them.                                            *)
LEMMA RowStep ==
  ASSUME TypeOK, RowSafety, ScanInv, [Next]_vars
  PROVE  RowSafety'
<1> USE ProcsAssumption
<1> USE DEF dbVars, lockVars, redisVars, reqVars, scanVars, bounds
<1>0. \A r \in Requests, s \in Schedulers, p \in Payers : r # s /\ s # p /\ r # p
  OBVIOUS
<1>t. /\ clock \in Nat
      /\ \A r \in Requests : r \in Procs
      /\ \A s \in Schedulers : s \in Procs
      /\ \A p \in Payers : p \in Procs
      /\ \A row \in Rows : row[1] \in Requests
  BY RowType DEF TypeOK, DbType, Procs
<1>q. ASSUME UNCHANGED <<status, expiresAt, rowLock, clock>>,
             \A s \in Schedulers : Selected(s)' = Selected(s),
             \A r \in Requests :
               /\ pc'[r] \in {"new", "reserve", "unavailable"}
                    => pc[r] \in {"new", "reserve", "unavailable"}
               /\ pc'[r] \in {"refresh", "publish", "store", "ok"}
                    => pc[r] \in {"refresh", "publish", "store", "ok"}
      PROVE  RowSafety'
  <2>1. clock' \in Nat /\ clock' >= clock
    BY <1>q, <1>t
  <2>. QED
    BY <1>q, <2>1, RowQuiet
<1>f. ASSUME NEW r \in Requests, EndTx({r}) PROVE UNCHANGED rowLock
  <2>1. \A row \in Rows : rowLock[row] # r
    BY DEF RowSafety, RowLockInv
  <2>. QED
    BY <1>f, <2>1 DEF EndTx, FreeRows, TypeOK, LockType
<1>1. ASSUME NEW r \in Requests, RequestStep(r) PROVE RowSafety'
  <2>1. \A s \in Schedulers : pc'[s] = pc[s]
    BY <1>0, <1>1 DEF RequestStep, Reject, BeginReserve, DecrementStock, NoteUnavailable,
       RefuseInvoice, CommitHold, StoreInvoice, TypeOK, PcType, Procs
  <2>2. \A s \in Schedulers : Selected(s)' = Selected(s)
    BY <1>1, <2>1 DEF Selected, RequestStep, Reject, BeginReserve, DecrementStock,
       NoteUnavailable, RefuseInvoice, CommitHold, StoreInvoice
  <2>3. CASE \/ Reject(r) \/ DecrementStock(r) \/ NoteUnavailable(r) \/ StoreInvoice(r)
    BY <1>q, <2>2, <2>3 DEF Reject, DecrementStock, NoteUnavailable, StoreInvoice, TypeOK, PcType, Procs
  <2>4. CASE RefuseInvoice(r)
    <3>1. UNCHANGED rowLock
      BY <1>f, <2>4 DEF RefuseInvoice
    <3>. QED
      BY <1>q, <2>2, <2>4, <3>1 DEF RefuseInvoice, TypeOK, PcType, Procs
  <2>5. CASE BeginReserve(r)
    <3>1. /\ UNCHANGED <<status, rowLock, clock>>
          /\ \A q \in Requests : q # r => expiresAt'[q] = expiresAt[q]
          /\ pc[r] = "new"
          /\ \A q \in Requests : pc'[q] = IF q = r THEN "reserve" ELSE pc[q]
      BY <2>5 DEF BeginReserve, TypeOK, DbType, PcType, Procs
    <3>2. \A row \in Rows : row[1] = r => status[row] = "NONE" /\ rowLock[row] = NoProc
      BY <3>1 DEF RowSafety, ProgressInv, RowLockInv, RowsOf
    <3>3. AllOrNothing'
      BY <3>1 DEF RowSafety, AllOrNothing
    <3>4. NoEarlyRelease'
      BY <1>t, <3>1, <3>2 DEF RowSafety, NoEarlyRelease
    <3>5. \A s \in Schedulers, row \in Rows : rowLock'[row] = s => expiresAt'[row[1]] <= clock'
      BY <1>t, <3>1, <3>2 DEF RowSafety, RowLockInv, Procs
    <3>6. RowLockInv'
      BY <2>2, <3>1, <3>5 DEF RowSafety, RowLockInv
    <3>7. ProgressInv'
      BY <3>1 DEF RowSafety, ProgressInv
    <3>. QED
      BY <3>3, <3>4, <3>6, <3>7 DEF RowSafety
  <2>6. CASE CommitHold(r)
    <3>1. /\ UNCHANGED <<expiresAt, rowLock, clock>>
          /\ \A row \in Rows : status'[row] = IF row[1] = r THEN "HELD" ELSE status[row]
          /\ pc[r] = "reserve"
          /\ \A q \in Requests : pc'[q] = IF q = r THEN "refresh" ELSE pc[q]
      BY <1>f, <2>6 DEF CommitHold, TypeOK, PcType, Procs
    <3>2. AllOrNothing' /\ NoEarlyRelease'
      BY <3>1 DEF RowSafety, AllOrNothing, NoEarlyRelease, RowsOf
    <3>3. RowLockInv'
      BY <2>2, <3>1 DEF RowSafety, RowLockInv
    <3>4. ProgressInv'
      BY <3>1 DEF RowSafety, ProgressInv, RowsOf
    <3>. QED
      BY <3>2, <3>3, <3>4 DEF RowSafety
  <2>. QED
    BY <1>1, <2>3, <2>4, <2>5, <2>6 DEF RequestStep
<1>2. ASSUME NEW s \in Schedulers, SchedulerStep(s) PROVE RowSafety'
  <2>1. \A r \in Requests : pc'[r] = pc[r]
    <3>1. \E v : pc' = [pc EXCEPT ![s] = v] \/ pc' = pc
      BY <1>2 DEF SchedulerStep, BeginScan, SelectExpired, ReleaseRow, RestockItem, CommitRollback
    <3>. QED
      BY <1>0, <1>t, <3>1 DEF TypeOK, PcType
  <2>2. \A x \in Schedulers : x # s => Selected(x)' = Selected(x)
    <3>1. \E v : pc' = [pc EXCEPT ![s] = v] \/ pc' = pc
      BY <1>2 DEF SchedulerStep, BeginScan, SelectExpired, ReleaseRow, RestockItem, CommitRollback
    <3>2. CASE BeginScan(s) \/ RestockItem(s) \/ SelectExpired(s) \/ \E row \in Rows : ReleaseRow(s, row)
      <4>1. /\ \E v : todo' = [todo EXCEPT ![s] = v] \/ todo' = todo
            /\ \E v : released' = [released EXCEPT ![s] = v] \/ released' = released
        BY <3>2 DEF BeginScan, SelectExpired, ReleaseRow, RestockItem
      <4>. QED
        BY <1>t, <3>1, <4>1 DEF Selected, TypeOK, PcType, LocalType, Procs
    <3>3. CASE CommitRollback(s)
      <4>1. \A x \in Schedulers : x # s => todo'[x] = todo[x] /\ released' = released
        BY <3>3 DEF CommitRollback, ForgetScan
      <4>. QED
        BY <1>t, <3>1, <4>1 DEF Selected, TypeOK, PcType, LocalType, Procs
    <3>. QED
      BY <1>2, <3>2, <3>3 DEF SchedulerStep
  <2>3. CASE BeginScan(s) \/ RestockItem(s)
    <3>1. Selected(s)' = Selected(s)
      BY <1>t, <2>3 DEF Selected, BeginScan, RestockItem, TypeOK, PcType
    <3>. QED
      BY <1>q, <2>1, <2>2, <2>3, <3>1 DEF BeginScan, RestockItem
  <2>4. CASE SelectExpired(s)
    <3>1. /\ UNCHANGED <<status, expiresAt, clock>>
          /\ \A row \in Rows : rowLock'[row] = IF row \in Expired(s) THEN s ELSE rowLock[row]
          /\ \A row \in Expired(s) : rowLock[row] = NoProc
          /\ pc[s] = "select"
      BY <2>4 DEF SelectExpired
    <3>2. Selected(s)' = Expired(s)
      <4>1. pc'[s] = "scan" /\ todo'[s] = Expired(s) /\ released'[s] = {}
        BY <1>t, <2>4 DEF SelectExpired, ScanInv, TypeOK, PcType, LocalType
      <4>. QED
        BY <4>1 DEF Selected
    <3>3. Selected(s) = {}
      BY <3>1 DEF Selected
    <3>4. \A row \in Rows : row \in Expired(s) <=>
                              status[row] = "HELD" /\ expiresAt[row[1]] <= scanNow[s]
      BY DEF Expired
    <3>5. \A row \in Expired(s) : expiresAt[row[1]] <= clock
      BY <1>t DEF Expired, ScanInv, TypeOK, DbType, LocalType
    <3>6. AllOrNothing' /\ NoEarlyRelease' /\ ProgressInv'
      BY <2>1, <3>1 DEF RowSafety, AllOrNothing, NoEarlyRelease, ProgressInv
    <3>7. \A row \in Rows : rowLock'[row] # NoProc => status'[row] = "HELD"
      BY <3>1, <3>4 DEF RowSafety, RowLockInv
    <3>8. \A r \in Requests : \A row1, row2 \in RowsOf(r) : rowLock'[row1] = rowLock'[row2]
      BY <3>1, <3>4 DEF RowSafety, RowLockInv, AllOrNothing, RowsOf
    <3>9. \A r \in Requests, row \in Rows : rowLock'[row] # r
      BY <1>0, <3>1 DEF RowSafety, RowLockInv
    <3>10. ASSUME NEW x \in Schedulers, NEW row \in Rows
           PROVE  /\ rowLock'[row] = x <=> row \in Selected(x)'
                  /\ rowLock'[row] = x => expiresAt'[row[1]] <= clock'
      <4>1. CASE x = s
        BY <3>1, <3>2, <3>3, <3>5, <4>1 DEF RowSafety, RowLockInv
      <4>2. CASE x # s
        <5>1. row \in Expired(s) => row \notin Selected(x)
          BY <1>t, <3>1 DEF RowSafety, RowLockInv, Procs
        <5>. QED
          BY <2>2, <3>1, <4>2, <5>1 DEF RowSafety, RowLockInv
      <4>. QED
        BY <4>1, <4>2
    <3>. QED
      BY <3>6, <3>7, <3>8, <3>9, <3>10 DEF RowSafety, RowLockInv
  <2>5. ASSUME NEW row \in Rows, ReleaseRow(s, row) PROVE RowSafety'
    <3>1. row \in todo[s] /\ pc[s] = "scan"
      BY <2>5 DEF ReleaseRow
    <3>2. status[row] = "HELD"
      BY <1>t, <3>1 DEF Selected, RowSafety, RowLockInv, Procs
    <3>3. /\ todo' = [todo EXCEPT ![s] = @ \ {row}]
          /\ released' = [released EXCEPT ![s] = @ \union {row}]
          /\ pc' = [pc EXCEPT ![s] = "restock"]
          /\ UNCHANGED <<status, expiresAt, rowLock, clock>>
      BY <2>5, <3>2, Zenon DEF ReleaseRow
    <3>4. Selected(s)' = Selected(s)
      BY <1>t, <3>1, <3>3 DEF Selected, TypeOK, PcType, LocalType
    <3>. QED
      BY <1>q, <2>1, <2>2, <3>3, <3>4
  <2>6. CASE CommitRollback(s)
    <3>1. /\ UNCHANGED <<expiresAt, clock>>
          /\ pc[s] = "scan" /\ todo[s] = {}
          /\ \A row \in Rows : status'[row] =
                IF row \in released[s] THEN "RELEASED" ELSE status[row]
      BY <2>6 DEF CommitRollback
    <3>2. /\ \A row \in Rows : rowLock'[row] = IF rowLock[row] = s THEN NoProc ELSE rowLock[row]
          /\ pc'[s] \in {"sleep", "refresh"}
      BY <1>t, <2>6 DEF CommitRollback, EndTx, FreeRows, TypeOK, PcType
    <3>3. \A row \in Rows : row \in released[s] <=> rowLock[row] = s
      BY <3>1 DEF RowSafety, RowLockInv, Selected
    <3>4. Selected(s)' = {}
      BY <3>2 DEF Selected
    <3>5. AllOrNothing'
      BY <3>1, <3>3 DEF RowSafety, AllOrNothing, RowLockInv, RowsOf
    <3>6. NoEarlyRelease'
      BY <3>1, <3>3 DEF RowSafety, NoEarlyRelease, RowLockInv
    <3>7. ProgressInv'
      <4>1. \A row \in Rows : /\ row \in released[s] => status[row] = "HELD"
                              /\ status'[row] = "NONE" <=> status[row] = "NONE"
        BY <1>t, <3>1, <3>3 DEF RowSafety, RowLockInv
      <4>. QED
        BY <2>1, <4>1 DEF RowSafety, ProgressInv, RowsOf
    <3>8. \A row \in Rows : rowLock'[row] # NoProc => status'[row] = "HELD"
      BY <3>1, <3>2, <3>3 DEF RowSafety, RowLockInv
    <3>9. /\ \A r \in Requests : \A row1, row2 \in RowsOf(r) : rowLock'[row1] = rowLock'[row2]
          /\ \A r \in Requests, row \in Rows : rowLock'[row] # r
      BY <1>0, <1>t, <3>2 DEF RowSafety, RowLockInv, RowsOf, Procs
    <3>10. ASSUME NEW x \in Schedulers, NEW row \in Rows
           PROVE  /\ rowLock'[row] = x <=> row \in Selected(x)'
                  /\ rowLock'[row] = x => expiresAt'[row[1]] <= clock'
      <4>1. rowLock'[row] = x <=> x # s /\ rowLock[row] = x
        BY <1>t, <3>2
      <4>. QED
        BY <2>2, <3>1, <3>4, <4>1 DEF RowSafety, RowLockInv
    <3>. QED
      BY <3>5, <3>6, <3>7, <3>8, <3>9, <3>10 DEF RowSafety, RowLockInv
  <2>. QED
    BY <1>2, <2>3, <2>4, <2>5, <2>6 DEF SchedulerStep
<1>3. ASSUME NEW p \in Payers, PayerStep(p) PROVE RowSafety'
  <2>1. /\ \A r \in Requests : pc'[r] = pc[r]
        /\ \A s \in Schedulers : pc'[s] = pc[s]
    <3>1. \E v : pc' = [pc EXCEPT ![p] = v]
      BY <1>3 DEF PayerStep, MarkReservedPaid, CommitPaid
    <3>. QED
      BY <1>0, <1>t, <3>1 DEF TypeOK, PcType
  <2>2. \A s \in Schedulers : Selected(s)' = Selected(s)
    BY <1>3, <2>1 DEF Selected, PayerStep, MarkReservedPaid, CommitPaid
  <2>3. ASSUME NEW inv \in Invoices, MarkReservedPaid(p, inv) PROVE RowSafety'
    <3>1. /\ UNCHANGED <<status, expiresAt, clock>>
          /\ \A row \in Rows : rowLock'[row] = IF row \in HeldRows(inv) THEN p ELSE rowLock[row]
          /\ \A row \in HeldRows(inv) : rowLock[row] = NoProc
      BY <2>3 DEF MarkReservedPaid
    <3>2. \A row \in Rows : row \in HeldRows(inv) <=>
                              InvoiceOf[row[1]] = inv /\ status[row] = "HELD"
      BY DEF HeldRows
    <3>3. AllOrNothing' /\ NoEarlyRelease' /\ ProgressInv'
      BY <2>1, <3>1 DEF RowSafety, AllOrNothing, NoEarlyRelease, ProgressInv
    <3>4. \A row \in Rows : rowLock'[row] # NoProc => status'[row] = "HELD"
      BY <3>1, <3>2 DEF RowSafety, RowLockInv
    <3>5. \A r \in Requests : \A row1, row2 \in RowsOf(r) : rowLock'[row1] = rowLock'[row2]
      BY <3>1, <3>2 DEF RowSafety, RowLockInv, AllOrNothing, RowsOf
    <3>6. \A r \in Requests, row \in Rows : rowLock'[row] # r
      BY <1>0, <3>1 DEF RowSafety, RowLockInv
    <3>7. ASSUME NEW s \in Schedulers, NEW row \in Rows
          PROVE  rowLock'[row] = s <=> rowLock[row] = s
      BY <1>0, <1>t, <3>1
    <3>. QED
      BY <2>2, <3>1, <3>3, <3>4, <3>5, <3>6, <3>7 DEF RowSafety, RowLockInv
  <2>4. CASE CommitPaid(p)
    <3>1. /\ UNCHANGED <<expiresAt, clock>>
          /\ \A row \in Rows : status'[row] = IF rowLock[row] = p THEN "PAID" ELSE status[row]
          /\ \A row \in Rows : rowLock'[row] = IF rowLock[row] = p THEN NoProc ELSE rowLock[row]
      BY <2>4 DEF CommitPaid, EndTx, FreeRows
    <3>2. AllOrNothing' /\ NoEarlyRelease'
      BY <3>1 DEF RowSafety, AllOrNothing, NoEarlyRelease, RowLockInv, RowsOf
    <3>3. ProgressInv'
      <4>1. \A row \in Rows : status'[row] = "NONE" <=> status[row] = "NONE"
        BY <1>t, <3>1 DEF RowSafety, RowLockInv
      <4>. QED
        BY <2>1, <4>1 DEF RowSafety, ProgressInv, RowsOf
    <3>4. \A row \in Rows : rowLock'[row] # NoProc => status'[row] = "HELD"
      BY <3>1 DEF RowSafety, RowLockInv
    <3>5. /\ \A r \in Requests : \A row1, row2 \in RowsOf(r) : rowLock'[row1] = rowLock'[row2]
          /\ \A r \in Requests, row \in Rows : rowLock'[row] # r
      BY <1>0, <1>t, <3>1 DEF RowSafety, RowLockInv, RowsOf, Procs
    <3>6. ASSUME NEW s \in Schedulers, NEW row \in Rows
          PROVE  rowLock'[row] = s <=> rowLock[row] = s
      BY <1>0, <1>t, <3>1
    <3>. QED
      BY <2>2, <3>1, <3>2, <3>3, <3>4, <3>5, <3>6 DEF RowSafety, RowLockInv
  <2>. QED
    BY <1>3, <2>3, <2>4 DEF PayerStep
<1>4. ASSUME NEW p \in Requests \union Schedulers, RefreshStep(p) PROVE RowSafety'
  <2>1. CASE ReadForCache(p)
    <3>1. /\ pc[p] = "refresh" /\ pc' = [pc EXCEPT ![p] = "publish"]
          /\ \A s \in Schedulers : s # p => released'[s] = released[s]
          /\ UNCHANGED <<status, expiresAt, rowLock, clock, todo>>
      BY <2>1 DEF ReadForCache
    <3>2. \A s \in Schedulers : Selected(s)' = Selected(s)
      BY <1>t, <3>1 DEF Selected, TypeOK, PcType
    <3>. QED
      BY <1>q, <1>t, <3>1, <3>2 DEF TypeOK, PcType
  <2>2. ASSUME NEW i \in Items, SetCacheItem(p, i) PROVE RowSafety'
    <3>1. /\ pc[p] = "publish"
          /\ \E v \in {"publish", "store", "sleep"} :
               pc' = [pc EXCEPT ![p] = v] /\ (p \in Requests => v # "sleep")
                                          /\ (v = "store" => p \in Requests)
          /\ UNCHANGED <<status, expiresAt, rowLock, clock, todo, released>>
      BY <2>2 DEF SetCacheItem
    <3>2. \A s \in Schedulers : Selected(s)' = Selected(s)
      BY <1>t, <3>1 DEF Selected, TypeOK, PcType
    <3>. QED
      BY <1>q, <1>t, <3>1, <3>2 DEF TypeOK, PcType
  <2>. QED
    BY <1>4, <2>1, <2>2 DEF RefreshStep
<1>5. ASSUME NEW p \in Requests \union Schedulers, DeadlockVictim(p) \/ RedisFailure(p)
      PROVE  RowSafety'
  <2>1. {p} \in SUBSET Procs /\ Abort({p})
    BY <1>5 DEF DeadlockVictim, RedisFailure, Procs
  <2>. QED
    BY <2>1, RowAbort
<1>6. ASSUME NEW p \in Payers, CrashPayer(p) PROVE RowSafety'
  <2>1. {p} \in SUBSET Procs /\ Abort({p})
    BY <1>6 DEF CrashPayer, Procs
  <2>. QED
    BY <2>1, RowAbort
<1>7. CASE CrashService
  <2>1. Requests \union Schedulers \in SUBSET Procs /\ Abort(Requests \union Schedulers)
    BY <1>7 DEF CrashService, Procs
  <2>. QED
    BY <2>1, RowAbort
<1>8. CASE Tick
  <2>1. /\ clock' \in Nat /\ clock' >= clock
        /\ UNCHANGED <<status, expiresAt, rowLock, pc>>
        /\ \A s \in Schedulers : Selected(s)' = Selected(s)
    BY <1>8, <1>t DEF Tick, Selected
  <2>. QED
    BY <2>1, RowQuiet
<1>9. CASE (\E i \in Items : ExpireCacheItem(i)) \/ UNCHANGED vars
  <2>1. /\ UNCHANGED <<status, expiresAt, rowLock, clock, pc>>
        /\ \A s \in Schedulers : Selected(s)' = Selected(s)
    BY <1>9 DEF ExpireCacheItem, vars, Selected
  <2>. QED
    BY <1>q, <2>1
<1>. QED
  BY <1>1, <1>2, <1>3, <1>4, <1>5, <1>6, <1>7, <1>8, <1>9 DEF Next
-----------------------------------------------------------------------------
(* The locks, the deductions and the rows stay consistent for any number   *)
(* of requests, schedulers and payment consumers.                          *)
THEOREM SafetyInvariant == Spec => [](TypeOK /\ SafetyInv)
<1>1. Init => TypeOK /\ SafetyInv
  <2> SUFFICES ASSUME Init PROVE TypeOK /\ SafetyInv
    OBVIOUS
  <2>1. TypeOK
    BY ProcsAssumption, LinesAssumption
    DEF Init, TypeOK, DbType, LockType, RedisType, PcType, LocalType, Status, Procs,
        RequestPc, SchedulerPc, PayerPc, NoDelta, NoCopy
  <2>2. NoOversell /\ EscrowInv
    BY LinesAssumption DEF Init, NoOversell, EscrowInv, NoDelta, Procs
  <2>3. AllOrNothing /\ NoEarlyRelease /\ ScanInv /\ ProgressInv
    BY ProcsAssumption
    DEF Init, AllOrNothing, NoEarlyRelease, ScanInv, ProgressInv, RowsOf, Procs
  <2>4. RowLockInv
    <3>1. /\ \A row \in Rows : rowLock[row] = NoProc
          /\ \A s \in Schedulers : Selected(s) = {}
      BY ProcsAssumption DEF Init, Selected, Procs
    <3>. QED
      BY <3>1, ProcsAssumption DEF RowLockInv, RowsOf, Procs
  <2>. QED
    BY <2>1, <2>2, <2>3, <2>4 DEF SafetyInv
<1>2. TypeOK /\ SafetyInv /\ [Next]_vars => (TypeOK /\ SafetyInv)'
  <2> SUFFICES ASSUME TypeOK, SafetyInv, [Next]_vars PROVE (TypeOK /\ SafetyInv)'
    OBVIOUS
  <2>1. TypeOK'
    BY TypeStep
  <2>2. NoOversell' /\ EscrowInv'
    BY EscrowStep DEF SafetyInv
  <2>3. ScanInv'
    BY ScanStep DEF SafetyInv
  <2>4. RowSafety'
    <3>1. RowSafety /\ ScanInv
      BY DEF SafetyInv, RowSafety
    <3>. QED
      BY <3>1, RowStep
  <2>. QED
    BY <2>1, <2>2, <2>3, <2>4 DEF SafetyInv, RowSafety
<1>. QED
  BY <1>1, <1>2, PTL DEF Spec

(* Concurrent reserve() calls never sell a unit that is not there.         *)
THEOREM NeverOversold == Spec => []NoOversell
<1>1. SafetyInv => NoOversell
  BY DEF SafetyInv
<1>. QED
  BY <1>1, SafetyInvariant, PTL

(* An invoice is held, released or paid as a whole.                        *)
THEOREM HeldTogether == Spec => []AllOrNothing
<1>1. SafetyInv => AllOrNothing
  BY DEF SafetyInv
<1>. QED
  BY <1>1, SafetyInvariant, PTL

(* No scheduler releases a hold that has not expired.                      *)
THEOREM NeverReleasedEarly == Spec => []NoEarlyRelease
<1>1. SafetyInv => NoEarlyRelease
  BY DEF SafetyInv
<1>. QED
  BY <1>1, SafetyInvariant, PTL

(* The answer of reserve() agrees with the committed rows.                 *)
THEOREM AnsweredTruthfully == Spec => []AnswerIsTrue
<1>1. SafetyInv => AnswerIsTrue
  BY DEF SafetyInv, ProgressInv, AnswerIsTrue
<1>. QED
  BY <1>1, SafetyInvariant, PTL

(* A released or paid row never changes again: a payment and a rollback    *)
(* that race for a hold cannot both have it.                               *)
THEOREM OutcomesAreFinal == Spec => OutcomeIsFinal
<1> DEFINE Kept == \A row \in Rows :
                     status[row] \in {"RELEASED", "PAID"} => status'[row] = status[row]
<1>1. TypeOK /\ SafetyInv /\ [Next]_vars => [Kept]_vars
  <2> SUFFICES ASSUME TypeOK, SafetyInv, [Next]_vars PROVE Kept
    OBVIOUS
  <2> USE DEF dbVars, lockVars, redisVars, reqVars, scanVars, bounds
  <2>1. \A row \in Rows : row[1] \in Requests
    BY RowType
  <2>2. ASSUME NEW r \in Requests, RequestStep(r) PROVE Kept
    <3>1. CASE CommitHold(r)
      <4>1. \A row \in Rows : row[1] = r => status[row] = "NONE"
        BY <3>1 DEF CommitHold, SafetyInv, ProgressInv, RowsOf
      <4>. QED
        BY <3>1, <4>1 DEF CommitHold
    <3>2. CASE ~CommitHold(r)
      BY <2>2, <3>2 DEF RequestStep, Reject, BeginReserve, DecrementStock, NoteUnavailable,
         RefuseInvoice, StoreInvoice
    <3>. QED
      BY <3>1, <3>2
  <2>3. ASSUME NEW s \in Schedulers, SchedulerStep(s) PROVE Kept
    <3>1. CASE CommitRollback(s)
      <4>1. \A row \in Rows : row \in released[s] => status[row] = "HELD"
        BY <3>1, ProcsAssumption
        DEF CommitRollback, SafetyInv, RowLockInv, Selected, Procs
      <4>. QED
        BY <3>1, <4>1 DEF CommitRollback
    <3>2. CASE ~CommitRollback(s)
      BY <2>3, <3>2 DEF SchedulerStep, BeginScan, SelectExpired, ReleaseRow, RestockItem
    <3>. QED
      BY <3>1, <3>2
  <2>4. ASSUME NEW p \in Payers, PayerStep(p) PROVE Kept
    <3>1. CASE CommitPaid(p)
      <4>1. \A row \in Rows : rowLock[row] = p => status[row] = "HELD"
        BY ProcsAssumption DEF SafetyInv, RowLockInv, Procs
      <4>. QED
        BY <3>1, <4>1 DEF CommitPaid
    <3>2. CASE ~CommitPaid(p)
      BY <2>4, <3>2 DEF PayerStep, MarkReservedPaid
    <3>. QED
      BY <3>1, <3>2
  <2>5. CASE \/ \E p \in Requests \union Schedulers :
                  RefreshStep(p) \/ DeadlockVictim(p) \/ RedisFailure(p)
             \/ \E p \in Payers : CrashPayer(p)
             \/ \E i \in Items : ExpireCacheItem(i)
             \/ CrashService \/ Tick \/ UNCHANGED vars
    BY <2>5 DEF RefreshStep, ReadForCache, SetCacheItem, DeadlockVictim, RedisFailure,
       CrashPayer, CrashService, Abort, ExpireCacheItem, Tick, vars
  <2>. QED
    BY <2>2, <2>3, <2>4, <2>5 DEF Next
<1>. QED
  BY <1>1, SafetyInvariant, PTL DEF Spec, OutcomeIsFinal
-----------------------------------------------------------------------------
(* A process whose variables do not change keeps its account.              *)
LEMMA RequestKept ==
  ASSUME NEW r \in Requests, RequestAccount(r), pc'[r] = pc[r], line'[r] = line[r],
         short'[r] = short[r], delta'[r] = delta[r]
  PROVE  RequestAccount(r)'
BY DEF RequestAccount, TakenRows

LEMMA RequestDone ==
  ASSUME NEW r \in Requests, pc'[r] \notin {"new", "reserve"}
  PROVE  RequestAccount(r)'
BY DEF RequestAccount

LEMMA SchedulerKept ==
  ASSUME NEW s \in Schedulers, SchedulerAccount(s), pc'[s] = pc[s], todo'[s] = todo[s],
         cur'[s] = cur[s], released'[s] = released[s], delta'[s] = delta[s]
  PROVE  SchedulerAccount(s)'
BY DEF SchedulerAccount, RestoredRows

(* A scheduler outside its transaction has nothing in its account.         *)
LEMMA SchedulerIdle ==
  ASSUME NEW s \in Schedulers, pc'[s] \notin {"scan", "restock"}, todo'[s] = {},
         \A i \in Items : delta'[s][i] = 0
  PROVE  SchedulerAccount(s)'
<1>1. RestoredRows(s)' = {}
  BY DEF RestoredRows
<1>2. \A i \in Items : Quantity(RestoredRows(s), i)' = 0
  BY <1>1, QuantityEmpty
<1>. QED
  BY <1>2 DEF SchedulerAccount
(* The account of a request across the steps of its own handler.           *)
LEMMA RequestAccountStep ==
  ASSUME TypeOK, NEW r \in Requests, RequestAccount(r), RequestStep(r)
  PROVE  RequestAccount(r)'
<1> USE DEF dbVars, lockVars, redisVars, reqVars, scanVars, bounds
<1>t. /\ line[r] \in Nat \ {0} /\ r \in Procs
      /\ \A i \in Items : delta[r][i] \in Nat
  BY DEF TypeOK, LocalType, LockType, Procs
<1>1. CASE Reject(r) \/ RefuseInvoice(r) \/ CommitHold(r) \/ StoreInvoice(r)
  <2>1. pc'[r] \notin {"new", "reserve"}
    BY <1>t, <1>1 DEF Reject, RefuseInvoice, CommitHold, StoreInvoice, TypeOK, PcType
  <2>. QED
    BY <2>1, RequestDone
<1>2. CASE BeginReserve(r)
  <2>1. /\ pc'[r] = "reserve" /\ line'[r] = 1 /\ short'[r] = {}
        /\ delta'[r] = NoDelta
    BY <1>t, <1>2 DEF BeginReserve, RequestAccount, TypeOK, PcType
  <2>2. TakenRows(r)' = {}
    BY <2>1 DEF TakenRows, RowsOf, Rows
  <2>3. \A i \in Items : Quantity(TakenRows(r), i)' = 0
    BY <2>2, QuantityEmpty
  <2>. QED
    BY <2>1, <2>3 DEF RequestAccount, NoDelta
<1>3. CASE DecrementStock(r)
  <2>1. /\ LinePending(r) /\ pc[r] = "reserve"
        /\ delta' = [delta EXCEPT ![r][ItemOf(LineRow(r))] = @ + QtyOf(LineRow(r))]
        /\ line' = [line EXCEPT ![r] = @ + 1]
        /\ UNCHANGED <<pc, short>>
    BY <1>3 DEF DecrementStock, LinePending
  <2>2. LineRow(r) \in Rows /\ QtyOf(LineRow(r)) \in Nat /\ LineRow(r) \in RowsOf(r)
    BY <2>1, LineRowType, RowType, LinesAssumption DEF RowsOf, LineRow
  <2>3. short[r] \subseteq 1..line[r] - 1
    BY <2>1 DEF RequestAccount
  <2>4. TakenRows(r)' = TakenRows(r) \union {LineRow(r)}
    <3>1. line'[r] = line[r] + 1 /\ short'[r] = short[r] /\ line[r] \notin short[r]
      BY <1>t, <2>1, <2>3 DEF TypeOK, LocalType
    <3>2. ASSUME NEW row \in RowsOf(r)
          PROVE  row[2] < line[r] + 1 <=> row[2] < line[r] \/ row = LineRow(r)
      <4>1. row \in Rows /\ row[1] = r
        BY DEF RowsOf
      <4>2. row[2] \in Nat /\ row = <<row[1], row[2]>>
        BY <4>1, RowType, LinesAssumption
      <4>. QED
        BY <1>t, <4>1, <4>2 DEF LineRow
    <3>3. LineRow(r)[2] = line[r]
      BY DEF LineRow
    <3>. QED
      BY <2>2, <3>1, <3>2, <3>3 DEF TakenRows
  <2>5. TakenRows(r) \in SUBSET Rows /\ LineRow(r) \notin TakenRows(r)
    BY <1>t DEF TakenRows, RowsOf, LineRow
  <2>6. ASSUME NEW i \in Items PROVE delta'[r][i] = Quantity(TakenRows(r), i)'
    <3>1. Quantity(TakenRows(r), i)' =
            Quantity(TakenRows(r), i) + Quantity({LineRow(r)}, i)
      <4>1. /\ {LineRow(r)} \in SUBSET Rows
            /\ TakenRows(r) \cap {LineRow(r)} = {}
        BY <2>2, <2>5
      <4>2. Quantity(TakenRows(r) \union {LineRow(r)}, i) =
              Quantity(TakenRows(r), i) + Quantity({LineRow(r)}, i)
        BY <2>5, <4>1, QuantityUnion
      <4>. QED
        BY <2>4, <4>2
    <3>2. Quantity({LineRow(r)}, i) =
            IF i = ItemOf(LineRow(r)) THEN QtyOf(LineRow(r)) ELSE 0
      BY <2>2, QuantityRow
    <3>3. delta'[r][i] = IF i = ItemOf(LineRow(r)) THEN delta[r][i] + QtyOf(LineRow(r))
                                                   ELSE delta[r][i]
      BY <1>t, <2>1 DEF TypeOK, LockType
    <3>4. delta[r][i] = Quantity(TakenRows(r), i)
      BY <2>1 DEF RequestAccount
    <3>. QED
      BY <1>t, <3>1, <3>2, <3>3, <3>4
  <2>7. short'[r] \subseteq 1..line'[r] - 1
    BY <1>t, <2>1, <2>3 DEF TypeOK, LocalType
  <2>. QED
    BY <2>1, <2>6, <2>7 DEF RequestAccount
<1>4. CASE NoteUnavailable(r)
  <2>1. /\ pc[r] = "reserve" /\ pc' = pc /\ delta' = delta
        /\ line'[r] = line[r] + 1 /\ short'[r] = short[r] \union {line[r]}
    BY <1>4 DEF NoteUnavailable, LinePending, TypeOK, LocalType
  <2>2. TakenRows(r)' = TakenRows(r)
    <3>1. ASSUME NEW row \in RowsOf(r) PROVE row[2] \in Nat
      BY RowType, LinesAssumption DEF RowsOf
    <3>2. ASSUME NEW row \in RowsOf(r)
          PROVE  (row[2] < line[r] + 1 /\ row[2] \notin short[r] \union {line[r]})
                   <=> (row[2] < line[r] /\ row[2] \notin short[r])
      BY <1>t, <3>1
    <3>. QED
      BY <2>1, <3>2 DEF TakenRows
  <2>3. short'[r] \subseteq 1..line'[r] - 1
    BY <1>t, <2>1 DEF RequestAccount
  <2>. QED
    BY <2>1, <2>2, <2>3 DEF RequestAccount
<1>. QED
  BY <1>1, <1>2, <1>3, <1>4 DEF RequestStep

(* The account of a scheduler across the steps of its own rollback.        *)
LEMMA SchedulerAccountStep ==
  ASSUME TypeOK, ScanInv, RowLockInv, NEW s \in Schedulers, SchedulerAccount(s),
         SchedulerStep(s)
  PROVE  SchedulerAccount(s)'
<1> USE DEF dbVars, lockVars, redisVars, reqVars, scanVars, bounds
<1>t. /\ s \in Procs
      /\ released[s] \in SUBSET Rows /\ todo[s] \in SUBSET Rows
      /\ \A i \in Items : delta[s][i] \in Nat
  BY DEF TypeOK, LocalType, LockType, Procs
<1>1. CASE BeginScan(s) \/ SelectExpired(s)
  <2>1. /\ pc[s] \in {"sleep", "select"} /\ pc'[s] \in {"select", "scan"}
        /\ released'[s] = {} /\ released[s] = {} /\ delta' = delta
    BY <1>t, <1>1 DEF BeginScan, SelectExpired, ScanInv, TypeOK, PcType
  <2>2. RestoredRows(s)' = {} /\ RestoredRows(s) = {}
    BY <2>1 DEF RestoredRows
  <2>. QED
    BY <2>1, <2>2 DEF SchedulerAccount
<1>2. ASSUME NEW row \in Rows, ReleaseRow(s, row) PROVE SchedulerAccount(s)'
  <2>1. row \in todo[s] /\ pc[s] = "scan" /\ row \notin released[s]
    BY <1>2 DEF ReleaseRow, SchedulerAccount
  <2>2. status[row] = "HELD"
    BY <1>t, <2>1, ProcsAssumption DEF Selected, RowLockInv, Procs
  <2>3. /\ todo'[s] = todo[s] \ {row}
        /\ released'[s] = released[s] \union {row}
        /\ pc'[s] = "restock" /\ cur'[s] = row
        /\ delta' = delta
    BY <1>t, <1>2, <2>2 DEF ReleaseRow, TypeOK, PcType, LocalType
  <2>4. RestoredRows(s)' = RestoredRows(s)
    BY <2>1, <2>3 DEF RestoredRows
  <2>. QED
    BY <2>3, <2>4 DEF SchedulerAccount
<1>3. CASE RestockItem(s)
  <2>1. /\ pc[s] = "restock" /\ pc'[s] = "scan"
        /\ UNCHANGED <<released, cur, todo>>
        /\ delta' = [delta EXCEPT ![s][ItemOf(cur[s])] = @ + QtyOf(cur[s])]
    BY <1>t, <1>3 DEF RestockItem, TypeOK, PcType
  <2>2. cur[s] \in released[s] /\ cur[s] \in Rows /\ QtyOf(cur[s]) \in Nat
    BY <1>t, <2>1, RowType, LinesAssumption DEF SchedulerAccount
  <2>3. /\ RestoredRows(s) = released[s] \ {cur[s]}
        /\ RestoredRows(s)' = released[s]
    BY <2>1 DEF RestoredRows
  <2>4. ASSUME NEW i \in Items PROVE delta'[s][i] = Quantity(RestoredRows(s), i)'
    <3> DEFINE Before == released[s] \ {cur[s]}
    <3>1. /\ {cur[s]} \in SUBSET Rows /\ Before \in SUBSET Rows
          /\ Before \cap {cur[s]} = {} /\ Before \union {cur[s]} = released[s]
      BY <1>t, <2>2
    <3>2. Quantity(Before \union {cur[s]}, i) = Quantity(Before, i) + Quantity({cur[s]}, i)
      <4> HIDE DEF Before
      <4>. QED
        BY <3>1, QuantityUnion
    <3>3. Quantity({cur[s]}, i) = IF i = ItemOf(cur[s]) THEN QtyOf(cur[s]) ELSE 0
      BY <2>2, QuantityRow
    <3>4. delta'[s][i] = IF i = ItemOf(cur[s]) THEN delta[s][i] + QtyOf(cur[s])
                                               ELSE delta[s][i]
      BY <1>t, <2>1 DEF TypeOK, LockType
    <3>5. delta[s][i] = Quantity(Before, i) /\ delta[s][i] \in Nat
      BY <1>t, <2>3 DEF SchedulerAccount
    <3>6. Quantity(RestoredRows(s), i)' = Quantity(Before, i) + Quantity({cur[s]}, i)
      BY <2>3, <3>1, <3>2
    <3> HIDE DEF Before
    <3>. QED
      BY <2>2, <3>3, <3>4, <3>5, <3>6
  <2>. QED
    BY <2>1, <2>4 DEF SchedulerAccount
<1>4. CASE CommitRollback(s)
  <2>1. /\ pc'[s] \notin {"scan", "restock"} /\ todo'[s] = {}
        /\ \A i \in Items : delta'[s][i] = 0
    BY <1>t, <1>4 DEF CommitRollback, EndTx, NoDelta, ForgetScan, TypeOK, PcType
  <2>. QED
    BY <2>1, SchedulerIdle
<1>. QED
  BY <1>1, <1>2, <1>3, <1>4 DEF SchedulerStep

(* A rolled back transaction has no account left.                          *)
LEMMA AccountAbort ==
  ASSUME TypeOK, AccountInv, NEW P \in SUBSET Procs, Abort(P)
  PROVE  AccountInv'
<1> USE ProcsAssumption
<1>1. UNCHANGED <<stock, status>>
  BY DEF Abort, dbVars
<1>2. Conservation'
  BY <1>1 DEF AccountInv, Conservation, Owing
<1>3. ASSUME NEW r \in Requests PROVE RequestAccount(r)'
  <2>1. CASE r \in P
    <3>1. /\ line'[r] = 1 /\ short'[r] = {} /\ delta'[r] = NoDelta
          /\ pc'[r] # "reserve"
      BY <2>1 DEF Abort, EndTx, ForgetLines, Answered, Procs
    <3>. QED
      BY <3>1 DEF RequestAccount, NoDelta
  <2>2. CASE r \notin P
    <3>1. /\ line'[r] = line[r] /\ short'[r] = short[r] /\ delta'[r] = delta[r]
          /\ pc'[r] = pc[r]
      BY <2>2 DEF Abort, EndTx, ForgetLines, Procs
    <3>. QED
      BY <3>1, RequestKept DEF AccountInv
  <2>. QED
    BY <2>1, <2>2
<1>4. ASSUME NEW s \in Schedulers PROVE SchedulerAccount(s)'
  <2>1. CASE s \in P
    <3>1. /\ pc'[s] \notin {"scan", "restock"} /\ todo'[s] = {}
          /\ \A i \in Items : delta'[s][i] = 0
      BY <2>1 DEF Abort, EndTx, ForgetScan, NoDelta, Procs
    <3>. QED
      BY <3>1, SchedulerIdle
  <2>2. CASE s \notin P
    <3>1. /\ pc'[s] = pc[s] /\ todo'[s] = todo[s] /\ cur'[s] = cur[s]
          /\ released'[s] = released[s] /\ delta'[s] = delta[s]
      BY <2>2 DEF Abort, EndTx, ForgetScan, Procs
    <3>. QED
      BY <3>1, SchedulerKept DEF AccountInv
  <2>. QED
    BY <2>1, <2>2
<1>. QED
  BY <1>2, <1>3, <1>4 DEF AccountInv

(* A reserve() that commits has deducted exactly the lines of its invoice. *)
LEMMA HoldTakesAll ==
  ASSUME TypeOK, NEW r \in Requests, RequestAccount(r), CommitHold(r)
  PROVE  \A i \in Items : delta[r][i] = Quantity(RowsOf(r), i)
<1>1. /\ pc[r] = "reserve" /\ line[r] > Len(Lines[r]) /\ short[r] = {}
      /\ line[r] \in Nat /\ Len(Lines[r]) \in Nat
  BY LinesAssumption DEF CommitHold, TypeOK, LocalType
<1>2. \A row \in RowsOf(r) : row[2] \in 1..Len(Lines[r])
  BY RowType DEF RowsOf
<1>3. TakenRows(r) = RowsOf(r)
  BY <1>1, <1>2 DEF TakenRows
<1>. QED
  BY <1>1, <1>3 DEF RequestAccount

(* Every unit is accounted for across each step.                           *)
LEMMA ConservationStep ==
  ASSUME TypeOK, SafetyInv, AccountInv, [Next]_vars
  PROVE  Conservation'
<1> USE DEF dbVars, lockVars, redisVars, reqVars, scanVars, bounds
<1>t. /\ \A i \in Items : stock[i] \in Int /\ InitialStock[i] \in Nat
      /\ Owing \in SUBSET Rows
  BY LinesAssumption DEF TypeOK, DbType, Owing
<1>1. CASE UNCHANGED <<stock, status>>
  BY <1>1 DEF AccountInv, Conservation, Owing
<1>2. ASSUME NEW r \in Requests, CommitHold(r) PROVE Conservation'
  <2>1. /\ \A i \in Items : stock'[i] = stock[i] - delta[r][i]
        /\ \A row \in Rows : status'[row] = IF row[1] = r THEN "HELD" ELSE status[row]
    BY <1>2 DEF CommitHold
  <2>2. \A row \in RowsOf(r) : status[row] = "NONE"
    BY <1>2 DEF CommitHold, SafetyInv, ProgressInv
  <2>3. /\ Owing' = Owing \union RowsOf(r)
        /\ Owing \cap RowsOf(r) = {}
        /\ RowsOf(r) \in SUBSET Rows
    BY <2>1, <2>2 DEF Owing, RowsOf
  <2>4. ASSUME NEW i \in Items PROVE stock'[i] + Quantity(Owing, i)' = InitialStock[i]
    <3>1. Quantity(Owing, i)' = Quantity(Owing, i) + Quantity(RowsOf(r), i)
      <4>1. Quantity(Owing \union RowsOf(r), i) = Quantity(Owing, i) + Quantity(RowsOf(r), i)
        BY <1>t, <2>3, QuantityUnion
      <4>. QED
        BY <2>3, <4>1
    <3>2. delta[r][i] = Quantity(RowsOf(r), i)
      BY <1>2, HoldTakesAll DEF AccountInv
    <3>3. stock[i] + Quantity(Owing, i) = InitialStock[i]
      BY DEF AccountInv, Conservation
    <3>4. Quantity(Owing, i) \in Nat /\ Quantity(RowsOf(r), i) \in Nat
      BY <1>t, <2>3, QuantityType
    <3>. QED
      BY <1>t, <2>1, <3>1, <3>2, <3>3, <3>4
  <2>. QED
    BY <2>4 DEF Conservation
<1>3. ASSUME NEW s \in Schedulers, CommitRollback(s) PROVE Conservation'
  <2>1. /\ \A i \in Items : stock'[i] = stock[i] + delta[s][i]
        /\ \A row \in Rows : status'[row] =
             IF row \in released[s] THEN "RELEASED" ELSE status[row]
        /\ released[s] \in SUBSET Rows
        /\ RestoredRows(s) = released[s]
    BY <1>3 DEF CommitRollback, RestoredRows, TypeOK, LocalType
  <2>2. \A row \in released[s] : status[row] = "HELD"
    BY <1>3, <2>1, ProcsAssumption DEF CommitRollback, SafetyInv, RowLockInv, Selected, Procs
  <2>3. /\ Owing = Owing' \union released[s]
        /\ Owing' \cap released[s] = {}
        /\ Owing' \in SUBSET Rows
    BY <2>1, <2>2 DEF Owing
  <2>4. ASSUME NEW i \in Items PROVE stock'[i] + Quantity(Owing, i)' = InitialStock[i]
    <3>1. Quantity(Owing, i) = Quantity(Owing', i) + Quantity(released[s], i)
      <4>1. Quantity(Owing' \union released[s], i) = Quantity(Owing', i) + Quantity(released[s], i)
        BY <2>1, <2>3, QuantityUnion
      <4>. QED
        BY <2>3, <4>1
    <3>2. delta[s][i] = Quantity(released[s], i)
      BY <2>1 DEF AccountInv, SchedulerAccount
    <3>3. stock[i] + Quantity(Owing, i) = InitialStock[i]
      BY DEF AccountInv, Conservation
    <3>4. Quantity(Owing', i) \in Nat /\ Quantity(released[s], i) \in Nat
      BY <2>1, <2>3, QuantityType
    <3>. QED
      BY <1>t, <2>1, <3>1, <3>2, <3>3, <3>4
  <2>. QED
    BY <2>4 DEF Conservation
<1>4. ASSUME NEW p \in Payers, CommitPaid(p) PROVE Conservation'
  <2>1. /\ \A row \in Rows : status'[row] = IF rowLock[row] = p THEN "PAID" ELSE status[row]
        /\ UNCHANGED stock
    BY <1>4 DEF CommitPaid
  <2>2. \A row \in Rows : rowLock[row] = p => status[row] = "HELD"
    BY ProcsAssumption DEF SafetyInv, RowLockInv, Procs
  <2>3. Owing' = Owing
    BY <2>1, <2>2 DEF Owing
  <2>. QED
    BY <2>1, <2>3 DEF AccountInv, Conservation
<1>5. ASSUME NEW r \in Requests, RequestStep(r) PROVE Conservation'
  BY <1>1, <1>2, <1>5 DEF RequestStep, Reject, BeginReserve, DecrementStock,
     NoteUnavailable, RefuseInvoice, StoreInvoice
<1>6. ASSUME NEW s \in Schedulers, SchedulerStep(s) PROVE Conservation'
  BY <1>1, <1>3, <1>6 DEF SchedulerStep, BeginScan, SelectExpired, ReleaseRow, RestockItem
<1>7. ASSUME NEW p \in Payers, PayerStep(p) PROVE Conservation'
  BY <1>1, <1>4, <1>7 DEF PayerStep, MarkReservedPaid
<1>8. CASE \/ \E p \in Requests \union Schedulers :
                RefreshStep(p) \/ DeadlockVictim(p) \/ RedisFailure(p)
           \/ \E p \in Payers : CrashPayer(p)
           \/ \E i \in Items : ExpireCacheItem(i)
           \/ CrashService \/ Tick \/ UNCHANGED vars
  BY <1>1, <1>8 DEF RefreshStep, ReadForCache, SetCacheItem, DeadlockVictim, RedisFailure,
     CrashPayer, CrashService, Abort, ExpireCacheItem, Tick, vars
<1>. QED
  BY <1>5, <1>6, <1>7, <1>8 DEF Next

(* The accounts of all processes survive a step of any of them.            *)
LEMMA AccountStep ==
  ASSUME TypeOK, SafetyInv, AccountInv, [Next]_vars
  PROVE  AccountInv'
<1> USE ProcsAssumption
<1> USE DEF dbVars, lockVars, redisVars, reqVars, scanVars, bounds
<1>0. \A r \in Requests, s \in Schedulers, p \in Payers : r # s /\ s # p /\ r # p
  OBVIOUS
<1>1. Conservation'
  BY ConservationStep
<1>2. ASSUME NEW r \in Requests, RequestStep(r) PROVE AccountInv'
  <2>1. RequestAccount(r)'
    BY <1>2, RequestAccountStep DEF AccountInv
  <2>2. ASSUME NEW q \in Requests, q # r PROVE RequestAccount(q)'
    <3>1. pc'[q] = pc[q] /\ line'[q] = line[q] /\ short'[q] = short[q] /\ delta'[q] = delta[q]
      BY <1>2, <2>2 DEF RequestStep, Reject, BeginReserve, DecrementStock, NoteUnavailable,
         RefuseInvoice, CommitHold, StoreInvoice, EndTx, ForgetLines,
         TypeOK, PcType, LockType, LocalType, Procs
    <3>. QED
      BY <3>1, RequestKept DEF AccountInv
  <2>3. ASSUME NEW s \in Schedulers PROVE SchedulerAccount(s)'
    <3>1. /\ pc'[s] = pc[s] /\ delta'[s] = delta[s]
          /\ todo'[s] = todo[s] /\ cur'[s] = cur[s] /\ released'[s] = released[s]
      BY <1>0, <1>2 DEF RequestStep, Reject, BeginReserve, DecrementStock, NoteUnavailable,
         RefuseInvoice, CommitHold, StoreInvoice, EndTx,
         TypeOK, PcType, LockType, LocalType, Procs
    <3>. QED
      BY <3>1, SchedulerKept DEF AccountInv
  <2>. QED
    BY <1>1, <2>1, <2>2, <2>3 DEF AccountInv
<1>3. ASSUME NEW s \in Schedulers, SchedulerStep(s) PROVE AccountInv'
  <2>1. SchedulerAccount(s)'
    BY <1>3, SchedulerAccountStep DEF AccountInv, SafetyInv
  <2>2. ASSUME NEW x \in Schedulers, x # s PROVE SchedulerAccount(x)'
    <3>1. /\ pc'[x] = pc[x] /\ delta'[x] = delta[x]
          /\ todo'[x] = todo[x] /\ cur'[x] = cur[x] /\ released'[x] = released[x]
      BY <1>3, <2>2 DEF SchedulerStep, BeginScan, SelectExpired, ReleaseRow, RestockItem,
         CommitRollback, EndTx, ForgetScan, TypeOK, PcType, LockType, LocalType, Procs
    <3>. QED
      BY <3>1, SchedulerKept DEF AccountInv
  <2>3. ASSUME NEW r \in Requests PROVE RequestAccount(r)'
    <3>1. pc'[r] = pc[r] /\ line'[r] = line[r] /\ short'[r] = short[r] /\ delta'[r] = delta[r]
      BY <1>0, <1>3 DEF SchedulerStep, BeginScan, SelectExpired, ReleaseRow, RestockItem,
         CommitRollback, EndTx, TypeOK, PcType, LockType, LocalType, Procs
    <3>. QED
      BY <3>1, RequestKept DEF AccountInv
  <2>. QED
    BY <1>1, <2>1, <2>2, <2>3 DEF AccountInv
<1>4. ASSUME NEW p \in Requests \union Schedulers, RefreshStep(p) PROVE AccountInv'
  <2>1. /\ pc[p] \in {"refresh", "publish"}
        /\ pc'[p] \in {"publish", "store", "sleep"}
        /\ \A q \in Procs : q # p => pc'[q] = pc[q]
        /\ \A s \in Schedulers : s # p => released'[s] = released[s]
        /\ \A s \in Schedulers : s = p => released'[s] \in {{}, released[s]}
        /\ UNCHANGED <<delta, line, short, todo, cur>>
    BY <1>4 DEF RefreshStep, ReadForCache, SetCacheItem, TypeOK, PcType, LocalType, Procs
  <2>2. ASSUME NEW r \in Requests PROVE RequestAccount(r)'
    <3>1. CASE r = p
      BY <2>1, <3>1, RequestDone
    <3>2. CASE r # p
      BY <2>1, <3>2, RequestKept DEF AccountInv, Procs
    <3>. QED
      BY <3>1, <3>2
  <2>3. ASSUME NEW s \in Schedulers PROVE SchedulerAccount(s)'
    <3>1. CASE s = p
      <4>1. RestoredRows(s) = {} /\ RestoredRows(s)' = {}
        BY <2>1, <3>1 DEF RestoredRows
      <4>2. pc'[s] # "restock"
        BY <2>1, <3>1
      <4>3. todo'[s] \cap released'[s] = {}
        BY <2>1, <3>1 DEF AccountInv, SchedulerAccount
      <4>4. \A i \in Items : delta'[s][i] = Quantity(RestoredRows(s), i)'
        <5>1. \A i \in Items : delta[s][i] = Quantity(RestoredRows(s), i)
          BY DEF AccountInv, SchedulerAccount
        <5>. QED
          BY <2>1, <4>1, <5>1
      <4>. QED
        BY <4>2, <4>3, <4>4 DEF SchedulerAccount
    <3>2. CASE s # p
      BY <2>1, <3>2, SchedulerKept DEF AccountInv, Procs
    <3>. QED
      BY <3>1, <3>2
  <2>. QED
    BY <1>1, <2>2, <2>3 DEF AccountInv
<1>5. ASSUME NEW p \in Payers, PayerStep(p) PROVE AccountInv'
  <2>1. /\ \A q \in Procs : q # p => pc'[q] = pc[q] /\ delta'[q] = delta[q]
        /\ UNCHANGED <<line, short, todo, cur, released>>
    BY <1>5 DEF PayerStep, MarkReservedPaid, CommitPaid, EndTx, TypeOK, PcType, LockType
  <2>2. ASSUME NEW r \in Requests PROVE RequestAccount(r)'
    BY <1>0, <2>1, RequestKept DEF AccountInv, Procs
  <2>3. ASSUME NEW s \in Schedulers PROVE SchedulerAccount(s)'
    BY <1>0, <2>1, SchedulerKept DEF AccountInv, Procs
  <2>. QED
    BY <1>1, <2>2, <2>3 DEF AccountInv
<1>6. ASSUME NEW p \in Procs, Abort({p}) PROVE AccountInv'
  BY <1>6, AccountAbort
<1>7. CASE \/ \E p \in Requests \union Schedulers : DeadlockVictim(p) \/ RedisFailure(p)
           \/ \E p \in Payers : CrashPayer(p)
  BY <1>6, <1>7 DEF DeadlockVictim, RedisFailure, CrashPayer, Procs
<1>8. CASE CrashService
  <2>1. Requests \union Schedulers \in SUBSET Procs /\ Abort(Requests \union Schedulers)
    BY <1>8 DEF CrashService, Procs
  <2>. QED
    BY <2>1, AccountAbort
<1>9. CASE (\E i \in Items : ExpireCacheItem(i)) \/ Tick \/ UNCHANGED vars
  <2>1. UNCHANGED <<pc, delta, line, short, todo, cur, released>>
    BY <1>9 DEF ExpireCacheItem, Tick, vars
  <2>2. ASSUME NEW r \in Requests PROVE RequestAccount(r)'
    BY <2>1, RequestKept DEF AccountInv
  <2>3. ASSUME NEW s \in Schedulers PROVE SchedulerAccount(s)'
    BY <2>1, SchedulerKept DEF AccountInv
  <2>. QED
    BY <1>1, <2>2, <2>3 DEF AccountInv
<1>. QED
  BY <1>2, <1>3, <1>4, <1>5, <1>7, <1>8, <1>9 DEF Next

(* A payment consumer locks rows of one invoice at a time.                 *)
LEMMA PayerInvStep ==
  ASSUME TypeOK, SafetyInv, PayerInv, [Next]_vars
  PROVE  PayerInv'
<1> USE ProcsAssumption
<1> USE DEF dbVars, lockVars, redisVars, reqVars, scanVars, bounds
<1>0. \A r \in Requests, s \in Schedulers, p \in Payers : r # s /\ s # p /\ r # p
  OBVIOUS
<1>1. ASSUME \A p \in Payers : pc'[p] = pc[p],
             \A p \in Payers, row \in Rows : rowLock'[row] = p => rowLock[row] = p
      PROVE  PayerInv'
  BY <1>1 DEF PayerInv
<1>2. ASSUME NEW r \in Requests, RequestStep(r) PROVE PayerInv'
  <2>1. \A p \in Payers : pc'[p] = pc[p]
    BY <1>0, <1>2 DEF RequestStep, Reject, BeginReserve, DecrementStock, NoteUnavailable,
       RefuseInvoice, CommitHold, StoreInvoice, TypeOK, PcType, Procs
  <2>2. \A p \in Payers, row \in Rows : rowLock'[row] = p => rowLock[row] = p
    BY <1>2 DEF RequestStep, Reject, BeginReserve, DecrementStock, NoteUnavailable,
       RefuseInvoice, CommitHold, StoreInvoice, EndTx, FreeRows, Procs
  <2>. QED
    BY <1>1, <2>1, <2>2
<1>3. ASSUME NEW s \in Schedulers, SchedulerStep(s) PROVE PayerInv'
  <2>1. \A p \in Payers : pc'[p] = pc[p]
    BY <1>0, <1>3 DEF SchedulerStep, BeginScan, SelectExpired, ReleaseRow, RestockItem,
       CommitRollback, TypeOK, PcType, Procs
  <2>2. \A p \in Payers, row \in Rows : rowLock'[row] = p => rowLock[row] = p
    BY <1>0, <1>3 DEF SchedulerStep, BeginScan, SelectExpired, ReleaseRow, RestockItem,
       CommitRollback, EndTx, FreeRows, Procs
  <2>. QED
    BY <1>1, <2>1, <2>2
<1>4. ASSUME NEW p \in Requests \union Schedulers, RefreshStep(p) PROVE PayerInv'
  <2>1. /\ \A q \in Payers : pc'[q] = pc[q]
        /\ UNCHANGED rowLock
    BY <1>0, <1>4 DEF RefreshStep, ReadForCache, SetCacheItem, TypeOK, PcType, Procs
  <2>. QED
    BY <1>1, <2>1
<1>5. ASSUME NEW p \in Payers, NEW inv \in Invoices, MarkReservedPaid(p, inv) PROVE PayerInv'
  <2>1. /\ pc[p] = "idle" /\ pc'[p] = "mark"
        /\ \A q \in Payers : q # p => pc'[q] = pc[q]
        /\ \A row \in Rows : rowLock'[row] = IF row \in HeldRows(inv) THEN p ELSE rowLock[row]
    BY <1>5 DEF MarkReservedPaid, TypeOK, PcType, Procs
  <2>2. \A row \in HeldRows(inv) : InvoiceOf[row[1]] = inv
    BY DEF HeldRows
  <2>3. \A row \in Rows : rowLock[row] # p
    BY <2>1 DEF PayerInv
  <2>. QED
    BY <2>1, <2>2, <2>3 DEF PayerInv
<1>6. ASSUME NEW p \in Payers, CommitPaid(p) PROVE PayerInv'
  <2>1. /\ \A q \in Payers : q # p => pc'[q] = pc[q]
        /\ \A row \in Rows : rowLock'[row] = IF rowLock[row] = p THEN NoProc ELSE rowLock[row]
    BY <1>6 DEF CommitPaid, EndTx, FreeRows, TypeOK, PcType, Procs
  <2>. QED
    BY <2>1 DEF PayerInv, Procs
<1>7. ASSUME NEW P \in SUBSET Procs, Abort(P) PROVE PayerInv'
  <2>1. /\ \A row \in Rows : rowLock'[row] = IF rowLock[row] \in P THEN NoProc ELSE rowLock[row]
        /\ \A q \in Payers : q \notin P => pc'[q] = pc[q]
    BY <1>7 DEF Abort, EndTx, FreeRows, Procs
  <2>. QED
    BY <2>1 DEF PayerInv, Procs
<1>8. ASSUME NEW p \in Procs, Abort({p}) PROVE PayerInv'
  BY <1>7, <1>8
<1>9. CASE \/ \E p \in Requests \union Schedulers : DeadlockVictim(p) \/ RedisFailure(p)
           \/ \E p \in Payers : CrashPayer(p)
  BY <1>8, <1>9 DEF DeadlockVictim, RedisFailure, CrashPayer, Procs
<1>10. CASE CrashService
  <2>1. Requests \union Schedulers \in SUBSET Procs /\ Abort(Requests \union Schedulers)
    BY <1>10 DEF CrashService, Procs
  <2>. QED
    BY <2>1, <1>7
<1>11. CASE (\E i \in Items : ExpireCacheItem(i)) \/ Tick \/ UNCHANGED vars
  BY <1>1, <1>11 DEF ExpireCacheItem, Tick, vars
<1>. QED
  BY <1>2, <1>3, <1>4, <1>5, <1>6, <1>9, <1>10, <1>11 DEF Next, PayerStep
-----------------------------------------------------------------------------
(* A later time stays later by the same interval.                          *)
LEMMA LaterSum ==
  \A m, n, k \in Nat : m <= n => m + k \in Nat /\ n + k \in Nat /\ m + k <= n + k
OBVIOUS

(* A step that stores no payload and starts no reserve() keeps the         *)
(* lifetimes of payloads and holds as they are.                            *)
LEMMA PayloadQuiet ==
  ASSUME TypeOK, PayloadInv, UNCHANGED <<stored, expiresAt>>,
         clock' \in Nat, clock' >= clock,
         \A r \in Requests : Storing(r)' => Storing(r),
         \A r \in Requests : pc'[r] = "ok" => pc[r] = "ok"
  PROVE  PayloadInv'
<1>1. clock + Ttl \in Nat /\ clock' + Ttl \in Nat /\ clock + Ttl <= clock' + Ttl
  <2>1. clock \in Nat /\ clock' \in Nat /\ Ttl \in Nat /\ clock <= clock'
    BY BoundsAssumption DEF TypeOK, DbType
  <2>. QED
    BY <2>1, LaterSum
<1>2. /\ \A inv \in Invoices : stored[inv] \in Nat
      /\ \A r \in Requests : expiresAt[r] \in Nat
  BY DEF TypeOK, DbType, RedisType
<1> DEFINE Now == clock + Ttl
<1>3. /\ \A inv \in Invoices : stored[inv] <= Now
      /\ \A r \in Requests : Storing(r) => expiresAt[r] <= Now
      /\ \A r \in Requests : pc[r] = "ok" => expiresAt[r] <= stored[InvoiceOf[r]]
  BY DEF PayloadInv
<1>4. Now \in Nat /\ Now' \in Nat /\ Now <= Now'
  BY <1>1
<1> HIDE DEF Now
<1>5. /\ \A inv \in Invoices : stored'[inv] <= Now'
      /\ \A r \in Requests : Storing(r)' => expiresAt'[r] <= Now'
      /\ \A r \in Requests : pc'[r] = "ok" => expiresAt'[r] <= stored'[InvoiceOf[r]]
  BY <1>2, <1>3, <1>4
<1>. QED
  BY <1>5 DEF PayloadInv, Now

LEMMA PayloadStep ==
  ASSUME TypeOK, PayloadInv, [Next]_vars
  PROVE  PayloadInv'
<1> USE ProcsAssumption, BoundsAssumption
<1> USE DEF dbVars, lockVars, redisVars, reqVars, scanVars, bounds
<1>0. \A r \in Requests, s \in Schedulers, p \in Payers : r # s /\ r # p
  OBVIOUS
<1>t. /\ clock \in Nat /\ clock + Ttl \in Nat
      /\ pc \in [Procs -> RequestPc \union SchedulerPc \union PayerPc]
      /\ stored \in [Invoices -> Nat] /\ expiresAt \in [Requests -> Nat]
      /\ \A r \in Requests : InvoiceOf[r] \in Invoices
  BY LinesAssumption DEF TypeOK, DbType, RedisType, PcType
<1>q. ASSUME UNCHANGED <<clock, stored, expiresAt>>,
             \A r \in Requests : Storing(r)' => Storing(r),
             \A r \in Requests : pc'[r] = "ok" => pc[r] = "ok"
      PROVE  PayloadInv'
  BY <1>q, <1>t, PayloadQuiet
<1>1. ASSUME NEW r \in Requests, RequestStep(r) PROVE PayloadInv'
  <2>1. CASE BeginReserve(r)
    <3>1. /\ \A x \in Requests : expiresAt'[x] = IF x = r THEN clock + Ttl ELSE expiresAt[x]
          /\ \A x \in Requests : pc'[x] = IF x = r THEN "reserve" ELSE pc[x]
          /\ UNCHANGED <<clock, stored>>
      BY <1>t, <2>1 DEF BeginReserve, Procs
    <3>. QED
      BY <1>t, <3>1 DEF PayloadInv, Storing
  <2>2. CASE StoreInvoice(r)
    <3>1. /\ \A inv \in Invoices :
                stored'[inv] = IF inv = InvoiceOf[r] THEN clock + Ttl ELSE stored[inv]
          /\ \A x \in Requests : pc'[x] = IF x = r THEN "ok" ELSE pc[x]
          /\ UNCHANGED <<clock, expiresAt>> /\ Storing(r)
      BY <1>t, <2>2 DEF StoreInvoice, Procs, Storing
    <3>2. \A x \in Requests : pc'[x] = "ok" => expiresAt[x] <= stored'[InvoiceOf[x]]
      BY <1>t, <3>1 DEF PayloadInv
    <3>. QED
      BY <1>t, <3>1, <3>2 DEF PayloadInv, Storing
  <2>3. CASE ~BeginReserve(r) /\ ~StoreInvoice(r)
    <3>1. /\ UNCHANGED <<clock, stored, expiresAt>>
          /\ \/ UNCHANGED pc
             \/ pc' = [pc EXCEPT ![r] = "failed"]
             \/ pc' = [pc EXCEPT ![r] = "unavailable"]
             \/ pc[r] = "reserve" /\ pc' = [pc EXCEPT ![r] = "refresh"]
      BY <1>1, <2>3 DEF RequestStep, Reject, DecrementStock, NoteUnavailable,
         RefuseInvoice, CommitHold
    <3>. QED
      BY <1>q, <1>t, <3>1 DEF Storing, Procs
  <2>. QED
    BY <2>1, <2>2, <2>3
<1>2. ASSUME NEW s \in Schedulers, SchedulerStep(s) PROVE PayloadInv'
  <2>1. UNCHANGED <<clock, stored, expiresAt>>
    BY <1>2 DEF SchedulerStep, BeginScan, SelectExpired, ReleaseRow, RestockItem, CommitRollback
  <2>2. \A r \in Requests : pc'[r] = pc[r]
    BY <1>0, <1>t, <1>2 DEF SchedulerStep, BeginScan, SelectExpired, ReleaseRow, RestockItem,
       CommitRollback, Procs
  <2>. QED
    BY <1>q, <2>1, <2>2 DEF Storing
<1>3. ASSUME NEW p \in Requests \union Schedulers, RefreshStep(p) PROVE PayloadInv'
  <2>1. /\ UNCHANGED <<clock, stored, expiresAt>>
        /\ pc[p] \in {"refresh", "publish"}
        /\ \E v \in {"publish", "store", "sleep"} : pc' = [pc EXCEPT ![p] = v]
    BY <1>3 DEF RefreshStep, ReadForCache, SetCacheItem
  <2>. QED
    BY <1>q, <1>t, <2>1 DEF Storing, Procs
<1>4. ASSUME NEW p \in Payers, PayerStep(p) PROVE PayloadInv'
  <2>1. /\ UNCHANGED <<clock, stored, expiresAt>>
        /\ \E v : pc' = [pc EXCEPT ![p] = v]
    BY <1>4 DEF PayerStep, MarkReservedPaid, CommitPaid
  <2>2. \A r \in Requests : pc'[r] = pc[r]
    BY <1>0, <1>t, <2>1 DEF Procs
  <2>. QED
    BY <1>q, <2>1, <2>2 DEF Storing
<1>5. ASSUME NEW P, Abort(P) PROVE PayloadInv'
  <2>1. /\ UNCHANGED <<clock, stored, expiresAt>>
        /\ \A r \in Requests : pc'[r] \in {pc[r], "sleep", "idle", "failed"}
    BY <1>5 DEF Abort, Procs
  <2>. QED
    BY <1>q, <2>1 DEF Storing
<1>6. CASE \/ \E p \in Requests \union Schedulers : DeadlockVictim(p) \/ RedisFailure(p)
           \/ \E p \in Payers : CrashPayer(p)
           \/ CrashService
  BY <1>5, <1>6 DEF DeadlockVictim, RedisFailure, CrashPayer, CrashService
<1>7. CASE Tick
  BY <1>t, <1>7, PayloadQuiet DEF Tick, Storing
<1>8. CASE (\E i \in Items : ExpireCacheItem(i)) \/ UNCHANGED vars
  BY <1>q, <1>8 DEF ExpireCacheItem, vars, Storing
<1>. QED
  BY <1>1, <1>2, <1>3, <1>4, <1>6, <1>7, <1>8 DEF Next
-----------------------------------------------------------------------------
(* The inductive invariant holds in every reachable state.                 *)
THEOREM InductiveInvariant == Spec => []IInv
<1>1. Init => AccountInv
  <2> SUFFICES ASSUME Init PROVE AccountInv
    OBVIOUS
  <2>1. Owing = {}
    BY DEF Init, Owing
  <2>2. Conservation
    BY <2>1, QuantityEmpty, LinesAssumption DEF Init, Conservation
  <2>3. ASSUME NEW r \in Requests PROVE RequestAccount(r)
    BY DEF Init, RequestAccount, Procs
  <2>4. ASSUME NEW s \in Schedulers PROVE SchedulerAccount(s)
    <3>1. pc[s] = "sleep" /\ todo[s] = {} /\ \A i \in Items : delta[s][i] = 0
      BY ProcsAssumption DEF Init, NoDelta, Procs
    <3>2. RestoredRows(s) = {}
      BY <3>1 DEF RestoredRows
    <3>. QED
      BY <3>1, <3>2, QuantityEmpty DEF SchedulerAccount
  <2>. QED
    BY <2>2, <2>3, <2>4 DEF AccountInv
<1>2. TypeOK /\ SafetyInv /\ AccountInv /\ [Next]_vars => AccountInv'
  BY AccountStep
<1>3. Init => PayerInv
  BY ProcsAssumption DEF Init, PayerInv, Procs
<1>4. TypeOK /\ SafetyInv /\ PayerInv /\ [Next]_vars => PayerInv'
  BY PayerInvStep
<1>5. Init => PayloadInv
  BY BoundsAssumption DEF Init, PayloadInv, Storing, Procs
<1>6. TypeOK /\ PayloadInv /\ [Next]_vars => PayloadInv'
  BY PayloadStep
<1>7. SafetyInv /\ AccountInv /\ PayerInv /\ PayloadInv <=> IInv
  BY DEF IInv
<1>. QED
  BY <1>1, <1>2, <1>3, <1>4, <1>5, <1>6, <1>7, SafetyInvariant, PTL DEF Spec

(* Units are neither lost nor created, whatever runs at the same time.     *)
THEOREM UnitsConserved == Spec => []Conservation
<1>1. IInv => Conservation
  BY DEF IInv, AccountInv
<1>. QED
  BY <1>1, InductiveInvariant, PTL

(* A confirmed hold that has not expired has its payload in Redis: the     *)
(* payload is written after expires_at was fixed, for the same TTL, and a  *)
(* second call for the invoice only prolongs it.                           *)
THEOREM PayloadOutlives == Spec => []PayloadOutlivesHold
<1>1. TypeOK /\ PayloadInv => PayloadOutlivesHold
  <2> SUFFICES ASSUME TypeOK, PayloadInv, NEW r \in Requests, pc[r] = "ok", clock < expiresAt[r]
               PROVE  clock < stored[InvoiceOf[r]]
    BY DEF PayloadOutlivesHold
  <2>1. clock \in Nat /\ expiresAt[r] \in Nat /\ stored[InvoiceOf[r]] \in Nat
    BY LinesAssumption DEF TypeOK, DbType, RedisType
  <2>. QED
    BY <2>1 DEF PayloadInv
<1>2. IInv => PayloadInv
  BY DEF IInv
<1>. QED
  BY <1>1, <1>2, InductiveInvariant, TypeCorrect, PTL
-----------------------------------------------------------------------------
(* A step that neither releases a row nor writes an audit row.             *)
LEMMA AuditKept ==
  ASSUME RollbackAudited, UNCHANGED audit,
         \A row \in Rows : status'[row] = "RELEASED" <=> status[row] = "RELEASED"
  PROVE  RollbackAudited'
<1> SUFFICES ASSUME NEW inv \in Invoices
             PROVE  audit'[inv] = Cardinality({row \in Rows :
                      InvoiceOf[row[1]] = inv /\ status'[row] = "RELEASED"})
  BY DEF RollbackAudited
<1> DEFINE Counted == {row \in Rows : InvoiceOf[row[1]] = inv /\ status[row] = "RELEASED"}
<1>1. Counted' = Counted
  OBVIOUS
<1>. QED
  BY <1>1 DEF RollbackAudited

(* A rollback releases rows that were HELD, so none that an earlier        *)
(* rollback has counted.                                                   *)
LEMMA AuditCommitted ==
  ASSUME TypeOK, SafetyInv, RollbackAudited, NEW s \in Schedulers, CommitRollback(s)
  PROVE  RollbackAudited'
<1>1. /\ pc[s] = "scan"
      /\ \A row \in Rows : status'[row] =
            IF row \in released[s] THEN "RELEASED" ELSE status[row]
  BY DEF CommitRollback
<1>2. released[s] \in SUBSET Rows
  BY DEF TypeOK, LocalType
<1>3. \A row \in released[s] : status[row] = "HELD"
  BY <1>1, <1>2, ProcsAssumption DEF SafetyInv, RowLockInv, Selected, Procs
<1> SUFFICES ASSUME NEW inv \in Invoices
             PROVE  audit'[inv] = Cardinality({row \in Rows :
                      InvoiceOf[row[1]] = inv /\ status'[row] = "RELEASED"})
  BY DEF RollbackAudited
<1> DEFINE Counted == {row \in Rows : InvoiceOf[row[1]] = inv /\ status[row] = "RELEASED"}
           Freed   == ReleasedOf(s, inv)
<1>4. Counted' = Counted \union Freed
  BY <1>1, <1>2 DEF ReleasedOf
<1>5. Counted \cap Freed = {}
  BY <1>3 DEF ReleasedOf
<1>6. IsFiniteSet(Counted) /\ IsFiniteSet(Freed)
  <2>1. Counted \in SUBSET Rows /\ Freed \in SUBSET Rows
    BY <1>2 DEF ReleasedOf
  <2>. QED
    BY <2>1, RowsFinite, FS_Subset, Zenon
<1>7. audit'[inv] = audit[inv] + Cardinality(Freed)
  BY DEF CommitRollback
<1>8. audit[inv] = Cardinality(Counted)
  BY DEF RollbackAudited
<1> HIDE DEF Counted, Freed
<1>9. Cardinality(Counted \union Freed) = Cardinality(Counted) + Cardinality(Freed)
  <2>1. Cardinality(Counted \union Freed) =
          Cardinality(Counted) + Cardinality(Freed) - Cardinality(Counted \cap Freed)
    BY <1>6, FS_Union
  <2>2. Cardinality({}) = 0
    BY FS_EmptySet
  <2>3. Cardinality(Counted) \in Nat /\ Cardinality(Freed) \in Nat
    BY <1>6, FS_CardinalityType
  <2>4. Cardinality(Counted \union Freed) = Cardinality(Counted) + Cardinality(Freed) - 0
    BY <1>5, <2>1, <2>2, Zenon
  <2>. QED
    BY <2>3, <2>4
<1>10. audit'[inv] = Cardinality(Counted')
  BY <1>4, <1>7, <1>8, <1>9
<1>. QED
  BY <1>10 DEF Counted

(* Every row that is released is reported once in the audit log, whatever  *)
(* schedulers run at the same time and wherever they are killed.           *)
THEOREM RollbacksAudited == Spec => []RollbackAudited
<1>1. Init => RollbackAudited
  <2> SUFFICES ASSUME Init, NEW inv \in Invoices
               PROVE  audit[inv] = Cardinality({row \in Rows :
                        InvoiceOf[row[1]] = inv /\ status[row] = "RELEASED"})
    BY DEF RollbackAudited
  <2>1. {row \in Rows : InvoiceOf[row[1]] = inv /\ status[row] = "RELEASED"} = {}
    BY DEF Init
  <2>. QED
    BY <2>1, FS_EmptySet DEF Init
<1>2. TypeOK /\ SafetyInv /\ RollbackAudited /\ [Next]_vars => RollbackAudited'
  <2> SUFFICES ASSUME TypeOK, SafetyInv, RollbackAudited, [Next]_vars PROVE RollbackAudited'
    OBVIOUS
  <2> USE DEF dbVars, lockVars, redisVars, reqVars, scanVars, bounds
  <2>1. ASSUME NEW r \in Requests, RequestStep(r) PROVE RollbackAudited'
    <3>1. CASE CommitHold(r)
      <4>1. \A row \in Rows : row[1] = r => status[row] = "NONE"
        BY <3>1 DEF CommitHold, SafetyInv, ProgressInv, RowsOf
      <4>. QED
        BY <3>1, <4>1, AuditKept DEF CommitHold
    <3>2. CASE ~CommitHold(r)
      BY <2>1, <3>2, AuditKept DEF RequestStep, Reject, BeginReserve, DecrementStock,
         NoteUnavailable, RefuseInvoice, StoreInvoice
    <3>. QED
      BY <3>1, <3>2
  <2>2. ASSUME NEW s \in Schedulers, SchedulerStep(s) PROVE RollbackAudited'
    <3>1. CASE CommitRollback(s)
      BY <3>1, AuditCommitted
    <3>2. CASE ~CommitRollback(s)
      BY <2>2, <3>2, AuditKept
      DEF SchedulerStep, BeginScan, SelectExpired, ReleaseRow, RestockItem
    <3>. QED
      BY <3>1, <3>2
  <2>3. ASSUME NEW p \in Payers, PayerStep(p) PROVE RollbackAudited'
    <3>1. CASE CommitPaid(p)
      <4>1. \A row \in Rows : rowLock[row] = p => status[row] = "HELD"
        BY ProcsAssumption DEF SafetyInv, RowLockInv, Procs
      <4>. QED
        BY <3>1, <4>1, AuditKept DEF CommitPaid
    <3>2. CASE ~CommitPaid(p)
      BY <2>3, <3>2, AuditKept DEF PayerStep, MarkReservedPaid
    <3>. QED
      BY <3>1, <3>2
  <2>4. CASE \/ \E p \in Requests \union Schedulers :
                  RefreshStep(p) \/ DeadlockVictim(p) \/ RedisFailure(p)
             \/ \E p \in Payers : CrashPayer(p)
             \/ \E i \in Items : ExpireCacheItem(i)
             \/ CrashService \/ Tick \/ UNCHANGED vars
    BY <2>4, AuditKept
    DEF RefreshStep, ReadForCache, SetCacheItem, DeadlockVictim, RedisFailure,
        CrashPayer, CrashService, Abort, ExpireCacheItem, Tick, vars
  <2>. QED
    BY <2>1, <2>2, <2>3, <2>4 DEF Next
<1>. QED
  BY <1>1, <1>2, SafetyInvariant, PTL DEF Spec
-----------------------------------------------------------------------------

(* The instance of the ledger counts rows and units as the service does.   *)
LEMMA LedgerNames ==
  /\ \A S, i : Ledger!Quantity(S, i) = Quantity(S, i)
  /\ \A r : Ledger!RowsOf(r) = RowsOf(r)
  /\ \A R : Ledger!RowsIn(R) = RowsIn(R)
<1>1. Ledger!Rows = Rows
  BY DEF Rows, Ledger!Rows
<1>2. \A S, i : Ledger!UnitsOf(S, i) = UnitsOf(S, i)
  BY DEF UnitsOf, ItemOf, QtyOf, Ledger!UnitsOf, Ledger!ItemOf, Ledger!QtyOf
<1>3. \A S, i : Ledger!Quantity(S, i) = Quantity(S, i)
  BY <1>2, Zenon DEF Quantity, Ledger!Quantity, Cardinality, Ledger!Cardinality
<1>. QED
  BY <1>1, <1>3 DEF RowsOf, RowsIn, Ledger!RowsOf, Ledger!RowsIn

(* The first row of an invoice with lines speaks for all of them.          *)
LEMMA FirstRow ==
  ASSUME NEW r \in Requests, Lines[r] # <<>>
  PROVE  <<r, 1>> \in RowsOf(r)
<1>1. Len(Lines[r]) \in Nat /\ Len(Lines[r]) # 0 /\ Len(Lines[r]) <= MaxLines /\ MaxLines \in Nat
  BY LinesAssumption
<1>. QED
  BY <1>1 DEF RowsOf, Rows

LEMMA NoRows ==
  ASSUME NEW r \in Requests, Lines[r] = <<>>
  PROVE  RowsOf(r) = {}
BY RowType DEF RowsOf

(* Rows that do not change leave the ledger's view of a request alone.     *)
LEMMA SameHold ==
  ASSUME NEW r \in Requests, \A row \in RowsOf(r) : status'[row] = status[row]
  PROVE  HoldStateOf(r)' = HoldStateOf(r)
BY FirstRow DEF HoldStateOf

(* A committed reserve() is a Grant.                                       *)
LEMMA HoldIsGrant ==
  ASSUME TypeOK, IInv, NEW r \in Requests, CommitHold(r)
  PROVE  Ledger!Grant(r) \/ UNCHANGED Ledger!ledgerVars
<1>1. \A i \in Items : delta[r][i] = Quantity(RowsOf(r), i)
  BY HoldTakesAll DEF IInv, AccountInv
<1>2. /\ stock' = [i \in Items |-> stock[i] - delta[r][i]]
      /\ \A row \in Rows : status'[row] = IF row[1] = r THEN "HELD" ELSE status[row]
      /\ \A row \in RowsOf(r) : status[row] = "NONE"
  BY DEF CommitHold, IInv, SafetyInv, ProgressInv
<1>3. \A q \in Requests : q # r => HoldStateOf(q)' = HoldStateOf(q)
  <2>1. \A q \in Requests : q # r => \A row \in RowsOf(q) : status'[row] = status[row]
    BY <1>2 DEF RowsOf
  <2>. QED
    BY <2>1, SameHold
<1>4. CASE Lines[r] = <<>>
  <2>1. \A i \in Items : delta[r][i] = 0
    BY <1>1, <1>4, NoRows, QuantityEmpty
  <2>2. stock' = stock
    BY <1>2, <2>1 DEF TypeOK, DbType
  <2>3. HoldStateOf(r)' = HoldStateOf(r)
    BY <1>4 DEF HoldStateOf
  <2>. QED
    BY <1>3, <2>2, <2>3 DEF Ledger!ledgerVars
<1>5. CASE Lines[r] # <<>>
  <2>1. <<r, 1>> \in Rows /\ <<r, 1>> \in RowsOf(r)
    BY <1>5, FirstRow DEF RowsOf
  <2>2. HoldStateOf(r) = "none" /\ HoldStateOf(r)' = "held"
    BY <1>2, <1>5, <2>1 DEF HoldStateOf
  <2>3. \A i \in Items : Quantity(RowsOf(r), i) <= stock[i]
    BY <1>1 DEF IInv, SafetyInv, EscrowInv
  <2>4. stock' = [i \in Items |-> stock[i] - Quantity(RowsOf(r), i)]
    BY <1>1, <1>2
  <2>5. [q \in Requests |-> HoldStateOf(q)]' =
          [[q \in Requests |-> HoldStateOf(q)] EXCEPT ![r] = "held"]
    BY <1>3, <2>2
  <2>. QED
    BY <2>2, <2>3, <2>4, <2>5, LedgerNames DEF Ledger!Grant
<1>. QED
  BY <1>4, <1>5

(* A committed rollback is a Release of whole requests.                    *)
LEMMA RollbackIsRelease ==
  ASSUME TypeOK, IInv, NEW s \in Schedulers, CommitRollback(s)
  PROVE  \E R \in SUBSET Requests : Ledger!Release(R)
<1> DEFINE R == {r \in Requests : \E row \in released[s] : row[1] = r}
<1>1. /\ stock' = [i \in Items |-> stock[i] + delta[s][i]]
      /\ \A row \in Rows : status'[row] = IF row \in released[s] THEN "RELEASED" ELSE status[row]
      /\ released[s] \in SUBSET Rows
      /\ pc[s] = "scan" /\ todo[s] = {}
  BY DEF CommitRollback, TypeOK, LocalType
<1>2. \A row \in Rows : row \in released[s] <=> rowLock[row] = s
  BY <1>1 DEF IInv, SafetyInv, RowLockInv, Selected
<1>3. \A row \in released[s] : status[row] = "HELD"
  BY <1>1, <1>2, ProcsAssumption DEF IInv, SafetyInv, RowLockInv, Procs
<1>4. RowsIn(R) = released[s]
  <2>1. \A r \in Requests : \A row1, row2 \in RowsOf(r) :
          row1 \in released[s] => row2 \in released[s]
    BY <1>2 DEF IInv, SafetyInv, RowLockInv, RowsOf
  <2>2. \A row \in Rows : row \in RowsOf(row[1]) /\ row[1] \in Requests
    BY RowType DEF RowsOf
  <2>. QED
    BY <1>1, <2>1, <2>2 DEF RowsIn
<1>5. \A i \in Items : delta[s][i] = Quantity(released[s], i)
  BY <1>1 DEF IInv, AccountInv, SchedulerAccount, RestoredRows
<1>6. ASSUME NEW r \in R PROVE HoldStateOf(r) = "held" /\ HoldStateOf(r)' = "released"
  <2>1. Lines[r] # <<>>
    BY <1>1, NoRows DEF RowsOf
  <2>2. <<r, 1>> \in RowsOf(r) /\ <<r, 1>> \in Rows
    BY <2>1, FirstRow DEF RowsOf
  <2>3. <<r, 1>> \in released[s]
    BY <1>4, <2>2 DEF RowsIn
  <2>. QED
    BY <1>1, <1>3, <2>1, <2>2, <2>3 DEF HoldStateOf
<1>7. ASSUME NEW r \in Requests \ R PROVE HoldStateOf(r)' = HoldStateOf(r)
  <2>1. \A row \in RowsOf(r) : status'[row] = status[row]
    BY <1>1 DEF RowsOf
  <2>. QED
    BY <2>1, SameHold
<1>8. stock' = [i \in Items |-> stock[i] + Quantity(RowsIn(R), i)]
  BY <1>1, <1>4, <1>5
<1>9. R \in SUBSET Requests
  OBVIOUS
<1>10. Ledger!Release(R)
  <2> HIDE DEF R
  <2>1. [r \in Requests |-> HoldStateOf(r)]' =
          [r \in Requests |-> IF r \in R THEN "released"
                              ELSE [q \in Requests |-> HoldStateOf(q)][r]]
    BY <1>6, <1>7, <1>9
  <2>2. \A r \in R : [q \in Requests |-> HoldStateOf(q)][r] = "held"
    BY <1>6, <1>9
  <2>. QED
    BY <1>8, <2>1, <2>2, LedgerNames DEF Ledger!Release
<1>. QED
  BY <1>9, <1>10

(* A committed mark_reserved_paid is a Settle of one invoice.              *)
LEMMA PaidIsSettle ==
  ASSUME TypeOK, IInv, NEW p \in Payers, CommitPaid(p)
  PROVE  \/ \E inv \in Invoices, R \in SUBSET Requests : Ledger!Settle(inv, R)
         \/ UNCHANGED Ledger!ledgerVars
<1> DEFINE R == {r \in Requests : \E row \in RowsOf(r) : rowLock[row] = p}
<1>1. /\ UNCHANGED stock
      /\ \A row \in Rows : status'[row] = IF rowLock[row] = p THEN "PAID" ELSE status[row]
  BY DEF CommitPaid
<1>2. \A row \in Rows : rowLock[row] = p => status[row] = "HELD"
  BY ProcsAssumption DEF IInv, SafetyInv, RowLockInv, Procs
<1>3. ASSUME NEW r \in R PROVE HoldStateOf(r) = "held" /\ HoldStateOf(r)' = "paid"
  <2>1. Lines[r] # <<>>
    BY NoRows
  <2>2. <<r, 1>> \in RowsOf(r) /\ <<r, 1>> \in Rows
    BY <2>1, FirstRow DEF RowsOf
  <2>3. rowLock[<<r, 1>>] = p
    BY <2>2 DEF IInv, SafetyInv, RowLockInv
  <2>. QED
    BY <1>1, <1>2, <2>1, <2>2, <2>3 DEF HoldStateOf
<1>4. ASSUME NEW r \in Requests \ R PROVE HoldStateOf(r)' = HoldStateOf(r)
  <2>1. \A row \in RowsOf(r) : status'[row] = status[row]
    BY <1>1 DEF RowsOf
  <2>. QED
    BY <2>1, SameHold
<1>5. CASE R = {}
  <2>1. \A r \in Requests : HoldStateOf(r)' = HoldStateOf(r)
    BY <1>4, <1>5
  <2>. QED
    BY <1>1, <2>1 DEF Ledger!ledgerVars
<1>6. CASE R # {}
  <2>1. PICK x \in R : TRUE
    BY <1>6
  <2>2. \A r \in R : InvoiceOf[r] = InvoiceOf[x]
    <3>1. \A r \in R : \E row \in Rows : row[1] = r /\ rowLock[row] = p
      BY DEF RowsOf
    <3>. QED
      BY <2>1, <3>1 DEF IInv, PayerInv
  <2>3. InvoiceOf[x] \in Invoices /\ R \in SUBSET Requests
    BY LinesAssumption
  <2>4. Ledger!Settle(InvoiceOf[x], R)
    <3> HIDE DEF R
    <3>1. [r \in Requests |-> HoldStateOf(r)]' =
            [r \in Requests |-> IF r \in R THEN "paid"
                                ELSE [q \in Requests |-> HoldStateOf(q)][r]]
      BY <1>3, <1>4, <2>3
    <3>2. \A r \in R : [q \in Requests |-> HoldStateOf(q)][r] = "held"
      BY <1>3, <2>3
    <3>. QED
      BY <1>1, <2>2, <3>1, <3>2 DEF Ledger!Settle
  <2>. QED
    BY <2>3, <2>4
<1>. QED
  BY <1>5, <1>6

(* The detailed transactions implement the one-step ledger.                *)
THEOREM LedgerRefinement == Spec => ImplementsLedger
<1> USE DEF dbVars, lockVars, redisVars, reqVars, scanVars, bounds
<1>1. Init => Ledger!LedgerInit
  <2> SUFFICES ASSUME Init PROVE Ledger!LedgerInit
    OBVIOUS
  <2>1. \A r \in Requests : HoldStateOf(r) = "none"
    BY FirstRow DEF Init, HoldStateOf, RowsOf
  <2>. QED
    BY <2>1 DEF Init, Ledger!LedgerInit
<1>2. TypeOK /\ IInv /\ [Next]_vars => [Ledger!LedgerNext]_(Ledger!ledgerVars)
  <2> SUFFICES ASSUME TypeOK, IInv, [Next]_vars
               PROVE  Ledger!LedgerNext \/ UNCHANGED Ledger!ledgerVars
    OBVIOUS
  <2>1. CASE UNCHANGED <<stock, status>>
    <3>1. \A r \in Requests : HoldStateOf(r)' = HoldStateOf(r)
      BY <2>1 DEF HoldStateOf
    <3>. QED
      BY <2>1, <3>1 DEF Ledger!ledgerVars
  <2>2. ASSUME NEW r \in Requests, RequestStep(r)
        PROVE  Ledger!LedgerNext \/ UNCHANGED Ledger!ledgerVars
    <3>1. CASE CommitHold(r)
      BY <3>1, HoldIsGrant DEF Ledger!LedgerNext
    <3>2. CASE ~CommitHold(r)
      BY <2>1, <2>2, <3>2 DEF RequestStep, Reject, BeginReserve, DecrementStock,
         NoteUnavailable, RefuseInvoice, StoreInvoice
    <3>. QED
      BY <3>1, <3>2
  <2>3. ASSUME NEW s \in Schedulers, SchedulerStep(s)
        PROVE  Ledger!LedgerNext \/ UNCHANGED Ledger!ledgerVars
    <3>1. CASE CommitRollback(s)
      BY <3>1, RollbackIsRelease DEF Ledger!LedgerNext
    <3>2. CASE ~CommitRollback(s)
      BY <2>1, <2>3, <3>2 DEF SchedulerStep, BeginScan, SelectExpired, ReleaseRow, RestockItem
    <3>. QED
      BY <3>1, <3>2
  <2>4. ASSUME NEW p \in Payers, PayerStep(p)
        PROVE  Ledger!LedgerNext \/ UNCHANGED Ledger!ledgerVars
    <3>1. CASE CommitPaid(p)
      BY <3>1, PaidIsSettle DEF Ledger!LedgerNext
    <3>2. CASE ~CommitPaid(p)
      BY <2>1, <2>4, <3>2 DEF PayerStep, MarkReservedPaid
    <3>. QED
      BY <3>1, <3>2
  <2>5. CASE \/ \E p \in Requests \union Schedulers :
                  RefreshStep(p) \/ DeadlockVictim(p) \/ RedisFailure(p)
             \/ \E p \in Payers : CrashPayer(p)
             \/ \E i \in Items : ExpireCacheItem(i)
             \/ CrashService \/ Tick \/ UNCHANGED vars
    BY <2>1, <2>5 DEF RefreshStep, ReadForCache, SetCacheItem, DeadlockVictim, RedisFailure,
       CrashPayer, CrashService, Abort, ExpireCacheItem, Tick, vars
  <2>. QED
    BY <2>2, <2>3, <2>4, <2>5 DEF Next
<1>. QED
  BY <1>1, <1>2, InductiveInvariant, TypeCorrect, PTL DEF Spec, ImplementsLedger, Ledger!LedgerSpec
=============================================================================
