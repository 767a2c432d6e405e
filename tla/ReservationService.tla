------------------------ MODULE ReservationService ------------------------
(***************************************************************************)
(* services/reservation_service: stock holds taken, expired and paid by    *)
(* concurrent Postgres transactions (READ COMMITTED), with the Redis       *)
(* writes that follow a commit.                                            *)
(*                                                                         *)
(* A process is a request handler (reserve), a rollback scheduler          *)
(* (rollback_expired_holds) or a payment-log consumer                      *)
(* (mark_reserved_paid).  One action is one SQL statement or one Redis     *)
(* call: between two awaits any other process may run.  A statement that   *)
(* touches several reserved_items rows locks them together.                *)
(***************************************************************************)
EXTENDS ReservationData

CONSTANTS
  Schedulers,   \* RollbackScheduler tasks, one per running instance
  Payers,       \* payment-log consumers calling mark_reserved_paid
  NoProc,       \* owner of a free row lock
  NoValue,      \* a key that is absent from Redis
  Ttl,          \* reservation_ttl_seconds, in clock ticks
  MaxTime,      \* bound on the clock
  MaxMarks,     \* bound on calls of mark_reserved_paid
  MaxFaults     \* bound on crashes and Redis failures

Procs == Requests \union Schedulers \union Payers

ASSUME ProcsAssumption ==
  /\ Requests \cap Schedulers = {}
  /\ Requests \cap Payers = {}
  /\ Schedulers \cap Payers = {}
  /\ NoProc \notin Procs
  /\ NoValue \notin Int

ASSUME BoundsAssumption ==
  /\ Ttl \in Nat /\ MaxTime \in Nat /\ MaxMarks \in Nat /\ MaxFaults \in Nat

VARIABLES
  clock,
  \* Postgres, committed
  stock,       \* items.quantity_available
  status,      \* reserved_items.status, "NONE" before the row exists
  expiresAt,   \* reserved_items.expires_at, one value per request
  audit,       \* released_rows reported by RESERVATION_EXPIRED_ROLLED_BACK
  \* Postgres, open transactions
  itemLock,    \* owner of the lock on each items row
  rowLock,     \* owner of the lock on each reserved_items row
  delta,       \* quantity a transaction has taken from / returned to an item
  \* Redis
  cache,       \* catalog:item:{id}, the quantity it shows
  stored,      \* invoice:{id}, the time the key lives to
  \* local state of the handlers
  pc,
  line,        \* reserve: index of the line to update next
  short,       \* reserve: unavailable_items
  scanNow,     \* rollback: now
  todo,        \* rollback: expired_rows still to visit
  cur,         \* rollback: row whose units are being put back
  released,    \* rollback: rows this transaction has released
  copy,        \* _refresh_catalog_cache: quantities read, not yet SET
  marks, faults

dbVars    == <<stock, status, expiresAt, audit>>
lockVars  == <<itemLock, rowLock, delta>>
redisVars == <<cache, stored>>
reqVars   == <<line, short>>
scanVars  == <<scanNow, todo, cur, released>>
bounds    == <<marks, faults>>
vars == <<clock, dbVars, lockVars, redisVars, pc, reqVars, scanVars, copy, bounds>>

Status == {"NONE", "HELD", "RELEASED", "PAID"}

RequestPc   == {"new", "reserve", "refresh", "publish", "store",
                "ok", "unavailable", "failed"}
SchedulerPc == {"sleep", "select", "scan", "restock", "refresh", "publish"}
PayerPc     == {"idle", "mark"}

Answered == {"ok", "unavailable", "failed"}

NoDelta == [i \in Items |-> 0]
NoCopy  == [i \in Items |-> NoValue]

Init ==
  /\ clock = 0
  /\ stock = InitialStock
  /\ status = [row \in Rows |-> "NONE"]
  /\ expiresAt = [r \in Requests |-> 0]
  /\ audit = [inv \in Invoices |-> 0]
  /\ itemLock = [i \in Items |-> NoProc]
  /\ rowLock = [row \in Rows |-> NoProc]
  /\ delta = [p \in Procs |-> NoDelta]
  /\ cache = NoCopy
  /\ stored = [inv \in Invoices |-> 0]
  /\ pc = [p \in Procs |-> IF p \in Requests THEN "new"
                           ELSE IF p \in Schedulers THEN "sleep" ELSE "idle"]
  /\ line = [r \in Requests |-> 1]
  /\ short = [r \in Requests |-> {}]
  /\ scanNow = [s \in Schedulers |-> 0]
  /\ todo = [s \in Schedulers |-> {}]
  /\ cur = [s \in Schedulers |-> NoValue]
  /\ released = [s \in Schedulers |-> {}]
  /\ copy = [p \in Procs |-> NoCopy]
  /\ marks = 0
  /\ faults = 0
-----------------------------------------------------------------------------
(* Ending a transaction, by COMMIT or ROLLBACK, frees its locks.           *)
FreeItems(P) == [i \in Items |-> IF itemLock[i] \in P THEN NoProc ELSE itemLock[i]]
FreeRows(P)  == [row \in Rows |-> IF rowLock[row] \in P THEN NoProc ELSE rowLock[row]]

EndTx(P) ==
  /\ itemLock' = FreeItems(P)
  /\ rowLock' = FreeRows(P)
  /\ delta' = [p \in Procs |-> IF p \in P THEN NoDelta ELSE delta[p]]

(* Local variables that are not read again return to their initial value.  *)
ForgetLines(P) ==
  /\ line' = [r \in Requests |-> IF r \in P THEN 1 ELSE line[r]]
  /\ short' = [r \in Requests |-> IF r \in P THEN {} ELSE short[r]]

ForgetScan(P) ==
  /\ todo' = [s \in Schedulers |-> IF s \in P THEN {} ELSE todo[s]]
  /\ cur' = [s \in Schedulers |-> IF s \in P THEN NoValue ELSE cur[s]]
  /\ scanNow' = [s \in Schedulers |-> IF s \in P THEN 0 ELSE scanNow[s]]

(* What p's own transaction reads: the committed quantity and its changes. *)
Visible(r, i) == stock[i] - delta[r][i]

LinePending(r) == pc[r] = "reserve" /\ line[r] <= Len(Lines[r])
LineRow(r)     == <<r, line[r]>>

(* reserve(): an invoice without lines is a ValueError before any SQL.     *)
Reject(r) ==
  /\ pc[r] = "new"
  /\ Lines[r] = <<>>
  /\ pc' = [pc EXCEPT ![r] = "failed"]
  /\ UNCHANGED <<clock, dbVars, lockVars, redisVars, reqVars, scanVars, copy, bounds>>

(* expires_at is fixed before the transaction opens.                       *)
BeginReserve(r) ==
  /\ pc[r] = "new"
  /\ Lines[r] # <<>>
  /\ clock + Ttl <= MaxTime   \* bound: the clock can reach the expiry
  /\ expiresAt' = [expiresAt EXCEPT ![r] = clock + Ttl]
  /\ pc' = [pc EXCEPT ![r] = "reserve"]
  /\ UNCHANGED <<clock, stock, status, audit, lockVars, redisVars, reqVars,
                 scanVars, copy, bounds>>

(* Mutant: the UPDATE has no quantity_available >= qty condition.          *)
MutDecrementUnchecked(r) ==
  LET i == ItemOf(LineRow(r))
  IN  /\ LinePending(r)
      /\ itemLock[i] \in {r, NoProc}
      /\ itemLock' = [itemLock EXCEPT ![i] = r]
      /\ delta' = [delta EXCEPT ![r][i] = @ + QtyOf(LineRow(r))]
      /\ line' = [line EXCEPT ![r] = @ + 1]
      /\ UNCHANGED <<clock, dbVars, rowLock, redisVars, pc, short, scanVars,
                     copy, bounds>>

(* UPDATE items ... WHERE quantity_available >= qty matched the row.  It   *)
(* waits while another transaction owns the row, then looks again.         *)
DecrementStock(r) ==
  LET i == ItemOf(LineRow(r))
  IN  /\ LinePending(r)
      /\ Visible(r, i) >= QtyOf(LineRow(r))
      /\ itemLock[i] \in {r, NoProc}
      /\ itemLock' = [itemLock EXCEPT ![i] = r]
      /\ delta' = [delta EXCEPT ![r][i] = @ + QtyOf(LineRow(r))]
      /\ line' = [line EXCEPT ![r] = @ + 1]
      /\ UNCHANGED <<clock, dbVars, rowLock, redisVars, pc, short, scanVars,
                     copy, bounds>>

(* Mutant: the line is tried again, inside the transaction, until there is *)
(* stock for it.                                                           *)
MutRetryUnavailable(r) ==
  /\ LinePending(r)
  /\ Visible(r, ItemOf(LineRow(r))) < QtyOf(LineRow(r))
  /\ UNCHANGED vars

(* The UPDATE matched no row: the line is noted and the loop goes on.  A   *)
(* row that does not match is neither locked nor waited for.               *)
NoteUnavailable(r) ==
  /\ LinePending(r)
  /\ Visible(r, ItemOf(LineRow(r))) < QtyOf(LineRow(r))
  /\ short' = [short EXCEPT ![r] = @ \union {line[r]}]
  /\ line' = [line EXCEPT ![r] = @ + 1]
  /\ UNCHANGED <<clock, dbVars, lockVars, redisVars, pc, scanVars, copy, bounds>>

(* Mutant: a partial hold is committed although the caller is refused.     *)
MutRefuseKeepsRows(r) ==
  /\ pc[r] = "reserve"
  /\ line[r] > Len(Lines[r])
  /\ short[r] # {}
  /\ stock' = [i \in Items |-> stock[i] - delta[r][i]]
  /\ status' = [row \in Rows |->
                  IF row[1] = r /\ row[2] \notin short[r] THEN "HELD" ELSE status[row]]
  /\ EndTx({r})
  /\ ForgetLines({r})
  /\ pc' = [pc EXCEPT ![r] = "unavailable"]
  /\ UNCHANGED <<clock, expiresAt, audit, redisVars, scanVars, copy, bounds>>

(* Mutant: the refusal is returned from inside the transaction, which then *)
(* commits what the lines before have taken.                               *)
MutRefuseCommits(r) ==
  /\ pc[r] = "reserve"
  /\ line[r] > Len(Lines[r])
  /\ short[r] # {}
  /\ stock' = [i \in Items |-> stock[i] - delta[r][i]]
  /\ EndTx({r})
  /\ ForgetLines({r})
  /\ pc' = [pc EXCEPT ![r] = "unavailable"]
  /\ UNCHANGED <<clock, status, expiresAt, audit, redisVars, scanVars, copy, bounds>>

(* _InsufficientStockError: the whole transaction is rolled back.          *)
RefuseInvoice(r) ==
  /\ pc[r] = "reserve"
  /\ line[r] > Len(Lines[r])
  /\ short[r] # {}
  /\ EndTx({r})
  /\ ForgetLines({r})
  /\ pc' = [pc EXCEPT ![r] = "unavailable"]
  /\ UNCHANGED <<clock, dbVars, redisVars, scanVars, copy, bounds>>

(* _insert_held_rows and the commit of the transaction.                    *)
CommitHold(r) ==
  /\ pc[r] = "reserve"
  /\ line[r] > Len(Lines[r])
  /\ short[r] = {}
  /\ stock' = [i \in Items |-> stock[i] - delta[r][i]]
  /\ status' = [row \in Rows |-> IF row[1] = r THEN "HELD" ELSE status[row]]
  /\ EndTx({r})
  /\ ForgetLines({r})
  /\ pc' = [pc EXCEPT ![r] = "refresh"]
  /\ UNCHANGED <<clock, expiresAt, audit, redisVars, scanVars, copy, bounds>>

(* Mutant: the payload is stored for less than the TTL of the hold.        *)
MutStoreShorter(r) ==
  /\ pc[r] = "store"
  /\ stored' = [stored EXCEPT ![InvoiceOf[r]] = clock + Ttl - 1]
  /\ pc' = [pc EXCEPT ![r] = "ok"]
  /\ UNCHANGED <<clock, dbVars, lockVars, cache, reqVars, scanVars, copy, bounds>>

(* InvoiceStore.store_invoice, the last step before the answer.            *)
StoreInvoice(r) ==
  /\ pc[r] = "store"
  /\ stored' = [stored EXCEPT ![InvoiceOf[r]] = clock + Ttl]
  /\ pc' = [pc EXCEPT ![r] = "ok"]
  /\ UNCHANGED <<clock, dbVars, lockVars, cache, reqVars, scanVars, copy, bounds>>
-----------------------------------------------------------------------------
(* _refresh_catalog_cache, after the commit of a reserve or a rollback: a  *)
(* SELECT in a new session, then one SET per item.                         *)
Touched(p) == {ItemOf(row) : row \in IF p \in Requests THEN RowsOf(p) ELSE released[p]}

ReadForCache(p) ==
  /\ p \in Requests \union Schedulers
  /\ pc[p] = "refresh"
  /\ copy' = [copy EXCEPT ![p] =
                [i \in Items |-> IF i \in Touched(p) THEN stock[i] ELSE NoValue]]
  /\ released' = [s \in Schedulers |-> IF s = p THEN {} ELSE released[s]]
  /\ pc' = [pc EXCEPT ![p] = "publish"]
  /\ UNCHANGED <<clock, dbVars, lockVars, redisVars, reqVars, scanNow, todo, cur, bounds>>

SetCacheItem(p, i) ==
  /\ pc[p] = "publish"
  /\ copy[p][i] # NoValue
  /\ cache' = [cache EXCEPT ![i] = copy[p][i]]
  /\ copy' = [copy EXCEPT ![p][i] = NoValue]
  /\ pc' = [pc EXCEPT ![p] =
              IF \E j \in Items \ {i} : copy[p][j] # NoValue THEN "publish"
              ELSE IF p \in Requests THEN "store" ELSE "sleep"]
  /\ UNCHANGED <<clock, dbVars, lockVars, stored, reqVars, scanVars, bounds>>

(* Mutant: catalog:item is SET without an expiry.                          *)
MutExpireNever(i) == FALSE /\ UNCHANGED vars

(* Redis drops a catalog:item key catalog_cache_ttl_seconds after its SET. *)
ExpireCacheItem(i) ==
  /\ cache[i] # NoValue
  /\ cache' = [cache EXCEPT ![i] = NoValue]
  /\ UNCHANGED <<clock, dbVars, lockVars, stored, pc, reqVars, scanVars, copy, bounds>>
-----------------------------------------------------------------------------
(* Mutant: now is read once, when the scheduler starts.                    *)
MutScanNowFixed(s) ==
  /\ pc[s] = "sleep"
  /\ pc' = [pc EXCEPT ![s] = "select"]
  /\ UNCHANGED <<clock, dbVars, lockVars, redisVars, reqVars, scanVars, copy, bounds>>

(* rollback_expired_holds(): now is read before the session opens.         *)
BeginScan(s) ==
  /\ pc[s] = "sleep"
  /\ scanNow' = [scanNow EXCEPT ![s] = clock]
  /\ pc' = [pc EXCEPT ![s] = "select"]
  /\ UNCHANGED <<clock, dbVars, lockVars, redisVars, reqVars, todo, cur, released, copy, bounds>>

(* Mutant: a hold is taken for expired one tick too soon.                  *)
MutExpiredEarly(s) ==
  {row \in Rows : status[row] = "HELD" /\ expiresAt[row[1]] <= scanNow[s] + 1}

Expired(s) == {row \in Rows : status[row] = "HELD" /\ expiresAt[row[1]] <= scanNow[s]}

(* Mutant: the SELECT has no FOR UPDATE.                                   *)
MutSelectUnlocked(s) ==
  /\ pc[s] = "select"
  /\ todo' = [todo EXCEPT ![s] = Expired(s)]
  /\ pc' = [pc EXCEPT ![s] = "scan"]
  /\ UNCHANGED <<clock, dbVars, lockVars, redisVars, reqVars, scanNow, cur,
                 released, copy, bounds>>

(* SELECT ... FOR UPDATE waits for rows that another transaction owns.     *)
SelectExpired(s) ==
  /\ pc[s] = "select"
  /\ \A row \in Expired(s) : rowLock[row] = NoProc
  /\ todo' = [todo EXCEPT ![s] = Expired(s)]
  /\ rowLock' = [row \in Rows |-> IF row \in Expired(s) THEN s ELSE rowLock[row]]
  /\ pc' = [pc EXCEPT ![s] = "scan"]
  /\ UNCHANGED <<clock, dbVars, itemLock, delta, redisVars, reqVars, scanNow, cur,
                 released, copy, bounds>>

(* UPDATE reserved_items SET status = RELEASED WHERE status = HELD; a row  *)
(* that is not HELD any more (rowcount 0) is skipped.                      *)
ReleaseRow(s, row) ==
  /\ pc[s] = "scan"
  /\ row \in todo[s]
  /\ todo' = [todo EXCEPT ![s] = @ \ {row}]
  /\ IF status[row] = "HELD"
       THEN /\ cur' = [cur EXCEPT ![s] = row]
            /\ released' = [released EXCEPT ![s] = @ \union {row}]
            /\ pc' = [pc EXCEPT ![s] = "restock"]
       ELSE UNCHANGED <<cur, released, pc>>
  /\ UNCHANGED <<clock, dbVars, lockVars, redisVars, reqVars, scanNow, copy, bounds>>

(* Mutant: the units are taken from the item again.                        *)
MutRestockNegative(s) ==
  LET i == ItemOf(cur[s])
  IN  /\ pc[s] = "restock"
      /\ itemLock[i] \in {s, NoProc}
      /\ itemLock' = [itemLock EXCEPT ![i] = s]
      /\ delta' = [delta EXCEPT ![s][i] = @ - QtyOf(cur[s])]
      /\ pc' = [pc EXCEPT ![s] = "scan"]
      /\ UNCHANGED <<clock, dbVars, rowLock, redisVars, reqVars, scanVars, copy, bounds>>

(* Mutant: the quantity is read and written back without a row lock.       *)
MutRestockUnlocked(s) ==
  /\ pc[s] = "restock"
  /\ delta' = [delta EXCEPT ![s][ItemOf(cur[s])] = @ + QtyOf(cur[s])]
  /\ pc' = [pc EXCEPT ![s] = "scan"]
  /\ UNCHANGED <<clock, dbVars, itemLock, rowLock, redisVars, reqVars, scanVars, copy, bounds>>

(* UPDATE items SET quantity_available = quantity_available + reserved_qty *)
RestockItem(s) ==
  LET i == ItemOf(cur[s])
  IN  /\ pc[s] = "restock"
      /\ itemLock[i] \in {s, NoProc}
      /\ itemLock' = [itemLock EXCEPT ![i] = s]
      /\ delta' = [delta EXCEPT ![s][i] = @ + QtyOf(cur[s])]
      /\ pc' = [pc EXCEPT ![s] = "scan"]
      /\ UNCHANGED <<clock, dbVars, rowLock, redisVars, reqVars, scanVars, copy, bounds>>

ReleasedOf(s, inv) == {row \in released[s] : InvoiceOf[row[1]] = inv}

(* Mutant: the audit row counts invoices, not the rows released.           *)
MutAuditOnePerInvoice(s) ==
  /\ pc[s] = "scan"
  /\ todo[s] = {}
  /\ stock' = [i \in Items |-> stock[i] + delta[s][i]]
  /\ status' = [row \in Rows |-> IF row \in released[s] THEN "RELEASED" ELSE status[row]]
  /\ audit' = [inv \in Invoices |->
                 audit[inv] + IF ReleasedOf(s, inv) = {} THEN 0 ELSE 1]
  /\ EndTx({s})
  /\ ForgetScan({s})
  /\ pc' = [pc EXCEPT ![s] = IF released[s] = {} THEN "sleep" ELSE "refresh"]
  /\ UNCHANGED <<clock, expiresAt, redisVars, reqVars, released, copy, bounds>>

(* The audit rows of the invoices and the commit.                          *)
CommitRollback(s) ==
  /\ pc[s] = "scan"
  /\ todo[s] = {}
  /\ stock' = [i \in Items |-> stock[i] + delta[s][i]]
  /\ status' = [row \in Rows |-> IF row \in released[s] THEN "RELEASED" ELSE status[row]]
  /\ audit' = [inv \in Invoices |-> audit[inv] + Cardinality(ReleasedOf(s, inv))]
  /\ EndTx({s})
  /\ ForgetScan({s})
  /\ pc' = [pc EXCEPT ![s] = IF released[s] = {} THEN "sleep" ELSE "refresh"]
  /\ UNCHANGED <<clock, expiresAt, redisVars, reqVars, released, copy, bounds>>
-----------------------------------------------------------------------------
(* Mutants: the UPDATE reaches the first line only, or rows not HELD.      *)
MutHeldFirstLine(inv) ==
  {row \in Rows : InvoiceOf[row[1]] = inv /\ status[row] = "HELD" /\ row[2] = 1}
MutHeldAnyStatus(inv) ==
  {row \in Rows : InvoiceOf[row[1]] = inv /\ status[row] # "NONE"}

(* mark_reserved_paid(): one UPDATE over the HELD rows of an invoice ...   *)
HeldRows(inv) == {row \in Rows : InvoiceOf[row[1]] = inv /\ status[row] = "HELD"}

(* Mutant: the UPDATE does not wait for a scan that has the rows.          *)
MutMarkNoWait(p, inv) ==
  /\ pc[p] = "idle"
  /\ marks < MaxMarks
  /\ rowLock' = [row \in Rows |-> IF row \in HeldRows(inv) THEN p ELSE rowLock[row]]
  /\ marks' = marks + 1
  /\ pc' = [pc EXCEPT ![p] = "mark"]
  /\ UNCHANGED <<clock, dbVars, itemLock, delta, redisVars, reqVars, scanVars, copy, faults>>

MarkReservedPaid(p, inv) ==
  /\ pc[p] = "idle"
  /\ marks < MaxMarks
  /\ \A row \in HeldRows(inv) : rowLock[row] = NoProc
  /\ rowLock' = [row \in Rows |-> IF row \in HeldRows(inv) THEN p ELSE rowLock[row]]
  /\ marks' = marks + 1
  /\ pc' = [pc EXCEPT ![p] = "mark"]
  /\ UNCHANGED <<clock, dbVars, itemLock, delta, redisVars, reqVars, scanVars, copy, faults>>

(* ... and its commit.                                                     *)
CommitPaid(p) ==
  /\ pc[p] = "mark"
  /\ status' = [row \in Rows |-> IF rowLock[row] = p THEN "PAID" ELSE status[row]]
  /\ EndTx({p})
  /\ pc' = [pc EXCEPT ![p] = "idle"]
  /\ UNCHANGED <<clock, stock, expiresAt, audit, redisVars, reqVars, scanVars, copy, bounds>>
-----------------------------------------------------------------------------
(* A process waits when the items row its next UPDATE matches is owned by  *)
(* another one.                                                            *)
WantsItem(p, i) ==
  \/ /\ p \in Requests
     /\ LinePending(p)
     /\ i = ItemOf(LineRow(p))
     /\ Visible(p, i) >= QtyOf(LineRow(p))
  \/ /\ p \in Schedulers
     /\ pc[p] = "restock"
     /\ i = ItemOf(cur[p])

WaitsFor(p, q) == p # q /\ \E i \in Items : WantsItem(p, i) /\ itemLock[i] = q

(* Each process waits for at most one owner, so a set of waiting processes *)
(* that are exactly each other's owners is a union of cycles.              *)
InDeadlock(p) ==
  \E S \in SUBSET (Requests \union Schedulers) :
    /\ p \in S
    /\ \A q \in S : \E o \in S : WaitsFor(q, o)
    /\ \A o \in S : \E q \in S : WaitsFor(q, o)

(* A handler that dies: its transaction is rolled back, its caller gets an *)
(* error (a request) or the loop logs it and sleeps (a scheduler).         *)
Abort(P) ==
  /\ EndTx(P)
  /\ pc' = [p \in Procs |->
              IF p \notin P THEN pc[p]
              ELSE IF p \in Schedulers THEN "sleep"
              ELSE IF p \in Payers THEN "idle"
              ELSE IF pc[p] \in Answered \union {"new"} THEN pc[p]
              ELSE "failed"]
  /\ copy' = [p \in Procs |-> IF p \in P THEN NoCopy ELSE copy[p]]
  /\ released' = [s \in Schedulers |-> IF s \in P THEN {} ELSE released[s]]
  /\ ForgetLines(P)
  /\ ForgetScan(P)
  /\ UNCHANGED <<clock, dbVars, redisVars>>

(* Postgres ends a deadlock by failing one of the statements in the cycle. *)
DeadlockVictim(p) ==
  /\ InDeadlock(p)
  /\ Abort({p})
  /\ UNCHANGED bounds

(* A Redis call fails after the commit: the hold or the release stands.    *)
RedisFailure(p) ==
  /\ pc[p] \in {"publish", "store"}
  /\ faults < MaxFaults
  /\ faults' = faults + 1
  /\ Abort({p})
  /\ UNCHANGED marks

(* The reservation service, or a payment-log consumer, stops and restarts. *)
CrashService ==
  /\ faults < MaxFaults
  /\ faults' = faults + 1
  /\ Abort(Requests \union Schedulers)
  /\ UNCHANGED marks

CrashPayer(p) ==
  /\ pc[p] = "mark"
  /\ faults < MaxFaults
  /\ faults' = faults + 1
  /\ Abort({p})
  /\ UNCHANGED marks

Tick ==
  /\ clock < MaxTime
  /\ clock' = clock + 1
  /\ UNCHANGED <<dbVars, lockVars, redisVars, pc, reqVars, scanVars, copy, bounds>>
-----------------------------------------------------------------------------
RequestStep(r) ==
  \/ Reject(r)
  \/ BeginReserve(r)
  \/ DecrementStock(r)
  \/ NoteUnavailable(r)
  \/ RefuseInvoice(r)
  \/ CommitHold(r)
  \/ StoreInvoice(r)

SchedulerStep(s) ==
  \/ BeginScan(s)
  \/ SelectExpired(s)
  \/ \E row \in Rows : ReleaseRow(s, row)
  \/ RestockItem(s)
  \/ CommitRollback(s)

RefreshStep(p) == ReadForCache(p) \/ \E i \in Items : SetCacheItem(p, i)

PayerStep(p) == (\E inv \in Invoices : MarkReservedPaid(p, inv)) \/ CommitPaid(p)

Next ==
  \/ \E r \in Requests : RequestStep(r)
  \/ \E s \in Schedulers : SchedulerStep(s)
  \/ \E p \in Requests \union Schedulers :
       RefreshStep(p) \/ DeadlockVictim(p) \/ RedisFailure(p)
  \/ \E p \in Payers : PayerStep(p) \/ CrashPayer(p)
  \/ \E i \in Items : ExpireCacheItem(i)
  \/ CrashService
  \/ Tick

Spec == Init /\ [][Next]_vars

(* Handlers run to completion, the scheduler loops forever, Postgres       *)
(* breaks deadlocks, Redis expires keys and time passes.  Nothing obliges  *)
(* a customer to pay, so starting a mark has no fairness, only its commit. *)
(* A statement that waits for a row is granted it when the owner's         *)
(* transaction ends (Postgres queues waiters), hence strong fairness there *)
Fairness ==
  /\ \A r \in Requests : WF_vars(RequestStep(r)) /\ SF_vars(DecrementStock(r))
  /\ \A s \in Schedulers : WF_vars(SchedulerStep(s)) /\ SF_vars(RestockItem(s))
  /\ \A p \in Requests \union Schedulers :
       WF_vars(RefreshStep(p)) /\ WF_vars(DeadlockVictim(p))
  /\ \A p \in Payers : WF_vars(CommitPaid(p))
  /\ \A i \in Items : WF_vars(ExpireCacheItem(i))
  /\ WF_vars(Tick)

FairSpec == Spec /\ Fairness
-----------------------------------------------------------------------------
DbType ==
  /\ clock \in Nat
  /\ stock \in [Items -> Int]
  /\ status \in [Rows -> Status]
  /\ expiresAt \in [Requests -> Nat]
  /\ audit \in [Invoices -> Nat]

LockType ==
  /\ itemLock \in [Items -> Procs \union {NoProc}]
  /\ rowLock \in [Rows -> Procs \union {NoProc}]
  /\ delta \in [Procs -> [Items -> Nat]]

RedisType ==
  /\ cache \in [Items -> Int \union {NoValue}]
  /\ stored \in [Invoices -> Nat]
  /\ copy \in [Procs -> [Items -> Int \union {NoValue}]]

PcType ==
  /\ pc \in [Procs -> RequestPc \union SchedulerPc \union PayerPc]
  /\ \A r \in Requests : pc[r] \in RequestPc
  /\ \A s \in Schedulers : pc[s] \in SchedulerPc
  /\ \A p \in Payers : pc[p] \in PayerPc

LocalType ==
  /\ line \in [Requests -> Nat \ {0}]
  /\ short \in [Requests -> SUBSET Nat]
  /\ scanNow \in [Schedulers -> Nat]
  /\ todo \in [Schedulers -> SUBSET Rows]
  /\ cur \in [Schedulers -> Rows \union {NoValue}]
  /\ \A s \in Schedulers : pc[s] = "restock" => cur[s] \in Rows
  /\ released \in [Schedulers -> SUBSET Rows]
  /\ marks \in Nat
  /\ faults \in Nat

(* Every variable stays in its type, and a scheduler that is about to      *)
(* restock has a row in hand.                                              *)
TypeOK == DbType /\ LockType /\ RedisType /\ PcType /\ LocalType

(* quantity_available never goes below zero, whatever the requests,        *)
(* rollbacks and aborts that run at the same time.                         *)
NoOversell == \A i \in Items : stock[i] >= 0

Owing == {row \in Rows : status[row] \in {"HELD", "PAID"}}

(* Every unit is on the shelf, held or paid for: no interleaving of        *)
(* reserve, rollback_expired_holds, mark_reserved_paid, deadlock aborts    *)
(* and crashes loses a unit or creates one.                                *)
Conservation ==
  \A i \in Items : stock[i] + Quantity(Owing, i) = InitialStock[i]

(* The rows of one reserve() call share one fate: they are inserted,       *)
(* released and paid together.                                             *)
AllOrNothing ==
  \A r \in Requests : \A row1, row2 \in RowsOf(r) : status[row1] = status[row2]

(* What the caller is told is what the database did: success means the     *)
(* rows were committed, a refusal means there are none and never will be.  *)
AnswerIsTrue ==
  \A r \in Requests :
    /\ pc[r] = "ok" => \A row \in RowsOf(r) : status[row] # "NONE"
    /\ pc[r] = "unavailable" => \A row \in RowsOf(r) : status[row] = "NONE"

(* A hold is never released before its expires_at.                         *)
NoEarlyRelease ==
  \A row \in Rows : status[row] = "RELEASED" => expiresAt[row[1]] <= clock

(* The audit log accounts for every released row, once.                    *)
RollbackAudited ==
  \A inv \in Invoices :
    audit[inv] = Cardinality({row \in Rows : /\ InvoiceOf[row[1]] = inv
                                             /\ status[row] = "RELEASED"})

(* Until a confirmed hold expires, invoice:{id} is there for the           *)
(* payment-log service to read.                                            *)
PayloadOutlivesHold ==
  \A r \in Requests :
    pc[r] = "ok" /\ clock < expiresAt[r] => clock < stored[InvoiceOf[r]]

(* RELEASED and PAID are final: no payment revives a released row and no   *)
(* scan takes a paid one.                                                  *)
OutcomeIsFinal ==
  [][\A row \in Rows :
       status[row] \in {"RELEASED", "PAID"} => status'[row] = status[row]]_vars

(* Every request is answered, deadlocks included.                          *)
EveryRequestAnswered ==
  \A r \in Requests : pc[r] = "reserve" ~> pc[r] \in Answered

(* An unpaid hold does not last: the scheduler gives its units back.       *)
EveryHoldEnds ==
  \A row \in Rows : status[row] = "HELD" ~> status[row] \in {"RELEASED", "PAID"}

(* A catalog entry that racing refreshes left behind is not shown forever. *)
StaleCacheDropped ==
  <>[](\A i \in Items : cache[i] \in {NoValue, stock[i]})
-----------------------------------------------------------------------------
(***************************************************************************)
(* The inductive invariant behind the safety properties.                   *)
(***************************************************************************)
(* A transaction changes only items it has locked, and takes no more than  *)
(* the committed quantity.                                                 *)
EscrowInv ==
  /\ \A p \in Procs, i \in Items : delta[p][i] # 0 => itemLock[i] = p
  /\ \A r \in Requests, i \in Items : delta[r][i] <= stock[i]

(* The rows a rollback transaction has selected FOR UPDATE.                *)
Selected(s) == IF pc[s] \in {"scan", "restock"} THEN todo[s] \union released[s] ELSE {}

(* Row locks: only HELD rows, all rows of a request together, and for a    *)
(* scheduler exactly the expired rows it has yet to visit or has released. *)
RowLockInv ==
  /\ \A row \in Rows : rowLock[row] # NoProc => status[row] = "HELD"
  /\ \A r \in Requests : \A row1, row2 \in RowsOf(r) : rowLock[row1] = rowLock[row2]
  /\ \A r \in Requests, row \in Rows : rowLock[row] # r
  /\ \A s \in Schedulers, row \in Rows : rowLock[row] = s <=> row \in Selected(s)
  /\ \A s \in Schedulers, row \in Rows : rowLock[row] = s => expiresAt[row[1]] <= clock

ScanInv ==
  \A s \in Schedulers :
    /\ scanNow[s] <= clock
    /\ pc[s] \in {"sleep", "select", "publish"} => released[s] = {}

(* The rows of a request exist from its commit on.                         *)
ProgressInv ==
  \A r \in Requests : \A row \in RowsOf(r) :
    /\ pc[r] \in {"new", "reserve", "unavailable"} => status[row] = "NONE"
    /\ pc[r] \in {"refresh", "publish", "store", "ok"} => status[row] # "NONE"

SafetyInv ==
  /\ NoOversell /\ EscrowInv
  /\ AllOrNothing /\ NoEarlyRelease
  /\ RowLockInv /\ ScanInv /\ ProgressInv

(* The rows a transaction has already accounted for in its delta.          *)
TakenRows(r) == {row \in RowsOf(r) : row[2] < line[r] /\ row[2] \notin short[r]}
RestoredRows(s) ==
  CASE pc[s] = "scan"    -> released[s]
    [] pc[s] = "restock" -> released[s] \ {cur[s]}
    [] OTHER             -> {}

(* What a transaction's delta says is what its rows add up to.             *)
RequestAccount(r) ==
  /\ pc[r] = "new" => line[r] = 1 /\ short[r] = {} /\ delta[r] = NoDelta
  /\ pc[r] = "reserve" =>
       /\ short[r] \subseteq 1 .. line[r] - 1
       /\ \A i \in Items : delta[r][i] = Quantity(TakenRows(r), i)

SchedulerAccount(s) ==
  /\ \A i \in Items : delta[s][i] = Quantity(RestoredRows(s), i)
  /\ todo[s] \cap released[s] = {}
  /\ pc[s] = "restock" => cur[s] \in released[s]

AccountInv ==
  /\ Conservation
  /\ \A r \in Requests : RequestAccount(r)
  /\ \A s \in Schedulers : SchedulerAccount(s)

(* A mark_reserved_paid transaction holds rows of one invoice only.        *)
PayerInv ==
  \A p \in Payers :
    /\ pc[p] = "idle" => \A row \in Rows : rowLock[row] # p
    /\ \A row1, row2 \in Rows :
         rowLock[row1] = p /\ rowLock[row2] = p
           => InvoiceOf[row1[1]] = InvoiceOf[row2[1]]

(* A payload is stored for a full TTL from now, and the hold's expires_at  *)
(* was fixed at least as early: stored payloads only ever gain time.       *)
Storing(r) == pc[r] \in {"reserve", "refresh", "publish", "store"}

PayloadInv ==
  /\ \A inv \in Invoices : stored[inv] <= clock + Ttl
  /\ \A r \in Requests : Storing(r) => expiresAt[r] <= clock + Ttl
  /\ \A r \in Requests : pc[r] = "ok" => expiresAt[r] <= stored[InvoiceOf[r]]

(* Inductive: what every reachable state of the locks, rows, deltas and    *)
(* stored payloads satisfies.                                              *)
IInv == SafetyInv /\ AccountInv /\ PayerInv /\ PayloadInv
-----------------------------------------------------------------------------
HoldStateOf(r) ==
  IF Lines[r] = <<>> THEN "none"
  ELSE CASE status[<<r, 1>>] = "NONE"     -> "none"
         [] status[<<r, 1>>] = "HELD"     -> "held"
         [] status[<<r, 1>>] = "RELEASED" -> "released"
         [] OTHER                         -> "paid"

Ledger == INSTANCE StockLedger
            WITH avail <- stock, hold <- [r \in Requests |-> HoldStateOf(r)]

(* The interleaved transactions behave like the one-step ledger.           *)
ImplementsLedger == Ledger!LedgerSpec
=============================================================================
