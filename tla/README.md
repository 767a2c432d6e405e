# MerchantAI-agent: a TLA+ verification project

This directory models the backend of MerchantAI-agent in TLA+ (gate, order
dialogue, reservation, payment, catalogue, offers, merchant accounts), checks small
instances with TLC and proves the central results for every instance with TLAPS. Definitions are translated from the code
in `src/`; `PROJECT.json` maps each of them to the lines it stands for.

## 1. The system

A consumer agent talks to a shop: `gateway` -> `async_worker` (human mandate) ->
`merchant_agent` (LangGraph dialogue). When the customer says "Proceed" the agent
writes an order, and asks `reservation_service` to hold the stock and
`payment_service` to create a Razorpay link, concurrently. Razorpay reports
payments by webhook; `payment_log_service` audits them and settles the hold. Holds
that are not paid expire and are rolled back by a scheduler.

| Component | State | Operations | Hard behaviour | What makes it correct |
|---|---|---|---|---|
| `reservation_service` | `items.quantity_available`, `reserved_items` (HELD, RELEASED, PAID), `audit_log`; Redis `catalog:item:*`, `invoice:*` | `reserve`, `rollback_expired_holds`, `mark_reserved_paid` | concurrent transactions, row locks, deadlocks, crashes between commit and answer, racing cache refreshes | no oversell, all or nothing, units conserved, one final outcome per hold, holds end |
| `payment_log_service` + worker webhook route | Kafka topic `webhook-queue`, consumer offset, `invoice_audit` | ingress, verify and enqueue, `process_webhook`, offset commit | duplicated and delayed webhooks, lost answers, crash between audit, mark and commit, end of the consumer task | acknowledged means audited while the consumer runs, committed means done, a settled hold has the audit row of its payment |
| `payment_service` | Redis `payment_link:*`, the link at Razorpay | create-link, cancel-link | link created but the answer or the Redis write fails | the answer says what became of the link, up to calls whose result was lost |
| `merchant_agent` order turn | session state in Redis, `orders` | parse, resolve, availability, confirmation, finalize, dispatch, outcome | concurrent turns of a session, half-failed dispatch, retries with the old invoice id | a confirmed order is reserved and payable or cleanly failed |
| `merchant_agent` catalog | `catalog:item:*`, `catalog:index` | warm, refresh, rebuild, search, alternatives | racing writers, filtered index | an entry is the row and the index lists every row, up to races and failures that are named |
| `merchant_admin` | `items` | CSV upload | read-modify-write against reserve, one item twice in a file, cache passes after the commit | units add up |
| `async_worker` mandate gate | Redis `mandate:seen:*` | `verify_mandate`, forward, audit | check-then-set, whole seconds against a TTL, stale issuers | a merchant's issuers replace the global ones; a signature looked up after it was spent passes only at the edge of its life (two look-ups before the first SET both pass) |
| `gateway` | in-memory request windows | rate limit, forward | window boundary, restart | the limit is exact |
| `auth_service`, credential store | `merchants`, two Redis keys | sign-up, login, update, credential look-up | two writes after the commit, no TTL, several writers | keys agree with the row |
| `offer_engine` | `offers`, Redis list per item | create, terminate, look-up, sync | two writers of a list, one with and one without TTL | a stored list has exactly the active offers of the item |
| `invoice_calc` | none | discount, tax, shipping, total | rounding, free shipping threshold | no offer makes a cart dearer, except by lost free shipping; tax is exact up to rounding |
| `reservation_worker` | legacy counters in Redis | reserve, commit, release | counter leaks | (not deployed) |

LLM calls, prompts, vector memory, the frontend and the scripts are not modelled:
they keep no shared state the other parts depend on, or their result is an
arbitrary input.

`PROJECT.json` lists the hazards of the code line by line, with the properties
that cover each.

## 2. Modules

| Module | Models | Composition |
|---|---|---|
| `ReservationData` | invoices, their lines, the rows they become, quantities | extended by the next three |
| `StockLedger` | what the reservation service promises: `Grant`, `Release`, `Settle`, each one step | abstract specification |
| `ReservationService` | the service, one action per SQL statement or Redis call | refines `StockLedger` (`ImplementsLedger`) |
| `PaymentSettlement` | webhooks, Kafka, the consumer, the audit table | extends `StockLedger`: it uses the reservation service through the specification it implements |
| `OrderCart` | the draft order and the pure functions the graph nodes apply to it | extended by the next |
| `OrderTurn` | the turns of one session: every node of the agent's graph, and the two calls it dispatches | uses the reservation and payment services by their effects |
| `CatalogUpload` | the items table and the catalogue cache: uploads, reservations, rollbacks and reads as their writers | uses the reservation service by its committed UPDATEs |
| `MerchantCache` | a merchant's row and its two Redis keys, and all their writers | extended by the next |
| `ConverseGate` | a turn's way in: rate limit, mandate checks, forward | extends `MerchantCache`: the gate is one of its readers and writers |
| `InvoiceTotals` | the arithmetic of an invoice | extended by the next |
| `OfferCache` | offers, their per-item lists, and a turn that looks them up and bills | extends `InvoiceTotals` |
| `MCReservation`, `MCSettlement`, `MCOrderTurn`, `MCCatalogUpload`, `MCConverseGate`, `MCOfferCache` | constants for TLC | |
| `SumTheorems` | no part of the program: what `SumFunctionOnSet` of the community module `Functions` computes | lemmas of the two modules with sums |
| `ReservationDataProofs` | rows and quantities | lemmas of the next two |
| `ReservationServiceProofs` | types, safety, conservation, audit, payloads, final outcomes and the refinement of `ReservationService` | extends it |
| `PaymentSettlementProofs` | types and safety of settlement | extends `PaymentSettlement` |
| `OrderTurnProofs` | types, orders and answers of the dialogue | extends `OrderTurn` |
| `CatalogUploadProofs` | types, cache agreement and accounting of uploads | extends `CatalogUpload` and `SumTheorems` |
| `ConverseGateProofs` | the merchant's keys, the issuers the gate trusts, the rate limit and replays | extends `ConverseGate` |
| `OfferCacheProofs` | offer lists, invoice totals and the bills of turns | extends `OfferCache` and `SumTheorems` |

Operators named `Mut...` are defects of the kind a change to the code could
introduce; substituted for the definition that follows them they must make TLC
report the property they are paired with in `PROJECT.json`.

### ReservationService

Processes are request handlers, rollback schedulers (one per running instance)
and payment consumers. Postgres is modelled as READ COMMITTED: committed tables
(`stock`, `status`, `expiresAt`, `audit`), the row locks of open transactions
(`itemLock`, `rowLock`) and, per transaction, the uncommitted change of each item
(`delta`). A row is named by its request and line number.

- `reserve`: `Reject` (no lines), `BeginReserve` (expiry fixed before the
  transaction), per line `DecrementStock` (the conditional UPDATE, waiting for a
  locked row) or `NoteUnavailable` (no match: no lock, no wait), then
  `RefuseInvoice` (rollback) or `CommitHold` (rows inserted, commit), `ReadForCache`
  and `SetCacheItem` (`_refresh_catalog_cache`), `StoreInvoice`.
- `rollback_expired_holds`: `BeginScan` (now), `SelectExpired` (FOR UPDATE),
  per row `ReleaseRow` and `RestockItem`, `CommitRollback` with the audit rows, then
  the same refresh.
- `mark_reserved_paid`: `MarkReservedPaid` (the UPDATE takes the row locks) and
  `CommitPaid`.
- Environment: `DeadlockVictim` (Postgres aborts a member of a wait cycle),
  `RedisFailure`, `CrashService`, `CrashPayer`, `ExpireCacheItem`, `Tick`.

A statement that touches several `reserved_items` rows acquires their locks
together; a deadlock among two such statements is not modelled. `is_active` is left
out: no service ever sets it to false. The quantity reported for an unavailable
item and the texts of answers are left out.

### PaymentSettlement

`Checkout` is a granted hold with its payment link, `Happen` what Razorpay
observes, `Deliver`, `DeliverAckLost` and `DeliverRefused` the post through ingress
and worker, `Poll`, `WriteAudit`, `MarkPaid` and `CommitOffset` the consumer loop,
and `ProcessingFails` its except branch. One partition and one consumer. The
invoice payload copied into the audit row is left out.

- Audit rows are keyed as the code keys them (`AuditKey`): the invoice of the notes, else
  the order id, else the payment id, else "unknown". `OrderId` is the payment's `order_id`,
  or the `reference_id` of the link where there is none.
- `ConsumerStops`: `start()`, `getone()` and the `seek` of the error path are outside the inner
  `try`, so an exception there ends the consumer task. The service goes on, its `/healthz`
  does not look at the task, and `restart: unless-stopped` acts on a dead process
  only: nothing in the deployment starts another consumer.
- `ConsumerCrash` is the process dying or somebody restarting the service: a new
  consumer at the committed offset (a commit whose answer was lost counts,
  `Recorded`).

### OrderCart and OrderTurn

`OrderCart` has the cart and one operator per function: `Parsed` (`parse_intent`),
`Resolved` (`resolve_catalog`), `StockoutPending`, `Orderable`, `BlockingUnresolved`,
`MissingFields`. In `OrderTurn` each graph node is an action of the same name, and
`Finish` is the persistence wrapper that follows every node: the whole copy of the
session is written to Redis, state first and draft second, and either write may
fail. Two turns of a session interleave between nodes when `Overlap` is true;
nothing in the code serialises them. The run has turns one after the other; what holds of
overlapping ones is proved.

- State: `saved` and `draft` are the two Redis keys, `st` the copy each turn works on,
  `orders` the table (its primary key is what `GenerateInvoice` can collide with),
  `holds` and `link` the effects of the two services, `orphans` the audit of links that
  could not be voided.
- History: `offered` is the summary that awaits a confirmation, with its cart and the turn
  that made it. It is set when the session with the open offer is saved, and an order
  takes it with it (`seen`) and clears it, so no summary serves two orders. `lost` names the
  reserve and cancel calls whose result never came.
- `load_session` reads the two keys in two awaits, `LoadSession` (the state) and
  `LoadOrderDraft` (the draft, and the save after the node): an overlapping turn's save can
  fall between them.
- Both availability checks read `catalog:item`. `CacheSays` gives what the table says, or,
  once per change outside the session, anything: an entry may lag before the read as
  well as the stock may change after it.
- `SubmitInvoice` and `CreatePaymentLink` are the two concurrent calls of the dispatch.
  Each may fail before or after it took effect (`Fault`); `DispatchInvoiceProcessing`
  waits for both. `CancelPaymentLink` and `ResolveInvoiceOutcome` are the last node.
- Environment: `StockChanges`, `Delist`, `SessionExpires`.

What is abstracted:

- The language model's extraction is an arbitrary message record: lines named,
  names to remove, customer fields given, whether a proceed phrase occurs, whether it
  is off topic. Fields recalled from the personal memory are part of the message.
- A product name stands for a class of similar names, and there is one item per name
  and brand. A message that names a product with its brand changes the line of that
  name (`Mentioned`), and may take over a line of another name that waits for a
  substitute (`Substituted`, the fallback of `_apply_substitute_phrase`); the code then has
  two lines of the product, the cart keeps one. The run has one name: carts of several,
  and the fallback, are covered by the theorems.
- A line whose brand is None cannot be billed (`Billable`): `InvoiceLineItem` refuses it.
- Prices, offers, campaigns and the texts of replies are left out: of a price only
  whether it is known (`Billable`), of the three lookups only their control.
- The worker forwards `mandate_verified` true only, so the mandate is never missing.
- Ids are turn names, since each turn draws at most one uuid4.
- A hold is counted, not released: its later life is `ReservationService`'s subject.

`TurnEnds` needs no fairness: every step of a turn lowers `StepsLeft`, an explicit
measure, and a turn that has not ended always has a step (`ENABLED`).

### CatalogUpload

`stock` and `held` are the table; `entry` and `index` the two kinds of Redis key.
An upload goes through `UpsertRow` (once per valid row of the file), `CommitUpload` or
`RefuseUpload` (unique index), `InvalidateItem`, `SetEntry`, `ReadForIndex`, `SetEntry` again
and `SetIndex`. `Reserve` and `Release` are the relative UPDATEs of the reservation
service, followed by its refresh; `GetById`, `SearchByName` and `AlternativesSameName` are
reads that miss and write what they read. `ExpireEntry`, `ExpireIndex` and `Fails` are the
environment.

- The session of an upload is modelled as SQLAlchemy has it: an object already
  loaded is returned again with its changes (`Loaded`), a flush writes the absolute
  value of changed columns (`Written`), and after the commit the objects keep their
  values (`expire_on_commit=False`), also in the rebuild of the index.
- Flush and commit are one step: rows are locked in between.
- `raced`, `old`, `debt`, `stale`, `narrow` and `aged` are history variables. They name the races
  and failures under which the two properties promise nothing, so that the
  properties are as strong as the code allows. `aged` has the listed items that were
  committed since the quantities in the index were read: a reservation or a rollback
  refreshes the entry of its items and leaves the index alone.
- CSV columns and their formats are one flag per row (`ValidRows`); prices and texts
  are left out.

### MerchantCache and ConverseGate

`sync_merchant_cache` is `ReadRow`, `SetCreds`, `SetIssuers`, for any process: `SignUp`,
`Login`, `UpdateProfile` (any subset of the columns), `GetCredentials` on a miss, and a
request at the gate on a miss. `wrote`, `late` and `torn` are history variables: who owes a
sync, whose copy is overtaken, which key was last written from such a copy. `listed` has the
issuers that some version of the row has named, and `Basis` what the list of a request may
be made of: the issuers of the row, or of any version while the issuers key lags behind.

A request enters at the gateway (`Enter`: `_is_rate_limited`), and passes `LoadIssuers`
(with `ReadMerchant`, `SyncMerchant`, `ReadIssuersAgain` on a miss), `CheckClaims`, `GetSeen`,
`SetSeen` and `ForwardToAgent`. Redis, the worker and the agent may fail, and the gateway
may restart and forget its buckets. Time passes in ticks shorter than a second,
because the worker compares whole seconds and Redis and the gateway do not.

- A mandate is a signature, an issuer and a time; the code verifies no signature
  (it says it is a mock). A token that cannot be decoded, or has an empty signature,
  is refused like one that fails `CheckClaims` and touches nothing else.
- One consumer agent: the buckets of others are independent. One merchant.
- Passwords, tokens and profile fields that no other service reads are left out;
  a request that fails there changes nothing.

### InvoiceTotals and OfferCache

The four create routes, `RefuseCombo` (stock check), `ReadOffer` and `Terminate` change the
table; `SyncSelect`, `SyncSet` write the lists of the items concerned, with a TTL
(`Expire`), and may fail for one item (`SyncFails`) or stop (`Crash`). A turn (`Begin`) takes
the items of its cart in order: `Hit`, or `Miss` and `Fill` without a TTL, and then computes
its invoice (`Bill`, with `Saved` and `Total`). A cart without lines asks for no offers and is
billed all the same, as the invoice service does.

- A `None` for `item_ids` is stored as JSON null by the create routes, which the look-up's
  `IS NULL` does not match, while rows whose column was left out do: `Miss` allows both.
- The texts of offers and campaigns are left out. `valid_from` and `valid_to` are
  too: no code reads them when it lists or applies offers.

## 3. Runs

| Run | Instance | Shows |
|---|---|---|
| `reservation_cross` | two invoices over items a and b in opposite order, one with a repeated item; one scheduler, one payment, one fault | `NoOversell`, `AllOrNothing`, `AnswerIsTrue`, `NoEarlyRelease`, `PayloadOutlivesHold`, `Conservation` through deadlocks, refusals and crashes, refinement of the ledger |
| `reservation_twice` | one invoice submitted twice, an empty invoice; two schedulers, one payment, no fault | `Conservation` and `RollbackAudited` with racing schedulers and a double submission, `OutcomeIsFinal` and the inductive invariant `IInv` |
| `reservation_live` | two crossing invoices for the last unit of a, enough of b; one crash or Redis failure, fairness | `EveryRequestAnswered`, `EveryHoldEnds`, `StaleCacheDropped` |
| `settlement` | a captured payment, an earlier failed attempt of it, the expiry of its link, a payment of no invoice and an unsigned webhook; three posts, two faults, fairness | `PaidWasCaptured`, `CommittedIsDone`, `SettledIsAudited`, `AckedIsAudited` |
| `settlement_late` | one payment | violates `PaidInTimeIsKept` |
| `order_turn` | four turns in sequence, every kind of message, one outside change or lagging entry, one failed or lost call | `OrderWasConfirmed`, `InvoiceIsComplete`, `AnswerIsBacked`, `ReservedOnce`, `StockoutNotInvoiced`, `FieldsKept`, `TurnEnds` |
| `order_collision` | four turns, one stock change | violates `NoOrderCollision` |
| `catalog_upload` | an item in stock and one that two files bring in, one file naming it twice and holding a rejected row; two reservations, rollbacks or reads; one failure or expiry | `StockAccounted`, `CacheAgrees` |
| `upload_lost` | an upload of an item and a reservation of it | violates `NoUnitsFromNowhere` |
| `converse_gate` | a merchant that may sign up or change issuer, two requests, two mandates, limit 1, one fault | `GateIsExact`, `AcceptedWasTrusted`, `KeysAgree`, `LaterUseOnlyAtEdge` |
| `replay` | two requests with the same or different mandates, at one instant | violates `SecondUseRejected` |
| `offers` | a discount, a combo, a coupon, a campaign; three create or terminate requests, one turn, two faults | `ListsAgree`, `BillIsFair` |

**Bounds.** `MaxTime`, `MaxMarks`, `MaxFaults`, `MaxDeliveries` bound the clock,
calls of `mark_reserved_paid`, faults and webhook posts. `Ttl = 1` tick is enough to
separate "before" from "at" the expiry; a hold is only begun when the clock can
still reach its expiry. Two requests suffice for every conflict between two
transactions, and crossing lines make the wait cycles (between requests, and between
a request and a rollback) reachable. In `PaymentSettlement` `LinkTtl = 1 < Ttl = 2`, as
300 s < 480 s in the settings; three posts are two reports of one payment, in either order,
and a duplicate of one of them, and two faults a stop and the restart after it.

In `OrderTurn` the bounds are `MaxTurns`, `MaxQty`, `MaxStock`, `MaxChanges` (what happens
outside the session), `MaxFaults` (failed or lost calls) and `ReactLoopMax`. One name in
two brands gives the unresolved, ambiguous, resolved, not found and out of stock
lines; one unit of each makes an outside change empty a shelf. An order needs two
turns (say what, confirm), so four reach a second order after a failed one. The
planner stops by itself in its third round; the cap is two, so it is reached.
Turns are numbered, not interchangeable, so there is no symmetry. These runs do not
check for deadlock, because a behaviour ends when its finite supply of turns is used;
`TurnEnds` says that no turn hangs. The same holds for the operations of the runs
below, each of which is done once.

In `CatalogUpload` `MaxEvents` bounds failures and expiries; two uploads and two tasks
give every pair of writers of a key, and three writers for one that is overtaken twice.
In `ConverseGate` a tick is half a second (`TicksPerSecond = 2`), the mandate lives one
second, the key two ticks and the clock reaches `MaxTime = 3`: the smallest instance in
which a mandate is spent, forgotten by Redis and still accepted. `Window = 2` and a limit
of 1 separate "at" from "after" the end of the window. In `OfferCache` the carts cost
50030, which one flat discount takes below the free shipping minimum of 50000 and the
other does not, and 59 + 51, where discounts exceed a line and both halves of the tax
round; a third cart is empty. Three operations create two offers and end one.

**Fairness.** Handlers run to completion, the scheduler loops forever
(`while True` with every exception caught), Postgres detects deadlocks, Redis
expires keys, time passes: weak fairness. Waiting for an item row has strong
fairness, because Postgres queues waiters and grants the row when its owner ends;
with weak fairness only, TLC finds a scheduler that is chosen as deadlock victim
again and again while a request never gets its row. Nothing obliges a customer to
pay, Razorpay to post, a fault to happen, or anybody to restart a service whose consumer
task has ended: the fairness of `Consume` is that of a running consumer, and `AckedIsAudited`
promises a row only while there is one. The other specifications state safety
only and assume no fairness.

### Findings

Each of these is a run that TLC refutes:

- *Late webhook* (`settlement_late`). A payment captured in time does not protect the
  hold: a webhook handled after `expires_at` finds the rows RELEASED,
  `mark_reserved_paid` returns 0, the audit row says SUCCESS, and the units are on sale
  again.
- *Order collision* (`order_collision`). A reservation that fails leaves its invoice id in
  the session, so the next confirmed order of that session, the alternative the
  shopper was asked to pick, inserts the same primary key and fails, and so does every
  later one.
- *Units from nowhere* (`upload_lost`). The upload reads `quantity_available`, adds in memory
  and writes the sum. A reservation committed in between is overwritten: its units
  are held and for sale at once.
- *Second use accepted* (`replay`). `docs/HOW_THE_AGENT_BUILT_THIS.md:187` says of a signature used
  twice "Second use rejected". `mandate:seen` is read in one call and set in another: two
  requests that both read before either sets are both accepted.

The models also contain these behaviours, which no property forbids:

- *Failed, then captured.* The unique key of `invoice_audit` has no status, so the SUCCESS
  row of a payment that first failed is dropped as a retry; the hold is still settled and
  the audit keeps saying FAILED. `SettledIsAudited` allows a FAILED row of a settled hold for
  such a payment only.
- *Two rows for one payment.* Webhooks without an invoice note are keyed by the order id
  or, when a report has none, by the payment id: a report with and one without an order
  id leave two rows of one payment.
- *A consumer that has ended.* After an exception outside the inner `try` webhooks are
  acknowledged and queued, and nothing handles them until the service is restarted.
- *Said to be void.* The shopper is told that the payment link was voided also when the
  call to cancel it failed: `cancel-link` reports a refusal with status 200, the agent looks
  at exceptions only and audits those, and the reply is the same in every case.
- *Said to be unreserved.* When the reservation is granted and its answer lost, the shopper
  is told that it failed, and the hold stays until it expires.
- A message whose processing always fails is retried forever and blocks its partition.
- A mandate spent within a second of its issue passes again after 300 s. The 300 is
  written in the code while `mandate_max_age_seconds` is a setting: a larger one widens the
  gap. With the look-ups GET, GET, SET, SET a second use passes at any time (`replay`).
- *Trusted again.* A login, a look-up or a request that read the merchant before an update
  and writes the key after the update's own write puts an issuer back that was taken off.
  The key has no TTL, so it stays until the next sync. `AcceptedWasTrusted` exempts it.
- A mandate is spent although the agent could not be reached.
- `alternatives_same_name` on a cold cache stores the filtered rows as the whole index.
- The quantities in `catalog:index` are those of its making: each reservation and rollback
  leaves them behind, without a fault or a race, until the list is made again or expires.
- An offer list stored by a look-up has no TTL. If its SELECT was overtaken by a
  termination, the ended offer stays in the list until an offer of that item changes.
  General offers enter such lists only, and leave them by no termination of their own.
- A discount that takes a cart below the free shipping minimum can raise its total.
- NULL never conflicts in the unique index: a webhook without a payment id is audited
  once per handling. No hold and no payment is touched by it.
- The cart is changed before the confirmation is read: "yes, but the other brand"
  invoices a brand that was never summarised. What no message has named since the summary
  is ordered as it was shown.
- A turn that saved the session with an open offer and failed to write the draft answers
  FAILED: the shopper sees no summary, and a Proceed of the next turn confirms it.
- A message that confirms and removes the only line: `finalize_order` says that nothing
  can be invoiced, but the route goes on to `generate_invoice`, which writes and
  dispatches an order without lines; the reservation service rejects it.
- Overlapping turns save whole sessions; the later save drops what the other turn
  learned, and a turn may confirm the summary that another turn showed for another cart.
  Two Proceed turns that loaded the same offer make an order each. `FieldsKept`,
  `StockoutNotInvoiced` and the summary half of `OrderWasConfirmed` therefore hold for turns in
  sequence only.

### What the runs leave to the theorems

- `reservation_cross` has distinct invoices: that a second call for one invoice never shortens
  the life of `invoice:*` is shown by `PayloadOutlives` only.
- `reservation_twice` has no faults. What a crash, a deadlock or a failed Redis call does to
  the units is shown by `reservation_cross`, and that a hold ends all the same by
  `reservation_live`.
- With a limit of one and two requests, that a refused request is not counted by the rate
  limit is shown by `RateLimitExact` only.
- `order_turn` has one product name and no overlap: orders of several lines, and overlapping
  turns, are the subject of `InvoicesComplete`, `OrdersReservedOnce`, `AnswersBacked` and the proceed
  half of `OrdersConfirmed`.
- `StockAccounted` exempts items that were committed while an upload had them loaded; that
  such a commit is lost is what `upload_lost` shows, and nothing else.
- `CacheAgrees`, `KeysAgree` and `ListsAgree` exempt what an overtaken, filtered or failed write
  left behind: they show that nothing else differs, not that those writes are repaired.

## 4. Proofs

All for arbitrary values of the constants. Assumptions about the data:
`LinesAssumption` (types of the invoices, bounded length and quantities),
`FiniteAssumption` (finitely many requests), `ProcsAssumption` (the kinds of process are
disjoint), `BoundsAssumption`, `SettlementAssumption`, `MerchantAssumption` and `GateAssumption`
(a merchant has an issuer, absent values are not values), `CartAssumption`, `TurnAssumption` and
`NoneAssumption` (types of the messages and the catalogue; None is no session, draft, row or
answer), `UploadAssumption` (types of the files; ids, brands and the two tags of a read are
different things), `OfferAssumption` and `TotalsAssumption` (types). `UploadAssumption` also
states the type of `ValidRows`, which follows from that of a file: the provers know nothing
of `SelectSeq`, and TLC evaluates the assumption on the files of the run. No theorem depends
on a bound.

**Reservation.**

- `TypeCorrect`: `Spec => []TypeOK`.
- `NeverOversold`, `HeldTogether`, `NeverReleasedEarly`, `AnsweredTruthfully` rest on
  `SafetyInvariant`. `NoOversell` alone is not inductive: a commit subtracts a delta
  computed earlier, so `EscrowInv` says that a delta is non-zero only under the item's
  lock and never exceeds the committed stock. `AllOrNothing` needs `RowLockInv`: row
  locks cover HELD rows only, whole requests at a time, and a scheduler's locks are
  exactly the rows it has yet to visit or has released. `NoEarlyRelease` needs `ScanInv`
  (now is in the past), `AnswerIsTrue` needs `ProgressInv`.
- `OutcomesAreFinal`: the action property, from the same invariant.
- `InductiveInvariant` adds `AccountInv`: the delta of a request equals the quantity
  of the lines it has taken, that of a scheduler the quantity of the rows it has put
  back. `UnitsConserved` follows. Quantities are cardinalities of sets of units, so that
  they add over disjoint sets of rows (`QuantityUnion`, `QuantityRow`) without recursion.
- `RollbacksAudited`: a rollback releases rows that were HELD (`RowLockInv`), so none that an
  earlier one has counted, and writes its entries in the same commit; cardinalities of
  disjoint sets add.
- `PayloadOutlives`: `PayloadInv` bounds every expiry still to be stored by the clock plus
  the TTL, so that a later write of `invoice:*` never shortens the life of an earlier one.
- `LedgerRefinement`: `Spec => ImplementsLedger`. A commit of `reserve` is a `Grant`, of a
  rollback a `Release` of whole requests (`RowLockInv`), of a payment a `Settle` of one
  invoice (`PayerInv`); every other step stutters.

**Settlement.** `SettledWasCaptured` and `SettledPaymentsAudited` rest on `SafeInv`: the topic
has only reported events (`TopicInv`), every audit row is that of a reported event
(`RowInv`), the consumer's position is its committed offset and each stage has left its
work behind (`StageInv`), so a crash between any two steps repeats work and never skips it.
A row of the same key and payment as a captured one says SUCCESS, or is that of a failed
report. `CommittedWorkIsDone` assumes `OneRequestPerInvoice`: a
second submission of an invoice could be granted after the payment was handled, and
would then be held while a later payment is on its way. Its invariant adds that a
reported payment has a granted request (`LinkInv`) and that a marked one left no hold
(`DoneInv`).

**Order turn.** `IInv` is `TypeOK`, `SessionInv` and `OrderInv`, and holds however turns overlap.

- `SessionInv` says of a session copy at each node what the routing relies on without
  testing it (`Fits`): an open offer has all customer fields known, so has what the shopper
  told to proceed with, and only that reaches `finalize_order`. The same holds of what Redis
  keeps, whichever turn wrote it. `InvoicesComplete` and the proceed half of `OrdersConfirmed`
  follow.
- `OrderInv` says that an order belongs to the turn that inserted its row (`RowInv`), that
  this turn alone has its two calls made (`CallInv`), and that an id without a row has
  neither a hold nor a link (`HoldInv`). The primary key is what keeps a second turn with
  the id of a failed order out. What the results of the calls say of the hold and the link
  (`Agrees`) is carried to the answer (`AnswerInv`, `IsSo`), with the calls in `lost` as the only
  exemptions. `OrdersReservedOnce` and `AnswersBacked` follow.
- `StockoutsLeftOut`, `KnownFieldsKept` and the summary half of `OrdersConfirmed` assume `~Overlap`,
  as their run does. `SequentialInv` adds that turns come one after the other (`InOrder`), that
  Redis holds what the turn under way works on (`CopyInv`), and follows a summary from the turn
  that made it to the order: it was made by a turn that is over (`MadeInv`), every cart it is
  open for has its lines up to the products named since (`Good`, in `SavedOfferInv` for Redis and
  in `TurnOfferInv` for a turn), and an order took the one that was open (`AnsweredInv`). The
  resolution of the catalogue keeps such lines because a line with a brand matches that item
  only.

**Catalogue upload.** `CacheAgreement` rests on `Works`: a quantity an operation has read is
the one in the table or has been overtaken (`Current`), and what an operation owes Redis is
among what it has yet to write. The entries and the list of the index are one invariant
(`KeysAgree`, inside `IInv`), the quantities of the index another: a step changes a quantity it
lists only by a commit, which enters the item in `aged`, or by writing the list, which starts
`aged` anew with what overtook the read. `UnitsAddUp` needs `Tallies` for the uploads whose
transaction is open: in the session's memory an item has the quantity that was loaded plus
what the rows so far add, and the loaded quantity is still the table's unless the item was
raced. At the commit the memory becomes the table and the sum of the file enters `Added`.

**Gate.** `MerchantKeysAgree` and `TrustedIssuersOnly` rest on `GateInv`. The point of
`MerchantInv` is that a copy no commit has overtaken is the row (`CopyInv`) and that a key
which differs is still due by a writer or marked torn (`KeyInv`); `ListedInv` says that every
copy and every key has issuers of some version of the row, and `Claim` carries the basis from
the list that was read to the mandate that passes. `RateLimitExact` rests on `WindowInv`:
the bucket is a tail of the log of admitted requests, the log is sorted, and what is no
longer in the bucket is older than the window. So a full bucket is a full window and the
entry `limit` places back has left it. `LaterUseAtEdgeOnly` needs `AgeInv` only: at the look-up a
mandate was younger than its maximal age plus the part of a second that was rounded off.

**Offers.** `StoredListsAgree` needs the same fact about copies, for two kinds of writers
(`ListInv`). `TotalsAreFair` is arithmetic: the tax grows with the amount, and each half
loses less than a paisa. `BillsAreFair` brings it to the program: lists are finite
(`FiniteInv`), so the savings of a turn are a sum over finitely many offers, and a bill is the
invoice of some subtotal and some discount (`BillInv`).

**Sums.** The provers have no induction over data. `SumTheorems` argues with a least
counterexample instead: the numbers `n` for which some set of `n` elements has no sum have a
least one (`LeastNatural`, from the well-foundedness of the naturals), and removing one
element contradicts it. It yields that a sum exists, is a natural number, does not depend
on the order, and grows by what an added element contributes (`SumAdd`).

Every state invariant and every action property of the passing runs has a theorem;
`StockoutNotInvoiced`, `FieldsKept` and the summary half of `OrderWasConfirmed` for turns that do not
overlap, `CommittedIsDone` for invoices submitted once. Only model-checked are the temporal properties `EveryRequestAnswered`, `EveryHoldEnds`, `StaleCacheDropped` and
`AckedIsAudited`, which need fairness, and `TurnEnds`, which is stated with `ENABLED`: both are
outside the prover. So are the refuting runs, which exhibit behaviours.

## 5. Not modelled

- `reservation_worker`: the legacy Redis counters. No deployed service calls it and
  `docker-compose` does not start it; its role is `reservation_service`'s.
- Language model tools, prompts, personal and vector memory: their output is an
  arbitrary input of `OrderTurn`; the code promises nothing about it.
- Cross-sell suggestions and the list of pickable items: texts of a reply, read by no
  later step.
- The invoice payload copied into the audit row and into `invoice:*`: data that no
  other step reads.
- Frontend, scripts, load probes and tests.

## 6. Proofs left

The safety half of `TurnEnds` (every step of a turn lowers `StepsLeft`) needs no `ENABLED` and can
be stated alone. Abstract specifications are worth stating for the two components that
have none: an order as one step from a summarised cart to an answer, and the catalogue as a
table with a view that lags. The operators of `OrderCart` deserve lemmas of their own on what
a parse can change.
