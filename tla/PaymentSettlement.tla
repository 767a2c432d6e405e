------------------------- MODULE PaymentSettlement -------------------------
(***************************************************************************)
(* From a paid link to a settled hold: Razorpay posts webhooks to the      *)
(* payment-log ingress, which forwards them to the async worker; the       *)
(* worker verifies the signature and appends to the Kafka topic            *)
(* webhook-queue; the payment-log consumer writes invoice_audit, marks the *)
(* reserved rows paid and commits its offset.  The reservation service is  *)
(* the StockLedger it is shown to implement in ReservationService.         *)
(***************************************************************************)
EXTENDS StockLedger

CONSTANTS
  Events,        \* webhooks
  InvoiceNote,   \* [Events -> Invoices \union {None}]: notes.invoice_id
  OrderId,       \* [Events -> Orders \union {None}]: the payment's order_id, else
                 \* the link's reference_id
  PaymentId,     \* [Events -> Payments \union {None}]: payment entity id
  Kind,          \* [Events -> {"captured", "failed", "expired"}]
  Signed,        \* events that carry a valid signature
  None,          \* a field that is absent
  Ttl,           \* reservation_ttl_seconds, in clock ticks
  LinkTtl,       \* payment_link_ttl_seconds, in clock ticks
  MaxTime,       \* bound on the clock
  MaxDeliveries, \* bound on webhook posts
  MaxFaults      \* bound on crashes, stops and errors of the consumer

ASSUME SettlementAssumption ==
  /\ None \notin Invoices
  /\ InvoiceNote \in [Events -> Invoices \union {None}]
  /\ Kind \in [Events -> {"captured", "failed", "expired"}]
  /\ Signed \subseteq Events
  /\ Ttl \in Nat /\ LinkTtl \in Nat /\ MaxTime \in Nat
  /\ MaxDeliveries \in Nat /\ MaxFaults \in Nat

VARIABLES
  clock,
  expiresAt,   \* reserved_items.expires_at of each request
  linkUntil,   \* expire_by of the payment link of each request, 0 without one
  happened,    \* events Razorpay has to report
  paidInTime,  \* requests that were held when their payment was captured
  posts,       \* webhook posts made
  acked,       \* events answered 2xx: Razorpay does not post them again
  topic,       \* webhook-queue, one partition
  committed,   \* offset committed by the consumer group
  position,    \* offset of the message the consumer handles
  pc,          \* consumer: "poll", "audit", "mark", "commit" or "stopped"
  rows,        \* invoice_audit, in insertion order
  faults

kafkaVars == <<posts, acked, topic>>
consumerVars == <<committed, position, pc>>
vars == <<ledgerVars, clock, expiresAt, linkUntil, happened, paidInTime, kafkaVars,
          consumerVars, rows, faults>>

Init ==
  /\ LedgerInit
  /\ clock = 0
  /\ expiresAt = [r \in Requests |-> 0]
  /\ linkUntil = [r \in Requests |-> 0]
  /\ happened = {}
  /\ paidInTime = {}
  /\ posts = 0
  /\ acked = {}
  /\ topic = <<>>
  /\ committed = 0
  /\ position = 0
  /\ pc = "poll"
  /\ rows = <<>>
  /\ faults = 0
-----------------------------------------------------------------------------
(* reserve() and create_link() have both succeeded: the customer has the   *)
(* link, and the link expires before the hold.                             *)
Checkout(r) ==
  /\ Grant(r)
  /\ clock + Ttl <= MaxTime   \* bound: the clock can reach the expiry
  /\ expiresAt' = [expiresAt EXCEPT ![r] = clock + Ttl]
  /\ linkUntil' = [linkUntil EXCEPT ![r] = clock + LinkTtl]
  /\ UNCHANGED <<clock, happened, paidInTime, kafkaVars, consumerVars, rows, faults>>

(* rollback_expired_holds(), one ledger step.                              *)
Expire ==
  LET R == {r \in Requests : hold[r] = "held" /\ expiresAt[r] <= clock}
  IN  /\ R # {}
      /\ Release(R)
      /\ UNCHANGED <<clock, expiresAt, linkUntil, happened, paidInTime, kafkaVars,
                     consumerVars, rows, faults>>

(* What happens at Razorpay: a live link is paid or an attempt fails, a    *)
(* dead link is reported expired; the merchant's account also has payments *)
(* that came by no link of ours and carry no invoice.                      *)
LinkOf(e) == {r \in Requests : InvoiceOf[r] = InvoiceNote[e] /\ linkUntil[r] # 0}

Happen(e) ==
  /\ e \in Signed \ happened
  /\ \/ InvoiceNote[e] = None
     \/ \E r \in LinkOf(e) : IF Kind[e] = "expired" THEN linkUntil[r] <= clock
                                                    ELSE clock < linkUntil[r]
  /\ happened' = happened \union {e}
  /\ paidInTime' = paidInTime \union
       {r \in LinkOf(e) : Kind[e] = "captured" /\ hold[r] = "held"}
  /\ UNCHANGED <<ledgerVars, clock, expiresAt, linkUntil, kafkaVars, consumerVars,
                 rows, faults>>

Tick ==
  /\ clock < MaxTime
  /\ clock' = clock + 1
  /\ UNCHANGED <<ledgerVars, expiresAt, linkUntil, happened, paidInTime, kafkaVars,
                 consumerVars, rows, faults>>
-----------------------------------------------------------------------------
(* Mutant: the worker enqueues what it could not verify.                   *)
MutAccepts(e) == TRUE

(* verify_razorpay_signature.                                              *)
Accepts(e) == e \in Signed

(* A post of an event that is not acknowledged yet.                        *)
Posted(e) ==
  /\ e \in (happened \union (Events \ Signed)) \ acked
  /\ posts < MaxDeliveries
  /\ posts' = posts + 1
  /\ UNCHANGED <<ledgerVars, clock, expiresAt, linkUntil, happened, paidInTime,
                 consumerVars, rows, faults>>

(* Mutant: the worker answers before the message is in Kafka.              *)
MutDeliverEarlyAck(e) ==
  /\ Posted(e)
  /\ Accepts(e)
  /\ acked' = acked \union {e}
  /\ topic' \in {topic, Append(topic, e)}

(* The post reaches Kafka and Razorpay sees the 2xx.                       *)
Deliver(e) ==
  /\ Posted(e)
  /\ Accepts(e)
  /\ topic' = Append(topic, e)
  /\ acked' = acked \union {e}

(* The message is in Kafka but the answer is lost (the ingress times out   *)
(* after 20 s, or dies): Razorpay posts the event again.                   *)
DeliverAckLost(e) ==
  /\ Posted(e)
  /\ Accepts(e)
  /\ topic' = Append(topic, e)
  /\ UNCHANGED acked

(* 401 on a bad signature, 500 when Kafka does not take the message.       *)
DeliverRefused(e) == Posted(e) /\ UNCHANGED <<topic, acked>>
-----------------------------------------------------------------------------
Message == topic[position + 1]

(* getone().                                                               *)
Poll ==
  /\ pc = "poll"
  /\ position < Len(topic)
  /\ pc' = "audit"
  /\ UNCHANGED <<ledgerVars, clock, expiresAt, linkUntil, happened, paidInTime,
                 kafkaVars, committed, position, rows, faults>>

IsPaymentSuccess(e) == Kind[e] = "captured"

(* audit_invoice_id: the first there is of the invoice of the notes, the   *)
(* order and the payment.                                                  *)
AuditKey(e) == IF InvoiceNote[e] # None THEN InvoiceNote[e]
               ELSE IF OrderId[e] # None THEN OrderId[e]
               ELSE IF PaymentId[e] # None THEN PaymentId[e] ELSE "unknown"

RowFor(e) == [invoice |-> AuditKey(e), payment |-> PaymentId[e],
              success |-> IsPaymentSuccess(e)]

(* Mutant: an invoice has one audit row.                                   *)
MutConflictsByInvoice(e) ==
  /\ PaymentId[e] # None
  /\ \E k \in 1..Len(rows) : rows[k].invoice = AuditKey(e)

(* The unique index on (invoice_id, razorpay_payment_id); a NULL payment   *)
(* id never conflicts.                                                     *)
Conflicts(e) ==
  /\ PaymentId[e] # None
  /\ \E k \in 1..Len(rows) : /\ rows[k].invoice = AuditKey(e)
                             /\ rows[k].payment = PaymentId[e]

(* _write_invoice_audit: IntegrityError is swallowed.                      *)
WriteAudit ==
  /\ pc = "audit"
  /\ rows' = IF Conflicts(Message) THEN rows ELSE Append(rows, RowFor(Message))
  /\ pc' = IF IsPaymentSuccess(Message) /\ InvoiceNote[Message] # None
             THEN "mark" ELSE "commit"
  /\ UNCHANGED <<ledgerVars, clock, expiresAt, linkUntil, happened, paidInTime,
                 kafkaVars, committed, position, faults>>

(* mark_reserved_paid: one ledger step over the HELD rows of the invoice.  *)
MarkPaid ==
  LET inv == InvoiceNote[Message]
  IN  /\ pc = "mark"
      /\ Settle(inv, {r \in Requests : InvoiceOf[r] = inv /\ hold[r] = "held"})
      /\ pc' = "commit"
      /\ UNCHANGED <<clock, expiresAt, linkUntil, happened, paidInTime, kafkaVars,
                     committed, position, rows, faults>>

(* Mutant: the consumer stays on the message whose offset it commits.      *)
MutCommitStays ==
  /\ pc = "commit"
  /\ committed' = position + 1
  /\ pc' = "poll"
  /\ UNCHANGED <<ledgerVars, clock, expiresAt, linkUntil, happened, paidInTime,
                 kafkaVars, position, rows, faults>>

(* consumer.commit(offset + 1); getone() moves on.                         *)
CommitOffset ==
  /\ pc = "commit"
  /\ committed' = position + 1
  /\ position' = position + 1
  /\ pc' = "poll"
  /\ UNCHANGED <<ledgerVars, clock, expiresAt, linkUntil, happened, paidInTime,
                 kafkaVars, rows, faults>>

(* Mutant: the failed message is skipped.                                  *)
MutFailSkips ==
  /\ pc \in {"audit", "mark", "commit"}
  /\ faults < MaxFaults
  /\ faults' = faults + 1
  /\ pc' = "poll"
  /\ position' = position + 1
  /\ committed' = position + 1
  /\ UNCHANGED <<ledgerVars, clock, expiresAt, linkUntil, happened, paidInTime,
                 kafkaVars, rows>>

(* Postgres, Redis or Kafka raises: the consumer seeks back and retries.   *)
ProcessingFails ==
  /\ pc \in {"audit", "mark", "commit"}
  /\ faults < MaxFaults
  /\ faults' = faults + 1
  /\ pc' = "poll"
  /\ UNCHANGED <<ledgerVars, clock, expiresAt, linkUntil, happened, paidInTime,
                 kafkaVars, committed, position, rows>>

(* The offset a consumer that starts later finds: an offset commit whose   *)
(* answer was lost has taken effect all the same.                          *)
Recorded == {committed} \union {k \in {position + 1} : pc = "commit"}

(* start(), getone() or the seek of the error path raises: the exception   *)
(* ends the consumer task.  The service stays up and starts no other.      *)
ConsumerStops ==
  /\ pc # "stopped"
  /\ faults < MaxFaults
  /\ faults' = faults + 1
  /\ pc' = "stopped"
  /\ committed' \in Recorded
  /\ position' = committed'
  /\ UNCHANGED <<ledgerVars, clock, expiresAt, linkUntil, happened, paidInTime,
                 kafkaVars, rows>>

(* The service dies, or is restarted by hand, and comes up with a new      *)
(* consumer at the committed offset.                                       *)
ConsumerCrash ==
  /\ faults < MaxFaults
  /\ faults' = faults + 1
  /\ pc' = "poll"
  /\ committed' \in Recorded
  /\ position' = committed'
  /\ UNCHANGED <<ledgerVars, clock, expiresAt, linkUntil, happened, paidInTime,
                 kafkaVars, rows>>
-----------------------------------------------------------------------------
Consume == Poll \/ WriteAudit \/ MarkPaid \/ CommitOffset

Next ==
  \/ \E r \in Requests : Checkout(r)
  \/ Expire
  \/ \E e \in Events : Happen(e) \/ Deliver(e) \/ DeliverAckLost(e) \/ DeliverRefused(e)
  \/ Consume
  \/ ProcessingFails
  \/ ConsumerStops
  \/ ConsumerCrash
  \/ Tick

Spec == Init /\ [][Next]_vars

(* A consumer that has not stopped keeps consuming and the scheduler keeps *)
(* scanning; nothing obliges customers to pay, Razorpay to post or anybody *)
(* to restart a service whose consumer has stopped.                        *)
FairSpec == Spec /\ WF_vars(Consume) /\ WF_vars(Expire) /\ WF_vars(Tick)
-----------------------------------------------------------------------------
AuditRow == [invoice : UNION {Invoices, {OrderId[e] : e \in Events},
                              {PaymentId[e] : e \in Events}, {"unknown"}},
             payment : {PaymentId[e] : e \in Events},
             success : BOOLEAN]

(* Every variable stays in its type, the consumer is at or past the        *)
(* committed offset and never past the end of the topic.                   *)
TypeOK ==
  /\ avail \in [Items -> Nat]
  /\ hold \in [Requests -> HoldState]
  /\ clock \in Nat
  /\ expiresAt \in [Requests -> Nat]
  /\ linkUntil \in [Requests -> Nat]
  /\ happened \subseteq Events
  /\ paidInTime \subseteq Requests
  /\ posts \in Nat
  /\ acked \subseteq Events
  /\ topic \in Seq(Events)
  /\ committed \in 0..position
  /\ position \in 0..Len(topic)
  /\ pc \in {"poll", "audit", "mark", "commit", "stopped"}
  /\ pc \in {"audit", "mark", "commit"} => position < Len(topic)
  /\ rows \in Seq(AuditRow)
  /\ faults \in Nat

(* A hold is settled only by a payment that Razorpay really captured for   *)
(* its invoice: unsigned posts never get that far.                         *)
PaidWasCaptured ==
  \A r \in Requests : hold[r] = "paid" =>
    \E e \in happened : Kind[e] = "captured" /\ InvoiceNote[e] = InvoiceOf[r]

Audited(e) == \E k \in 1..Len(rows) : /\ rows[k].invoice = AuditKey(e)
                                      /\ rows[k].payment = PaymentId[e]

(* The row of e says what e says, or what another report of the same      *)
(* payment under the same key says.                                        *)
AuditedAs(e) ==
  \E k \in 1..Len(rows) :
    /\ rows[k].invoice = AuditKey(e) /\ rows[k].payment = PaymentId[e]
    /\ rows[k].success # IsPaymentSuccess(e) =>
         \E f \in happened : /\ AuditKey(f) = AuditKey(e) /\ PaymentId[f] = PaymentId[e]
                             /\ IsPaymentSuccess(f) # IsPaymentSuccess(e)

(* Once the offset of a message is committed its work is done, whatever    *)
(* crashes came in between: it is audited, and a hold that it pays for is  *)
(* not left HELD.                                                          *)
CommittedIsDone ==
  \A k \in 1..committed :
    /\ Audited(topic[k])
    /\ IsPaymentSuccess(topic[k]) =>
         \A r \in paidInTime : InvoiceOf[r] = InvoiceNote[topic[k]] => hold[r] # "held"

(* A paid hold can be traced to its payment: invoice_audit has a row of a  *)
(* captured payment of its invoice, and the row says SUCCESS unless an     *)
(* attempt of the same payment was reported as failed; the row of such an  *)
(* attempt may come first, and then it stays FAILED although the stock is  *)
(* settled.                                                                *)
SettledIsAudited ==
  \A r \in Requests : hold[r] = "paid" =>
    \E e \in happened : /\ Kind[e] = "captured" /\ InvoiceNote[e] = InvoiceOf[r]
                        /\ AuditedAs(e)

(* A webhook that was answered 2xx is never lost: its audit row comes      *)
(* unless the consumer task has ended.  Then nothing brings the row before *)
(* somebody restarts the service, and the row comes after that.            *)
AckedIsAudited == \A e \in Events : (e \in acked) ~> (Audited(e) \/ pc = "stopped")

(* README: "If no pay before TTL -> reservation released, stock restored". *)
(* So a hold that was paid in time is not released.                        *)
PaidInTimeIsKept == \A r \in paidInTime : hold[r] # "released"
=============================================================================
