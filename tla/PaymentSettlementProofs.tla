---------------------- MODULE PaymentSettlementProofs ----------------------
(***************************************************************************)
(* Proofs about PaymentSettlement: for any webhooks, any order, number and *)
(* loss of deliveries and any crashes of the consumer.                     *)
(***************************************************************************)
EXTENDS PaymentSettlement, ReservationDataProofs

LEMMA RowsOfType ==
  /\ \A r, i : Quantity(RowsOf(r), i) \in Nat
  /\ \A R, i : Quantity(RowsIn(R), i) \in Nat
<1>1. \A r : RowsOf(r) \in SUBSET Rows
  BY DEF RowsOf
<1>2. \A R : RowsIn(R) \in SUBSET Rows
  BY DEF RowsIn
<1>. QED
  BY <1>1, <1>2, QuantityType, Zenon

(* The message the consumer handles is one of the topic's.                 *)
LEMMA MessageType ==
  ASSUME TypeOK, pc \in {"audit", "mark", "commit"}
  PROVE  Message \in Events /\ position + 1 \in 1..Len(topic)
BY DEF TypeOK, Message

(* What a message or a row at the end of a sequence changes.               *)
LEMMA Appended ==
  ASSUME NEW T, NEW q \in Seq(T), NEW x \in T
  PROVE  /\ Append(q, x) \in Seq(T) /\ Len(q) \in Nat
         /\ Len(Append(q, x)) = Len(q) + 1
         /\ \A k \in 1..Len(q) : Append(q, x)[k] = q[k]
         /\ Append(q, x)[Len(q) + 1] = x
OBVIOUS

LEMMA RowForType ==
  ASSUME NEW e \in Events
  PROVE  RowFor(e) \in AuditRow
BY SettlementAssumption DEF RowFor, AuditRow, AuditKey, IsPaymentSuccess

LEMMA TypeInit == Init => TypeOK
BY LinesAssumption DEF Init, LedgerInit, TypeOK, HoldState

(* Every variable keeps its type.                                          *)
LEMMA TypeStep == TypeOK /\ [Next]_vars => TypeOK'
<1> SUFFICES ASSUME TypeOK, [Next]_vars PROVE TypeOK'
  OBVIOUS
<1> USE SettlementAssumption
<1> USE DEF TypeOK, ledgerVars, kafkaVars, consumerVars, HoldState
<1>1. ASSUME NEW r \in Requests, Checkout(r) PROVE TypeOK'
  <2>1. avail' \in [Items -> Nat]
    BY <1>1, RowsOfType DEF Checkout, Grant
  <2>. QED
    BY <1>1, <2>1 DEF Checkout, Grant
<1>2. CASE Expire
  <2>1. avail' \in [Items -> Nat]
    BY <1>2, RowsOfType DEF Expire, Release
  <2>. QED
    BY <1>2, <2>1 DEF Expire, Release
<1>3. ASSUME NEW e \in Events, Happen(e) PROVE TypeOK'
  BY <1>3 DEF Happen, LinkOf
<1>4. ASSUME NEW e \in Events, Deliver(e) \/ DeliverAckLost(e) \/ DeliverRefused(e) PROVE TypeOK'
  <2>1. topic' \in Seq(Events) /\ Len(topic') \in Nat /\ Len(topic) <= Len(topic')
    <3>1. topic' = topic \/ topic' = Append(topic, e)
      BY <1>4 DEF Deliver, DeliverAckLost, DeliverRefused
    <3>2. topic \in Seq(Events)
      OBVIOUS
    <3>3. CASE topic' = topic
      BY <3>2, <3>3
    <3>4. CASE topic' = Append(topic, e)
      <4>1. Append(topic, e) \in Seq(Events) /\ Len(topic) \in Nat
            /\ Len(Append(topic, e)) = Len(topic) + 1
        BY <3>2, Appended
      <4>. QED
        BY <3>4, <4>1
    <3>. QED
      BY <3>1, <3>3, <3>4
  <2>. QED
    BY <1>4, <2>1, SMTT(30) DEF Deliver, DeliverAckLost, DeliverRefused, Posted
<1>5. CASE Poll
  BY <1>5 DEF Poll
<1>6. CASE WriteAudit
  <2>1. rows' \in Seq(AuditRow)
    <3>1. RowFor(Message) \in AuditRow
      BY <1>6, MessageType, RowForType DEF WriteAudit
    <3>. QED
      BY <1>6, <3>1 DEF WriteAudit
  <2>. QED
    BY <1>6, <2>1 DEF WriteAudit
<1>7. CASE MarkPaid
  BY <1>7 DEF MarkPaid, Settle
<1>8. CASE CommitOffset
  BY <1>8 DEF CommitOffset
<1>9. CASE ProcessingFails
  BY <1>9 DEF ProcessingFails
<1>10. CASE ConsumerStops \/ ConsumerCrash
  <2>1. committed' \in 0..Len(topic)
    BY <1>10 DEF ConsumerStops, ConsumerCrash, Recorded
  <2>. QED
    BY <1>10, <2>1 DEF ConsumerStops, ConsumerCrash
<1>11. CASE Tick
  BY <1>11 DEF Tick
<1>12. CASE UNCHANGED vars
  BY <1>12 DEF vars
<1>. QED
  BY <1>1, <1>2, <1>3, <1>4, <1>5, <1>6, <1>7, <1>8, <1>9, <1>10, <1>11, <1>12 DEF Next, Consume

(* Every variable stays in its type, whatever is lost, repeated or crashes.*)
THEOREM SettlementTyped == Spec => []TypeOK
BY TypeInit, TypeStep, PTL DEF Spec
-----------------------------------------------------------------------------
(* Only what Razorpay reported gets into the topic.                        *)
TopicInv == \A k \in 1..Len(topic) : topic[k] \in happened

(* A row says what some reported webhook says.                             *)
RowInv == \A k \in 1..Len(rows) : \E e \in happened : rows[k] = RowFor(e)

(* What the stages of the consumer have established.                       *)
StageInv ==
  /\ committed = position
  /\ pc \in {"mark", "commit"} => Audited(Message)
  /\ pc = "mark" => IsPaymentSuccess(Message) /\ InvoiceNote[Message] # None

(* A committed message is audited.                                         *)
AuditDone == \A k \in 1..committed : Audited(topic[k])

(* The inductive invariant of settlement.                                  *)
SafeInv == /\ TypeOK /\ TopicInv /\ RowInv /\ StageInv /\ AuditDone
           /\ PaidWasCaptured /\ SettledIsAudited

LEMMA SafeInit == Init => SafeInv
<1> SUFFICES ASSUME Init PROVE SafeInv
  OBVIOUS
<1>1. TypeOK
  BY TypeInit
<1>2. Len(topic) = 0 /\ Len(rows) = 0 /\ committed = 0 /\ position = 0 /\ pc = "poll"
  BY DEF Init
<1>3. TopicInv /\ RowInv /\ StageInv /\ AuditDone
  BY <1>2 DEF TopicInv, RowInv, StageInv, AuditDone
<1>4. PaidWasCaptured /\ SettledIsAudited
  BY DEF Init, LedgerInit, PaidWasCaptured, SettledIsAudited
<1>. QED
  BY <1>1, <1>3, <1>4 DEF SafeInv

(* A delivery leaves the messages before it where they are.                *)
LEMMA Delivery ==
  ASSUME TypeOK, NEW e \in Events,
         Deliver(e) \/ DeliverAckLost(e) \/ DeliverRefused(e)
  PROVE  /\ Len(topic') \in Nat /\ Len(topic) \in Nat /\ Len(topic) <= Len(topic')
         /\ \A k \in 1..Len(topic) : topic'[k] = topic[k]
         /\ \A k \in 1..Len(topic') : k \notin 1..Len(topic) => topic'[k] \in happened
         /\ UNCHANGED <<ledgerVars, clock, expiresAt, linkUntil, happened, paidInTime,
                        consumerVars, rows, faults>>
<1>1. topic \in Seq(Events) /\ Len(topic) \in Nat
  BY DEF TypeOK
<1>2. UNCHANGED <<ledgerVars, clock, expiresAt, linkUntil, happened, paidInTime,
                  consumerVars, rows, faults>>
  BY DEF Deliver, DeliverAckLost, DeliverRefused, Posted
<1>3. CASE topic' = topic
  BY <1>1, <1>2, <1>3
<1>4. CASE topic' = Append(topic, e) /\ e \in happened
  <2>1. /\ Len(Append(topic, e)) = Len(topic) + 1
        /\ \A k \in 1..Len(topic) : Append(topic, e)[k] = topic[k]
        /\ Append(topic, e)[Len(topic) + 1] = e
    BY <1>1, Appended
  <2>. QED
    BY <1>1, <1>2, <1>4, <2>1
<1>5. topic' = topic \/ (topic' = Append(topic, e) /\ e \in happened)
  BY DEF Deliver, DeliverAckLost, DeliverRefused, Posted, Accepts
<1>. QED
  BY <1>3, <1>4, <1>5

(* A row that is there for a reported webhook says what it says, or what   *)
(* another report of the same payment says.                                *)
LEMMA AuditedSays ==
  ASSUME RowInv, NEW e, Audited(e)
  PROVE  AuditedAs(e)
<1>1. PICK k \in 1..Len(rows) : rows[k].invoice = AuditKey(e) /\ rows[k].payment = PaymentId[e]
  BY DEF Audited
<1>2. PICK f \in happened : rows[k] = RowFor(f)
  BY DEF RowInv
<1>3. /\ AuditKey(f) = AuditKey(e) /\ PaymentId[f] = PaymentId[e]
      /\ rows[k].success = IsPaymentSuccess(f)
  BY <1>1, <1>2 DEF RowFor
<1>. QED
  BY <1>1, <1>3 DEF AuditedAs

(* An audit row is never removed nor rewritten.                            *)
LEMMA AuditStays ==
  ASSUME TypeOK, RowInv, WriteAudit, Message \in happened
  PROVE  /\ \A e : Audited(e) => Audited(e)'
         /\ \A e : AuditedAs(e) => AuditedAs(e)'
         /\ Audited(Message)'
         /\ RowInv'
<1> DEFINE m == Message
<1>1. m \in Events /\ RowFor(m) \in AuditRow
  BY MessageType, RowForType DEF WriteAudit
<1>2. rows \in Seq(AuditRow) /\ Len(rows) \in Nat
  BY DEF TypeOK
<1>3. Message' = m /\ happened' = happened
  BY DEF WriteAudit, kafkaVars, Message
<1>4. CASE Conflicts(m) /\ rows' = rows
  <2>1. Audited(m)
    BY <1>4 DEF Conflicts, Audited
  <2>. QED
    BY <1>3, <1>4, <2>1
       DEF Audited, AuditedAs, RowInv, RowFor, AuditKey, IsPaymentSuccess
<1>5. CASE ~Conflicts(m) /\ rows' = Append(rows, RowFor(m))
  <2>1. /\ Len(rows') = Len(rows) + 1
        /\ \A k \in 1..Len(rows) : rows'[k] = rows[k]
        /\ rows'[Len(rows) + 1] = RowFor(m)
    BY <1>1, <1>2, <1>5, Appended
  <2>2. RowFor(m).invoice = AuditKey(m) /\ RowFor(m).payment = PaymentId[m]
    BY DEF RowFor
  <2>3. \A e : Audited(e) => Audited(e)'
    BY <1>2, <2>1 DEF Audited, AuditKey
  <2>4. Audited(Message)'
    <3>1. Len(rows) + 1 \in 1..Len(rows')
      BY <1>2, <2>1
    <3>. QED
      BY <1>3, <2>1, <2>2, <3>1 DEF Audited, AuditKey
  <2>5. \A e : AuditedAs(e) => AuditedAs(e)'
    BY <1>2, <1>3, <2>1 DEF AuditedAs, AuditKey, IsPaymentSuccess
  <2>6. RowInv'
    <3> SUFFICES ASSUME NEW k \in 1..Len(rows')
                 PROVE  \E e \in happened : rows'[k] = RowFor(e)
      BY <1>3 DEF RowInv, RowFor, AuditKey, IsPaymentSuccess
    <3>1. CASE k \in 1..Len(rows)
      BY <2>1, <3>1 DEF RowInv
    <3>2. CASE k = Len(rows) + 1
      BY <2>1, <3>2
    <3>. QED
      BY <1>2, <2>1, <3>1, <3>2
  <2>. QED
    BY <2>3, <2>4, <2>5, <2>6
<1>. QED
  BY <1>4, <1>5 DEF WriteAudit

(* Steps outside the consumer that pay for nothing.                        *)
LEMMA QuietStep ==
  ASSUME SafeInv, TypeOK', UNCHANGED <<topic, consumerVars, rows>>,
         happened \subseteq happened',
         \A r \in Requests : hold'[r] = "paid" => hold[r] = "paid"
  PROVE  SafeInv'
<1>1. TopicInv' /\ PaidWasCaptured'
  BY DEF SafeInv, TopicInv, PaidWasCaptured
<1>2. RowInv'
  BY DEF SafeInv, RowInv, RowFor, AuditKey, IsPaymentSuccess
<1>3. StageInv' /\ AuditDone'
  BY DEF SafeInv, StageInv, AuditDone, consumerVars, Audited, AuditKey, Message, IsPaymentSuccess
<1>4. \A e : AuditedAs(e) => AuditedAs(e)'
  BY DEF AuditedAs, AuditKey, IsPaymentSuccess
<1>5. SettledIsAudited'
  BY <1>4 DEF SafeInv, SettledIsAudited
<1>. QED
  BY <1>1, <1>2, <1>3, <1>5 DEF SafeInv

LEMMA SafeStep == SafeInv /\ [Next]_vars => SafeInv'
<1> SUFFICES ASSUME SafeInv, [Next]_vars PROVE SafeInv'
  OBVIOUS
<1>t. TypeOK /\ TypeOK'
  BY TypeStep DEF SafeInv
<1> USE <1>t
<1>1. ASSUME NEW r \in Requests, Checkout(r) PROVE SafeInv'
  <2>1. \A s \in Requests : hold'[s] = "paid" => hold[s] = "paid"
    BY <1>1 DEF Checkout, Grant, TypeOK
  <2>. QED
    BY <1>1, <2>1, QuietStep DEF Checkout, kafkaVars
<1>2. CASE Expire
  <2>1. \A s \in Requests : hold'[s] = "paid" => hold[s] = "paid"
    BY <1>2 DEF Expire, Release
  <2>. QED
    BY <1>2, <2>1, QuietStep DEF Expire, kafkaVars
<1>3. ASSUME NEW e \in Events, Happen(e) PROVE SafeInv'
  BY <1>3, QuietStep DEF Happen, kafkaVars, ledgerVars
<1>4. ASSUME NEW e \in Events, Deliver(e) \/ DeliverAckLost(e) \/ DeliverRefused(e)
      PROVE  SafeInv'
  <2>1. /\ Len(topic') \in Nat /\ Len(topic) \in Nat /\ Len(topic) <= Len(topic')
        /\ \A k \in 1..Len(topic) : topic'[k] = topic[k]
        /\ \A k \in 1..Len(topic') : k \notin 1..Len(topic) => topic'[k] \in happened
        /\ UNCHANGED <<ledgerVars, happened, consumerVars, rows>>
    BY <1>4, Delivery
  <2>2. TopicInv' /\ RowInv' /\ PaidWasCaptured' /\ SettledIsAudited'
    BY <2>1 DEF SafeInv, TopicInv, RowInv, RowFor, PaidWasCaptured, SettledIsAudited, AuditedAs,
                AuditKey, IsPaymentSuccess, ledgerVars
  <2>3. StageInv'
    <3>1. CASE pc \notin {"audit", "mark", "commit"}
      BY <2>1, <3>1 DEF SafeInv, StageInv, consumerVars
    <3>2. CASE pc \in {"audit", "mark", "commit"}
      <4>1. Message' = Message
        BY <2>1, <3>2, MessageType DEF Message, consumerVars
      <4> DEFINE m == Message
      <4>2. Audited(m) => Audited(m)'
        BY <2>1, <4>1 DEF Audited, AuditKey
      <4>3. pc \in {"mark", "commit"} => Audited(Message)'
        BY <4>1, <4>2 DEF SafeInv, StageInv
      <4>4. pc = "mark" => IsPaymentSuccess(Message)' /\ InvoiceNote[Message'] # None
        BY <4>1 DEF SafeInv, StageInv, IsPaymentSuccess
      <4>5. UNCHANGED <<committed, position, pc>> /\ committed = position
        BY <2>1 DEF SafeInv, StageInv, consumerVars
      <4>. QED
        BY <4>3, <4>4, <4>5 DEF StageInv
    <3>. QED
      BY <3>1, <3>2
  <2>4. AuditDone'
    <3>0. \A k \in 1..committed : k \in 1..Len(topic)
      BY <2>1 DEF TypeOK
    <3>1. \A k \in 1..committed : topic'[k] = topic[k]
      BY <2>1, <3>0
    <3>. QED
      BY <2>1, <3>1 DEF SafeInv, AuditDone, Audited, AuditKey, consumerVars
  <2>. QED
    BY <2>2, <2>3, <2>4 DEF SafeInv
<1>i. ASSUME UNCHANGED <<topic, happened, hold, rows>>
      PROVE  TopicInv' /\ RowInv' /\ PaidWasCaptured' /\ SettledIsAudited'
  BY <1>i DEF SafeInv, TopicInv, RowInv, RowFor, PaidWasCaptured, SettledIsAudited, AuditedAs,
              AuditKey, IsPaymentSuccess
<1>5. CASE Poll
  <2>1. UNCHANGED <<topic, happened, hold, rows>>
    BY <1>5 DEF Poll, ledgerVars, kafkaVars
  <2>2. TopicInv' /\ RowInv' /\ PaidWasCaptured' /\ SettledIsAudited'
    BY <1>i, <2>1
  <2>3. StageInv' /\ AuditDone'
    BY <1>5 DEF Poll, SafeInv, StageInv, AuditDone, Audited, AuditKey, kafkaVars
  <2>. QED
    BY <2>2, <2>3 DEF SafeInv
<1>6. CASE WriteAudit
  <2>1. /\ \A e : Audited(e) => Audited(e)'
        /\ \A e : AuditedAs(e) => AuditedAs(e)'
        /\ Audited(Message)'
        /\ RowInv'
    <3>1. Message \in happened
      BY <1>6, MessageType DEF SafeInv, TopicInv, Message, WriteAudit
    <3>. QED
      BY <1>6, <3>1, AuditStays DEF SafeInv
  <2>2. UNCHANGED <<topic, happened, hold, committed, position>>
    BY <1>6 DEF WriteAudit, ledgerVars, kafkaVars
  <2>3. TopicInv' /\ PaidWasCaptured' /\ SettledIsAudited'
    BY <2>1, <2>2 DEF SafeInv, TopicInv, PaidWasCaptured, SettledIsAudited
  <2>4. Message' = Message
    BY <2>2 DEF Message
  <2>5. StageInv'
    BY <1>6, <2>1, <2>2, <2>4 DEF SafeInv, StageInv, WriteAudit, IsPaymentSuccess
  <2>6. AuditDone'
    <3> SUFFICES ASSUME NEW k \in 1..committed PROVE Audited(topic[k])'
      BY <2>2 DEF AuditDone
    <3>1. Audited(topic[k])
      BY DEF SafeInv, AuditDone
    <3> DEFINE e == topic[k]
    <3>2. Audited(e)'
      BY <2>1, <2>2, <3>1 DEF Audited, AuditKey
    <3>. QED
      BY <2>2, <3>2
  <2>. QED
    BY <2>1, <2>3, <2>5, <2>6 DEF SafeInv
<1>7. CASE MarkPaid
  <2>1. UNCHANGED <<topic, happened, rows, committed, position>> /\ pc = "mark" /\ pc' = "commit"
    BY <1>7 DEF MarkPaid, kafkaVars
  <2>2. TopicInv' /\ RowInv' /\ AuditDone' /\ StageInv'
    BY <2>1 DEF SafeInv, TopicInv, RowInv, RowFor, StageInv, AuditDone, Audited, AuditKey,
                Message, IsPaymentSuccess
  <2>3. /\ Message \in happened /\ Kind[Message] = "captured"
        /\ InvoiceNote[Message] \in Invoices
    BY <2>1, MessageType, SettlementAssumption
       DEF SafeInv, StageInv, TopicInv, Message, IsPaymentSuccess
  <2>4. PaidWasCaptured'
    BY <1>7, <2>1, <2>3 DEF SafeInv, PaidWasCaptured, MarkPaid, Settle
  <2>5. AuditedAs(Message)
    BY <2>1, AuditedSays DEF SafeInv, StageInv
  <2>6. \A e : AuditedAs(e) => AuditedAs(e)'
    BY <2>1 DEF AuditedAs, AuditKey, IsPaymentSuccess
  <2>7. SettledIsAudited'
    <3> DEFINE m == Message
    <3> SUFFICES ASSUME NEW r \in Requests, hold'[r] = "paid"
                 PROVE  \E e \in happened : /\ Kind[e] = "captured"
                                            /\ InvoiceNote[e] = InvoiceOf[r] /\ AuditedAs(e)
      BY <2>1, <2>6 DEF SettledIsAudited
    <3>1. CASE hold[r] = "paid"
      BY <3>1 DEF SafeInv, SettledIsAudited
    <3>2. CASE hold[r] # "paid"
      <4>1. InvoiceNote[m] = InvoiceOf[r]
        BY <1>7, <3>2 DEF MarkPaid, Settle, TypeOK
      <4>. QED
        BY <2>3, <2>5, <4>1
    <3>. QED
      BY <3>1, <3>2
  <2>. QED
    BY <2>2, <2>4, <2>7 DEF SafeInv
<1>8. CASE CommitOffset
  <2>1. /\ UNCHANGED <<topic, happened, rows, hold>>
        /\ pc = "commit" /\ pc' = "poll" /\ committed = position
        /\ committed' = committed + 1 /\ position' = committed'
    BY <1>8 DEF CommitOffset, SafeInv, StageInv, kafkaVars, ledgerVars
  <2>2. TopicInv' /\ RowInv' /\ PaidWasCaptured' /\ SettledIsAudited' /\ StageInv'
    BY <1>i, <2>1 DEF SafeInv, StageInv
  <2>3. AuditDone'
    <3>1. Audited(topic[committed + 1])
      BY <2>1 DEF SafeInv, StageInv, Message
    <3>2. \A k \in 1..(committed + 1) : Audited(topic[k])
      BY <3>1 DEF SafeInv, AuditDone, TypeOK
    <3>. QED
      BY <2>1, <3>2 DEF AuditDone, Audited, AuditKey
  <2>. QED
    BY <2>2, <2>3 DEF SafeInv
<1>9. CASE ProcessingFails
  <2>1. UNCHANGED <<topic, happened, hold, rows>>
    BY <1>9 DEF ProcessingFails, ledgerVars, kafkaVars
  <2>2. TopicInv' /\ RowInv' /\ PaidWasCaptured' /\ SettledIsAudited'
    BY <1>i, <2>1
  <2>3. StageInv' /\ AuditDone'
    BY <1>9 DEF ProcessingFails, SafeInv, StageInv, AuditDone, Audited, AuditKey, kafkaVars
  <2>. QED
    BY <2>2, <2>3 DEF SafeInv
<1>10. CASE ConsumerStops \/ ConsumerCrash
  <2>1. /\ UNCHANGED <<topic, happened, rows, hold>> /\ pc' \in {"poll", "stopped"}
        /\ position' = committed' /\ committed' \in Recorded
    BY <1>10 DEF ConsumerStops, ConsumerCrash, kafkaVars, ledgerVars
  <2>2. TopicInv' /\ RowInv' /\ PaidWasCaptured' /\ SettledIsAudited' /\ StageInv'
    BY <1>i, <2>1 DEF SafeInv, StageInv
  <2>3. CASE committed' = committed
    BY <2>1, <2>2, <2>3 DEF SafeInv, AuditDone, Audited, AuditKey
  <2>4. CASE committed' = position + 1 /\ pc = "commit"
    <3>1. Audited(topic[committed + 1]) /\ committed' = committed + 1
      BY <2>4 DEF SafeInv, StageInv, Message
    <3>2. \A k \in 1..(committed + 1) : Audited(topic[k])
      BY <3>1 DEF SafeInv, AuditDone, TypeOK
    <3>. QED
      BY <2>1, <2>2, <3>1, <3>2 DEF SafeInv, AuditDone, Audited, AuditKey
  <2>. QED
    BY <2>1, <2>3, <2>4 DEF Recorded
<1>11. CASE Tick
  BY <1>11, QuietStep DEF Tick, kafkaVars, ledgerVars
<1>12. CASE UNCHANGED vars
  BY <1>12, QuietStep DEF vars, kafkaVars, ledgerVars
<1>. QED
  BY <1>1, <1>2, <1>3, <1>4, <1>5, <1>6, <1>7, <1>8, <1>9, <1>10, <1>11, <1>12 DEF Next, Consume

LEMMA SafeAlways == Spec => []SafeInv
BY SafeInit, SafeStep, PTL DEF Spec

(* A hold is marked paid only for a payment that Razorpay captured for its *)
(* invoice: process_webhook acts on verified messages of the topic only.   *)
THEOREM SettledWasCaptured == Spec => []PaidWasCaptured
<1>1. SafeInv => PaidWasCaptured
  BY DEF SafeInv
<1>. QED
  BY <1>1, SafeAlways, PTL

(* A paid hold has its audit row: process_webhook writes the row before it *)
(* marks the stock paid, and whatever fails or is repeated in between, the *)
(* invoice has a row of a captured payment.  The row is a SUCCESS row, or  *)
(* a failed attempt of that payment was reported too.                      *)
THEOREM SettledPaymentsAudited == Spec => []SettledIsAudited
<1>1. SafeInv => SettledIsAudited
  BY DEF SafeInv
<1>. QED
  BY <1>1, SafeAlways, PTL
-----------------------------------------------------------------------------
(* Each invoice is submitted once; a second submission could be granted    *)
(* after the payment of the first was handled.                             *)
OneRequestPerInvoice == \A r, q \in Requests : InvoiceOf[r] = InvoiceOf[q] => r = q

(* A request with a link was granted, and a reported event has a link.     *)
LinkInv ==
  /\ \A r \in Requests : linkUntil[r] # 0 => hold[r] # "none"
  /\ \A e \in happened : InvoiceNote[e] # None =>
       \E r \in Requests : InvoiceOf[r] = InvoiceNote[e] /\ linkUntil[r] # 0

NotHeld(e) == \A r \in Requests : InvoiceOf[r] = InvoiceNote[e] => hold[r] # "held"

(* A captured payment that was marked leaves no hold of its invoice.       *)
DoneInv ==
  /\ \A k \in 1..committed : IsPaymentSuccess(topic[k]) => NotHeld(topic[k])
  /\ pc = "commit" /\ IsPaymentSuccess(Message) => NotHeld(Message)

SettleInv == SafeInv /\ LinkInv /\ DoneInv

LEMMA LinkStep ==
  ASSUME SafeInv, LinkInv, [Next]_vars
  PROVE  LinkInv'
<1> USE DEF SafeInv, TypeOK, LinkInv, ledgerVars
<1>1. ASSUME NEW r \in Requests, Checkout(r) PROVE LinkInv'
  BY <1>1 DEF Checkout, Grant
<1>2. CASE Expire
  BY <1>2 DEF Expire, Release
<1>3. ASSUME NEW e \in Events, Happen(e) PROVE LinkInv'
  BY <1>3 DEF Happen, LinkOf
<1>4. CASE MarkPaid
  BY <1>4 DEF MarkPaid, Settle
<1>5. CASE UNCHANGED <<hold, linkUntil, happened>>
  BY <1>5
<1>. QED
  BY <1>1, <1>2, <1>3, <1>4, <1>5
     DEF Next, Consume, Deliver, DeliverAckLost, DeliverRefused, Posted, Poll, WriteAudit,
         CommitOffset, ProcessingFails, ConsumerStops, ConsumerCrash, Tick, vars

(* What was settled stays settled: no request of a reported invoice is     *)
(* granted again.                                                          *)
LEMMA NotHeldStays ==
  ASSUME OneRequestPerInvoice, SafeInv, LinkInv, [Next]_vars, NEW e \in happened, NotHeld(e)
  PROVE  NotHeld(e)'
<1> USE DEF SafeInv, TypeOK, NotHeld, ledgerVars
<1>1. ASSUME NEW r \in Requests, Checkout(r) PROVE NotHeld(e)'
  <2>1. InvoiceOf[r] # InvoiceNote[e]
    <3>1. CASE InvoiceNote[e] = None
      BY <3>1, LinesAssumption, SettlementAssumption
    <3>2. CASE InvoiceNote[e] # None
      <4>1. PICK q \in Requests : InvoiceOf[q] = InvoiceNote[e] /\ linkUntil[q] # 0
        BY <3>2 DEF LinkInv
      <4>2. hold[q] # "none" /\ hold[r] = "none"
        BY <1>1, <4>1 DEF LinkInv, Checkout, Grant
      <4>. QED
        BY <4>1, <4>2 DEF OneRequestPerInvoice
    <3>. QED
      BY <3>1, <3>2
  <2>. QED
    BY <1>1, <2>1 DEF Checkout, Grant
<1>2. CASE Expire
  BY <1>2 DEF Expire, Release
<1>3. CASE MarkPaid
  BY <1>3 DEF MarkPaid, Settle
<1>4. CASE UNCHANGED hold
  BY <1>4
<1>. QED
  BY <1>1, <1>2, <1>3, <1>4
     DEF Next, Consume, Happen, Deliver, DeliverAckLost, DeliverRefused, Posted, Poll, WriteAudit,
         CommitOffset, ProcessingFails, ConsumerStops, ConsumerCrash, Tick, vars

LEMMA DoneStep ==
  ASSUME OneRequestPerInvoice, SettleInv, [Next]_vars
  PROVE  DoneInv'
<1> SafeInv /\ SafeInv' /\ LinkInv /\ DoneInv
  BY SafeStep DEF SettleInv
<1>1. ASSUME NEW k \in 1..Len(topic), NotHeld(topic[k]), topic'[k] = topic[k]
      PROVE  NotHeld(topic[k])'
  <2> DEFINE e == topic[k]
  <2>1. e \in happened
    BY DEF SafeInv, TopicInv
  <2>2. NotHeld(e)'
    BY <1>1, <2>1, NotHeldStays
  <2>. QED
    BY <1>1, <2>2
<1>2. /\ Len(topic) \in Nat /\ committed \in 0..Len(topic)
      /\ (pc \in {"audit", "mark", "commit"} => position + 1 \in 1..Len(topic))
  BY DEF SafeInv, TypeOK
<1>3. ASSUME UNCHANGED <<committed, position>>,
             \A k \in 1..Len(topic) : topic'[k] = topic[k],
             pc' = "commit" => pc = "commit"
      PROVE  DoneInv'
  <2>1. \A k \in 1..committed : IsPaymentSuccess(topic[k])' => NotHeld(topic[k])'
    BY <1>1, <1>2, <1>3 DEF DoneInv, IsPaymentSuccess
  <2>2. pc' = "commit" /\ IsPaymentSuccess(Message)' => NotHeld(Message)'
    BY <1>1, <1>2, <1>3 DEF DoneInv, IsPaymentSuccess, Message
  <2>. QED
    BY <1>3, <2>1, <2>2 DEF DoneInv
<1>4. CASE UNCHANGED <<topic, committed, position>> /\ (pc' = "commit" => pc = "commit")
  BY <1>3, <1>4
<1>5. ASSUME NEW e \in Events, Deliver(e) \/ DeliverAckLost(e) \/ DeliverRefused(e)
      PROVE  DoneInv'
  BY <1>3, <1>5, Delivery DEF SafeInv, consumerVars
<1>6. ASSUME UNCHANGED <<topic, committed, position>>,
             pc \in {"audit", "mark", "commit"},
             IsPaymentSuccess(Message) => NotHeld(Message)'
      PROVE  DoneInv'
  <2>1. \A k \in 1..committed : IsPaymentSuccess(topic[k])' => NotHeld(topic[k])'
    BY <1>1, <1>2, <1>6 DEF DoneInv, IsPaymentSuccess
  <2>2. IsPaymentSuccess(Message)' => IsPaymentSuccess(Message)
    BY <1>6 DEF IsPaymentSuccess, Message
  <2>. QED
    BY <1>6, <2>1, <2>2 DEF DoneInv
<1>7. CASE WriteAudit
  <2>1. UNCHANGED <<topic, committed, position, hold>> /\ pc = "audit"
    BY <1>7 DEF WriteAudit, kafkaVars, ledgerVars
  <2>2. CASE pc' # "commit"
    BY <1>4, <2>1, <2>2
  <2>3. CASE pc' = "commit"
    <3>1. IsPaymentSuccess(Message) => InvoiceNote[Message] = None
      BY <1>7, <2>3 DEF WriteAudit
    <3>2. IsPaymentSuccess(Message) => NotHeld(Message)'
      BY <2>1, <3>1, LinesAssumption, SettlementAssumption DEF NotHeld, Message
    <3>. QED
      BY <1>6, <2>1, <3>2
  <2>. QED
    BY <2>2, <2>3
<1>8. CASE MarkPaid
  <2>1. UNCHANGED <<topic, committed, position>> /\ pc = "mark"
    BY <1>8 DEF MarkPaid, kafkaVars
  <2>2. NotHeld(Message)'
    BY <1>8, <2>1 DEF MarkPaid, Settle, NotHeld, Message
  <2>. QED
    BY <1>6, <2>1, <2>2
<1>9. ASSUME UNCHANGED topic, pc = "commit", pc' # "commit", committed' = committed + 1
      PROVE  DoneInv'
  <2>1. position = committed
    BY DEF SafeInv, StageInv
  <2>2. \A k \in 1..(committed + 1) : IsPaymentSuccess(topic[k]) => NotHeld(topic[k])
    BY <1>2, <1>9, <2>1 DEF DoneInv, Message
  <2>3. \A k \in 1..(committed + 1) : IsPaymentSuccess(topic[k])' => NotHeld(topic[k])'
    BY <1>1, <1>2, <1>9, <2>1, <2>2 DEF IsPaymentSuccess
  <2>. QED
    BY <1>9, <2>3 DEF DoneInv
<1>10. CASE CommitOffset
  BY <1>9, <1>10 DEF CommitOffset, kafkaVars, SafeInv, StageInv
<1>11. CASE ConsumerStops \/ ConsumerCrash
  <2>1. /\ UNCHANGED topic /\ pc' # "commit" /\ committed = position
        /\ position' = committed' /\ committed' \in Recorded
    BY <1>11 DEF ConsumerStops, ConsumerCrash, kafkaVars, SafeInv, StageInv
  <2>2. CASE committed' = committed
    BY <1>4, <2>1, <2>2
  <2>3. CASE committed' = position + 1 /\ pc = "commit"
    BY <1>9, <2>1, <2>3
  <2>. QED
    BY <2>1, <2>2, <2>3 DEF Recorded
<1>12. CASE \/ \E r \in Requests : Checkout(r)
            \/ Expire \/ (\E e \in Events : Happen(e)) \/ Poll \/ ProcessingFails \/ Tick
            \/ UNCHANGED vars
  BY <1>4, <1>12 DEF Checkout, Expire, Happen, Poll, ProcessingFails, Tick, vars, kafkaVars,
                     consumerVars
<1>. QED
  BY <1>5, <1>7, <1>8, <1>10, <1>11, <1>12 DEF Next, Consume

(* When the offset of a webhook is committed its audit row is there, and a *)
(* hold that its payment was made for in time is not left HELD: the work   *)
(* of process_webhook survives every crash, retry and redelivery.          *)
THEOREM CommittedWorkIsDone ==
  ASSUME OneRequestPerInvoice
  PROVE  Spec => []CommittedIsDone
<1>1. Init => SettleInv
  <2> SUFFICES ASSUME Init PROVE SettleInv
    OBVIOUS
  <2>1. SafeInv
    BY SafeInit
  <2>2. LinkInv /\ DoneInv
    BY DEF Init, LinkInv, DoneInv
  <2>. QED
    BY <2>1, <2>2 DEF SettleInv
<1>2. SettleInv /\ [Next]_vars => SettleInv'
  BY SafeStep, LinkStep, DoneStep DEF SettleInv
<1>3. SettleInv => CommittedIsDone
  BY DEF SettleInv, SafeInv, TypeOK, AuditDone, DoneInv, NotHeld, CommittedIsDone
<1>. QED
  BY <1>1, <1>2, <1>3, PTL DEF Spec
=============================================================================
