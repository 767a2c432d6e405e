\* Duplicated posts, consumer crashes, forged posts; liveness of the consumer.
CONSTANTS
  a = a
  r1 = r1
  inv1 = inv1
  ord1 = ord1
  ord2 = ord2
  pay1 = pay1
  pay2 = pay2
  cap = cap
  fail = fail
  gone = gone
  bare = bare
  forged = forged
  None = None
  Items = {a}
  Requests = {r1}
  Invoices = {inv1}
  Lines <- MCLines
  InvoiceOf <- MCInvoices
  InitialStock <- MCStock
  MaxLines = 1
  MaxQty = 1
  InvoiceNote <- MCNote
  OrderId <- MCOrder
  PaymentId <- MCPayment
  Kind <- MCKind
  Ttl = 2
  LinkTtl = 1
  Events = {cap, fail, gone, bare, forged}
  Signed = {cap, fail, gone, bare}
  MaxTime = 2
  MaxDeliveries = 3
  MaxFaults = 2
\* Every webhook handled and the clock at its bound: nothing is left to do.
CHECK_DEADLOCK FALSE
SPECIFICATION FairSpec
INVARIANTS TypeOK PaidWasCaptured CommittedIsDone SettledIsAudited
PROPERTIES AckedIsAudited
