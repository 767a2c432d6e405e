\* A payment in time whose webhook is handled late.
CONSTANTS
  a = a
  r1 = r1
  inv1 = inv1
  ord1 = ord1
  ord2 = ord2
  pay1 = pay1
  pay2 = pay2
  cap = cap
  fail = fail
  gone = gone
  bare = bare
  forged = forged
  None = None
  Items = {a}
  Requests = {r1}
  Invoices = {inv1}
  Lines <- MCLines
  InvoiceOf <- MCInvoices
  InitialStock <- MCStock
  MaxLines = 1
  MaxQty = 1
  InvoiceNote <- MCNote
  OrderId <- MCOrder
  PaymentId <- MCPayment
  Kind <- MCKind
  Ttl = 2
  LinkTtl = 1
  Events = {cap}
  Signed = {cap}
  MaxTime = 2
  MaxDeliveries = 1
  MaxFaults = 0
\* Every webhook handled and the clock at its bound: nothing is left to do.
CHECK_DEADLOCK FALSE
SPECIFICATION Spec
INVARIANTS PaidInTimeIsKept
