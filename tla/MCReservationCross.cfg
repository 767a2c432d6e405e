\* Two invoices over the same two items in opposite order.
CONSTANTS
  a = a
  b = b
  r1 = r1
  r2 = r2
  r3 = r3
  inv1 = inv1
  inv2 = inv2
  Items = {a, b}
  Requests = {r1, r2}
  Invoices = {inv1, inv2}
  Schedulers = {s1}
  Payers = {p1}
  NoProc = NoProc
  NoValue = NoValue
  InvoiceOf <- CrossInvoices
  Lines <- CrossLines
  InitialStock <- CrossStock
  MaxLines = 3
  MaxQty = 2
  Ttl = 1
  MaxTime = 1
  MaxMarks = 1
  MaxFaults = 1
SPECIFICATION Spec
INVARIANTS TypeOK NoOversell AllOrNothing AnswerIsTrue NoEarlyRelease PayloadOutlivesHold Conservation
PROPERTIES ImplementsLedger
