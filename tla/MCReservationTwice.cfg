\* One invoice submitted twice; two schedulers.
CONSTANTS
  a = a
  b = b
  r1 = r1
  r2 = r2
  r3 = r3
  inv1 = inv1
  inv2 = inv2
  Items = {a}
  Requests = {r1, r2, r3}
  Invoices = {inv1, inv2}
  Schedulers = {s1, s2}
  Payers = {p1}
  NoProc = NoProc
  NoValue = NoValue
  InvoiceOf <- TwiceInvoices
  Lines <- TwiceLines
  InitialStock <- TwiceStock
  MaxLines = 2
  MaxQty = 2
  Ttl = 1
  MaxTime = 1
  MaxMarks = 1
  MaxFaults = 0
SPECIFICATION Spec
INVARIANTS Conservation RollbackAudited IInv
PROPERTIES OutcomeIsFinal
