\* Liveness: crossing invoices, a deadlock, expiry, a crash or Redis failure, cache races.
CONSTANTS
  a = a
  b = b
  r1 = r1
  r2 = r2
  r3 = r3
  inv1 = inv1
  inv2 = inv2
  Items = {a, b}
  Requests = {r1, r2}
  Invoices = {inv1, inv2}
  Schedulers = {s1}
  Payers = {p1}
  NoProc = NoProc
  NoValue = NoValue
  InvoiceOf <- LiveInvoices
  Lines <- LiveLines
  InitialStock <- LiveStock
  MaxLines = 2
  MaxQty = 2
  Ttl = 1
  MaxTime = 1
  MaxMarks = 0
  MaxFaults = 1
SPECIFICATION FairSpec
PROPERTIES EveryRequestAnswered EveryHoldEnds StaleCacheDropped
