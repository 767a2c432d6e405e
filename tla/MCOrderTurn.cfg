SPECIFICATION Spec
CONSTANTS
  milk = milk
  amul = amul
  gold = gold
  address = address
  NoValue = NoValue
  Names = {milk}
  Brands = {amul, gold}
  Fields = {address}
  MaxQty = 1
  MaxTurns = 4
  Messages <- AllMessages
  Listed <- MCItems
  InitialStock <- MCStock
  ReactLoopMax = 2
  Overlap = FALSE
  MaxStock = 1
  MaxChanges = 1
  MaxFaults = 1
CHECK_DEADLOCK FALSE
INVARIANTS TypeOK  InvoiceIsComplete AnswerIsBacked ReservedOnce StockoutNotInvoiced
PROPERTIES FieldsKept TurnEnds
