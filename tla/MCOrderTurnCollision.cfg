SPECIFICATION Spec
CONSTANTS
  milk = milk
  amul = amul
  gold = gold
  address = address
  NoValue = NoValue
  Names = {milk}
  Brands = {amul, gold}
  Fields = {address}
  MaxQty = 1
  MaxTurns = 4
  Messages <- ShortDialogue
  Listed <- MCItems
  InitialStock <- MCStock
  ReactLoopMax = 4
  Overlap = FALSE
  MaxStock = 1
  MaxChanges = 1
  MaxFaults = 0
CHECK_DEADLOCK FALSE
INVARIANT NoOrderCollision
