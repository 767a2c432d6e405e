SPECIFICATION Spec
CONSTANTS
  a = a
  b = b
  amul = amul
  gold = gold
  u1 = u1
  u2 = u2
  Items = {a, b}
  Brands = {amul, gold}
  BrandOf <- MCBrandOf
  InitialStock <- MCStock
  Uploads = {u1, u2}
  File <- MCFile
  Tasks = {k1, k2}
  MaxEvents = 1
  NoValue = NoValue
SYMMETRY TaskSymmetry
CHECK_DEADLOCK FALSE
INVARIANTS TypeOK StockAccounted CacheAgrees
