----------------------- MODULE ReservationDataProofs -----------------------
(***************************************************************************)
(* Facts about invoices, rows and quantities that the proofs about the     *)
(* reservation service and about payment settlement share.                 *)
(***************************************************************************)
EXTENDS ReservationData, FiniteSetTheorems, TLAPS

(* Facts about rows: what a row stands for, and that there are finitely    *)
(* many of them.                                                           *)
LEMMA ElementOf ==
  ASSUME NEW T, NEW q \in Seq(T), NEW n \in 1..Len(q)
  PROVE  q[n] \in T
OBVIOUS

LEMMA RowType ==
  ASSUME NEW row \in Rows
  PROVE  /\ row[1] \in Requests /\ row[2] \in 1..Len(Lines[row[1]])
         /\ ItemOf(row) \in Items
         /\ QtyOf(row) \in 1..MaxQty
         /\ row = <<row[1], row[2]>>
<1>1. /\ row[1] \in Requests
      /\ row[2] \in 1..Len(Lines[row[1]])
      /\ row = <<row[1], row[2]>>
  BY LinesAssumption DEF Rows
<1>2. Lines[row[1]] \in Seq([item : Items, qty : 1..MaxQty])
  BY <1>1, LinesAssumption
<1>3. Lines[row[1]][row[2]] \in [item : Items, qty : 1..MaxQty]
  BY <1>1, <1>2, ElementOf, Zenon
<1>. QED
  BY <1>1, <1>3 DEF ItemOf, QtyOf

LEMMA RowsFinite == IsFiniteSet(Rows)
<1>1. IsFiniteSet(1..MaxLines)
  BY LinesAssumption, FS_Interval
<1>2. IsFiniteSet(Requests \X (1..MaxLines))
  BY <1>1, FiniteAssumption, FS_Product, Zenon
<1>3. Rows \in SUBSET (Requests \X (1..MaxLines))
  BY DEF Rows
<1>. QED
  BY <1>2, <1>3, FS_Subset, Zenon

(* Quantities of sets of rows add up.                                      *)
LEMMA QuantityType ==
  ASSUME NEW S \in SUBSET Rows, NEW i
  PROVE  IsFiniteSet(UnitsOf(S, i)) /\ Quantity(S, i) \in Nat
<1>1. IsFiniteSet(1..MaxQty)
  BY LinesAssumption, FS_Interval
<1>2. IsFiniteSet(S)
  BY RowsFinite, FS_Subset, Zenon
<1>3. IsFiniteSet(S \X (1..MaxQty))
  BY <1>1, <1>2, FS_Product, Zenon
<1>4. UnitsOf(S, i) \in SUBSET (S \X (1..MaxQty))
  BY DEF UnitsOf
<1>5. IsFiniteSet(UnitsOf(S, i))
  BY <1>3, <1>4, FS_Subset, Zenon
<1>. QED
  BY <1>5, FS_CardinalityType DEF Quantity

LEMMA QuantityEmpty == \A i : Quantity({}, i) = 0
<1>1. \A i : UnitsOf({}, i) = {}
  BY DEF UnitsOf
<1>. QED
  BY <1>1, FS_EmptySet DEF Quantity

LEMMA QuantityUnion ==
  ASSUME NEW S \in SUBSET Rows, NEW T \in SUBSET Rows, S \cap T = {}, NEW i
  PROVE  Quantity(S \union T, i) = Quantity(S, i) + Quantity(T, i)
<1>1. UnitsOf(S \union T, i) = UnitsOf(S, i) \union UnitsOf(T, i)
  BY DEF UnitsOf
<1>2. UnitsOf(S, i) \cap UnitsOf(T, i) = {}
  BY DEF UnitsOf
<1>3. IsFiniteSet(UnitsOf(S, i)) /\ IsFiniteSet(UnitsOf(T, i))
  BY QuantityType
<1>4. Cardinality(UnitsOf(S, i) \union UnitsOf(T, i)) =
        Cardinality(UnitsOf(S, i)) + Cardinality(UnitsOf(T, i))
          - Cardinality(UnitsOf(S, i) \cap UnitsOf(T, i))
  BY <1>3, FS_Union
<1>5. Cardinality({}) = 0
  BY FS_EmptySet
<1>6. Quantity(S, i) \in Nat /\ Quantity(T, i) \in Nat
  BY QuantityType
<1>7. Quantity(S \union T, i) = Quantity(S, i) + Quantity(T, i) - 0
  BY <1>1, <1>2, <1>4, <1>5, Zenon DEF Quantity
<1>. QED
  BY <1>6, <1>7

LEMMA QuantityRow ==
  ASSUME NEW row \in Rows, NEW i
  PROVE  Quantity({row}, i) = IF i = ItemOf(row) THEN QtyOf(row) ELSE 0
<1>1. QtyOf(row) \in 1..MaxQty /\ MaxQty \in Nat
  BY RowType, LinesAssumption
<1>2. CASE i = ItemOf(row)
  <2>1. UnitsOf({row}, i) = {row} \X (1..QtyOf(row))
    BY <1>1, <1>2 DEF UnitsOf
  <2>2. IsFiniteSet({row}) /\ Cardinality({row}) = 1
    BY FS_Singleton
  <2>3. IsFiniteSet(1..QtyOf(row)) /\ Cardinality(1..QtyOf(row)) = QtyOf(row)
    BY <1>1, FS_Interval
  <2>4. Cardinality({row} \X (1..QtyOf(row))) = 1 * QtyOf(row)
    <3>1. Cardinality({row} \X (1..QtyOf(row))) = Cardinality({row}) * Cardinality(1..QtyOf(row))
      BY <2>2, <2>3, FS_Product
    <3>. QED
      BY <2>2, <2>3, <3>1
  <2>5. Quantity({row}, i) = 1 * QtyOf(row)
    BY <2>1, <2>4, Zenon DEF Quantity
  <2>. QED
    BY <1>1, <1>2, <2>5
<1>3. CASE i # ItemOf(row)
  <2>1. UnitsOf({row}, i) = {}
    BY <1>3 DEF UnitsOf
  <2>. QED
    BY <1>3, <2>1, FS_EmptySet DEF Quantity
<1>. QED
  BY <1>2, <1>3
=============================================================================
