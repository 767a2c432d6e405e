--------------------------- MODULE MCCatalogUpload ---------------------------
(***************************************************************************)
(* Small instances of CatalogUpload: an item with one unit in stock, and   *)
(* one of another brand that the files bring in.                           *)
(***************************************************************************)
EXTENDS CatalogUpload, TLC

CONSTANTS a, b, amul, gold, u1, u2

MCBrandOf == a :> amul @@ b :> gold
MCStock == a :> 1 @@ b :> NoValue

Line(i, q) == [item |-> i, qty |-> q]

(* The first file names one item twice and has a row that is rejected.     *)
MCFile == u1 :> <<Line(b, 1), Line(a, NoValue), Line(b, 1)>>
          @@ u2 :> <<Line(b, 1)>>

TaskSymmetry == Permutations(Tasks)
=============================================================================
