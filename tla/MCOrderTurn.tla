----------------------------- MODULE MCOrderTurn -----------------------------
(***************************************************************************)
(* Small instances of OrderTurn: one product name of two brands, one       *)
(* customer field, and the messages of a shopping dialogue.                *)
(***************************************************************************)
EXTENDS OrderTurn, TLC

CONSTANTS milk, amul, gold, address

MCItems == {milk} \X {amul, gold}
MCStock == [i \in MCItems |-> 1]

Said(lines, remove, fields, proceed) ==
  [lines |-> lines, remove |-> remove, fields |-> fields, proceed |-> proceed,
   offTopic |-> FALSE]

NoLines == [n \in {} |-> NoValue]
Ask(b, q) == milk :> [brand |-> b, qty |-> q]

Order(b) == Said(Ask(b, 0), {}, {}, FALSE)
OrderAll(b) == Said(Ask(b, 1), {}, {address}, FALSE)
Proceed == Said(NoLines, {}, {}, TRUE)
ProceedAndSwap(b) == Said(Ask(b, 0), {}, {}, TRUE)
ProceedAndDrop == Said(NoLines, {milk}, {}, TRUE)
OffTopic == [Said(NoLines, {}, {}, FALSE) EXCEPT !.offTopic = TRUE]

(* Every kind of message, for turns one after the other.                   *)
AllMessages == {Order(NoValue), OrderAll(gold), Proceed, ProceedAndSwap(gold),
                ProceedAndDrop, OffTopic}

(* A shopper who gives everything at once and then confirms.               *)
ShortDialogue == {OrderAll(amul), OrderAll(gold), Proceed}
=============================================================================
