---------------------------- MODULE MCConverseGate ----------------------------
(***************************************************************************)
(* A small instance of ConverseGate: one merchant that changes its issuer, *)
(* one mandate of each issuer, half-second ticks.                          *)
(***************************************************************************)
EXTENDS ConverseGate, TLC

CONSTANTS i1, i2, c1, s1, s2

MCIssuerLists == {{i1}, {i2}}

MCMandates == {[signature |-> s1, issuer |-> i1, issued |-> 0],
               [signature |-> s2, issuer |-> i2, issued |-> 0]}

GateSymmetry == Permutations(Requests)
===============================================================================
