----------------------------- MODULE MCCheckout -----------------------------
(* Model-checking instances of Checkout. *)
EXTENDS Checkout, TLC

CONSTANTS q1, q2, w1, w2, basic, pro

Alike == Permutations(Requests) \cup Permutations(Reducers)
============================================================================
