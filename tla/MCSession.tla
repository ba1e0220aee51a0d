----------------------------- MODULE MCSession -----------------------------
(* Model-checking instances of Session. *)
EXTENDS Session, TLC

CONSTANTS t1, t2

(* Tabs are interchangeable. *)
TabSymmetry == Permutations(Tabs)
============================================================================
