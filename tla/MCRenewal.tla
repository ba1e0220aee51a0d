----------------------------- MODULE MCRenewal -----------------------------
(* Renewal on one subscription, two overlapping scans and four ticks. *)
EXTENDS Renewal, TLC

ScanSymmetry == Permutations(Scans)
============================================================================
