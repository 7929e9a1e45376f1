---------------------------- MODULE MCRSSImport ----------------------------
(* Instances of RSSImport for TLC.                                         *)
EXTENDS RSSImport, TLC

Symmetry == Permutations(Pollers)
=============================================================================
