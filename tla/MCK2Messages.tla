---------------------------- MODULE MCK2Messages ----------------------------
(* Small instances of K2Messages for TLC.                                  *)
EXTENDS K2Messages, TLC

Symmetry == Permutations(Senders)

=============================================================================
