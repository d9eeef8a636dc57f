---------------------------- MODULE MCMultiIndex ----------------------------
(* A small instance of MultiIndex for TLC: of three values two have the    *)
(* same secondary key, so an entry has neighbours with an equal key.       *)
EXTENDS MultiIndex, TLC

SmallValues == {"ann1", "bob1", "bob2"}
SmallSecondary == [v \in SmallValues |-> IF v = "ann1" THEN 1 ELSE 2]

=============================================================================
