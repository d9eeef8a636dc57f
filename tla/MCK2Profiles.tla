---------------------------- MODULE MCK2Profiles ----------------------------
(* A small instance of K2Profiles for TLC: two of three words hash alike.  *)
EXTENDS K2Profiles

SmallHashOf == [w \in {"w1", "w2", "w3"} |-> IF w = "w3" THEN 2 ELSE 1]
SmallTexts == [password |-> {"p"}, rsa_pub |-> {"r1", "r2"},
               official_name |-> {"", "n"}]

=============================================================================
