----------------------------- MODULE MCIneryGui -----------------------------
(* A small instance of IneryGui for TLC.  Of three names two have the same *)
(* hash prefix.  Plugins may be many, so that rmpluginu's loop has some    *)
(* before and after the one it removes; of the rest there is little.       *)
EXTENDS IneryGui, FiniteSetsExt, TLC

CONSTANT MaxItems   \* how many elements the lists of a state may have together

SmallIdOf == [g \in {"ann", "bob", "tom"} |-> IF g = "tom" THEN 2 ELSE 1]
SmallWordLists == {<<>>, <<"w1", "w2">>}

Items ==
    LET ofUser(i) == Len(users[i].accounts) + Len(users[i].servers)
                     + Len(users[i].templates) + Len(users[i].plugins)
                     + Len(users[i].twords) \div 2
        ofHistory(k) == 1 + Len(histories[k]["cr"]) + Len(histories[k]["up"])
                          + Len(histories[k]["dl"])
    IN  Len(Gstate.templates) + Len(Gstate.plugins)
        + MapThenSumSet(ofUser, DOMAIN users)
        + MapThenSumSet(ofHistory, DOMAIN histories)
        + Cardinality(DOMAIN permissions)

Symmetry == Permutations(Ids) \cup Permutations(Passwords)

FewItems == Items <= MaxItems

=============================================================================
