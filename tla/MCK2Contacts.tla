---------------------------- MODULE MCK2Contacts ----------------------------
(* Small instances of K2Contacts for TLC.  The constraints leave out what  *)
(* an account does with flags the checked properties do not read; a step   *)
(* that sets one is still taken and checked, and not continued.            *)
EXTENDS K2Contacts, FiniteSetsExt, FiniteSets, TLC

Symmetry == Permutations(Names)

\* "favorite" and "muted" stay unset.
PlainRows ==
    \A u \in Names : \A r \in requests[u] : ~r.favorite /\ ~r.muted

\* No more than two pairs: whatever the accounts and the scopes, a table is
\* confused with at most one other.
TwoPairs ==
    PlainRows /\ MapThenSumSet(LAMBDA u : Cardinality(requests[u]), Names) <= 4

\* While there is more than one pair, "blocked" stays unset too: who holds
\* which scope varies, or everything two accounts can say of each other.
OnePairOrUnblocked ==
    /\ PlainRows
    /\ \/ \A u \in Names : \A r \in requests[u] : ~r.blocked
       \/ MapThenSumSet(LAMBDA u : Cardinality(requests[u]), Names) <= 2

=============================================================================
