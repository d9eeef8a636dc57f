-------------------------------- MODULE Table --------------------------------
(***************************************************************************)
(* What the contracts assume of a multi_index table: a map from primary    *)
(* keys to values that can be walked in the order of its keys and in the   *)
(* order of a secondary key, and an iterator that shows a row as it is     *)
(* stored.  Nothing is said of cached rows, of a separate index or of how  *)
(* a free key is found.  MultiIndex implements it.                         *)
(***************************************************************************)
EXTENDS Integers

CONSTANTS
    Top,        \* the largest primary key
    Values,     \* what a row may hold beside its primary key
    Secondary   \* the secondary key of each value

VARIABLES
    rows,       \* the table: a function on the keys of its rows
    shown       \* {<<key, value>>} of the row the iterator is at, {} at the end

Keys == 0..Top

\* The first and the last key of a set, as a set: empty if there is none.
Least(S) == {k \in S : \A j \in S : k <= j}
Greatest(S) == {k \in S : \A j \in S : j <= k}

Put(f, k, v) == [j \in DOMAIN f \cup {k} |-> IF j = k THEN v ELSE f[j]]
Drop(f, k) == [j \in DOMAIN f \ {k} |-> f[j]]

\* The order of the secondary index: by secondary key, then by primary key.
Precedes(j, k) ==
    LET a == Secondary[rows[j]]
        b == Secondary[rows[k]]
    IN  a < b \/ (a = b /\ j < k)
First(S) == {k \in S : \A j \in S : ~Precedes(j, k)}
Last(S) == {k \in S : \A j \in S : ~Precedes(k, j)}

Show(S) == shown' = {<<k, rows[k]>> : k \in S} /\ UNCHANGED rows

Init == rows = [k \in {} |-> 0] /\ shown = {}

\* Every way of placing the iterator ...
Find(k) == Show({k} \cap DOMAIN rows)
LowerBound(k) == Show(Least({j \in DOMAIN rows : j >= k}))
UpperBound(k) == Show(Least({j \in DOMAIN rows : j > k}))
FindSecondary(s) == Show(Least({j \in DOMAIN rows : Secondary[rows[j]] = s}))
LowerSecondary(s) == Show(First({j \in DOMAIN rows : Secondary[rows[j]] >= s}))
UpperSecondary(s) == Show(First({j \in DOMAIN rows : Secondary[rows[j]] > s}))
End == Show({})

\* ... and of moving it.
Following(k) == Least({j \in DOMAIN rows : j > k})
FollowingBySecondary(k) == First({j \in DOMAIN rows : Precedes(k, j)})
Advance == \E p \in shown : Show(Following(p[1]))
Retreat ==
    LET S == Greatest({j \in DOMAIN rows : \A p \in shown : j < p[1]})
    IN  S # {} /\ Show(S)
AdvanceSecondary == \E p \in shown : Show(FollowingBySecondary(p[1]))
RetreatSecondary ==
    LET S == Last({j \in DOMAIN rows : \A p \in shown : Precedes(j, p[1])})
    IN  S # {} /\ Show(S)

Emplace(k, v) ==
    /\ k \notin DOMAIN rows
    /\ rows' = Put(rows, k, v)
    /\ shown' = {<<k, v>>}

Modify(v) ==
    \E p \in shown :
        /\ rows' = Put(rows, p[1], v)
        /\ shown' = {<<p[1], v>>}

\* The iterator moves to the next row, in the one order or in the other.
Remove(k, following) ==
    /\ rows' = Drop(rows, k)
    /\ shown' = {<<j, rows[j]>> : j \in following}

Erase == \E p \in shown : Remove(p[1], Following(p[1]))
EraseSecondary == \E p \in shown : Remove(p[1], FollowingBySecondary(p[1]))

Next ==
    \/ \E k \in Keys : Find(k) \/ LowerBound(k) \/ UpperBound(k)
    \/ \E v \in Values :
        LET s == Secondary[v]
        IN  FindSecondary(s) \/ LowerSecondary(s) \/ UpperSecondary(s)
    \/ End \/ Advance \/ Retreat \/ AdvanceSecondary \/ RetreatSecondary
    \/ \E k \in Keys, v \in Values : Emplace(k, v)
    \/ \E v \in Values : Modify(v)
    \/ Erase \/ EraseSecondary

Spec == Init /\ [][Next]_<<rows, shown>>

=============================================================================
