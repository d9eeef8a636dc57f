----------------------------- MODULE MultiIndex -----------------------------
(***************************************************************************)
(* inery::multi_index: the object through which an action reads and writes *)
(* one table.  The object keeps a copy of every row it has loaded, answers *)
(* from the copies, keeps the secondary index in step with the rows, and   *)
(* remembers the key available_primary_key() answers next.                 *)
(*                                                                         *)
(* A step is one call of a member function.  A call that fails a check()   *)
(* or whose database function aborts ends its action, which the chain      *)
(* rolls back to a state it has been in: it is a disabled step.  One       *)
(* object is at work on the table at a time: each action of the contracts  *)
(* constructs its own and uses none after another object has written to    *)
(* the same table.  The next action, or the next object of the same one,   *)
(* is Open.  The database functions db_*_i64 and db_idx_* are the chain's. *)
(***************************************************************************)
EXTENDS Integers

CONSTANTS
    Top,        \* the largest uint64_t
    Values,     \* what a row may hold beside its primary key
    Secondary   \* the secondary key the index extracts from each value

ASSUME MultiIndexAssumption ==
    /\ Top \in Nat /\ Top >= 2
    /\ Secondary \in [Values -> Int]

VARIABLES
    rows,       \* the primary table: a function on its keys
    entries,    \* the secondary index: the secondary key filed for each row
    items,      \* _items_vector: the object's copies of rows, by primary key
    next,       \* _next_primary_key
    itr         \* the client's iterator: the key of its row, {} at the end

vars == <<rows, entries, items, next, itr>>

Keys == 0..Top
Unset == Top            \* unset_next_primary_key
NoAvailable == Top - 1  \* no_available_primary_key

\* Init maps to the table's Init, every step to a step of the table or none.
Promised == INSTANCE Table WITH shown <- {<<k, items[k]>> : k \in itr}
Least(S) == Promised!Least(S)
Greatest(S) == Promised!Greatest(S)
Put(f, k, v) == Promised!Put(f, k, v)
Drop(f, k) == Promised!Drop(f, k)

TypeOK ==
    /\ DOMAIN rows \subseteq Keys /\ rows \in [DOMAIN rows -> Values]
    /\ DOMAIN entries \subseteq Keys /\ entries \in [DOMAIN entries -> Int]
    /\ DOMAIN items \subseteq Keys /\ items \in [DOMAIN items -> Values]
    /\ next \in Keys
    /\ itr \in SUBSET DOMAIN items

Init ==
    /\ rows = [k \in {} |-> 0]
    /\ entries = [k \in {} |-> 0]
    /\ items = [k \in {} |-> 0]
    /\ next = Unset
    /\ itr = {}

-----------------------------------------------------------------------------
(* The parts of the member functions.                                      *)

\* load_object_by_primary_iterator, and find: a copy is preferred to the row.
Load(S) == [k \in DOMAIN items \cup S |->
                IF k \in DOMAIN items THEN items[k] ELSE rows[k]]

MoveTo(S) ==
    /\ items' = Load(S)
    /\ itr' = S
    /\ UNCHANGED <<rows, entries, next>>

\* The order of db_idx_next and db_idx_previous.
Before(j, k) == entries[j] < entries[k] \/ (entries[j] = entries[k] /\ j < k)
FirstEntry(S) == {k \in S : \A j \in S : ~Before(j, k)}
LastEntry(S) == {k \in S : \A j \in S : ~Before(k, j)}

\* A faulty After, without the two tags.
AfterAny(k) == k + 1

\* The key after k, but never one of the two tags.
After(k) == IF k >= NoAvailable THEN NoAvailable ELSE k + 1
Bump(k) == next' = IF k >= next THEN After(k) ELSE next

Following(k) == Least({j \in DOMAIN rows : j > k})
FollowingEntry(k) == FirstEntry({j \in DOMAIN entries : Before(k, j)})

-----------------------------------------------------------------------------
(* Faulty variants of the operators below, one slip each.  No action uses  *)
(* them: they show that the properties can fail.                           *)

\* The row the lower bound is at is not compared with what is looked for.
FindSecondaryAny(s) ==
    MoveTo(FirstEntry({j \in DOMAIN entries : entries[j] >= s}))

\* The remembered key is left for the next modify to bring up to date.
EmplaceKeepsNext(k, v) ==
    /\ k \notin DOMAIN rows
    /\ rows' = Put(rows, k, v)
    /\ entries' = Put(entries, k, Secondary[v])
    /\ items' = Put(items, k, v)
    /\ itr' = {k}
    /\ UNCHANGED next

\* The secondary key to compare with is extracted after the updater has run.
ModifyComparesLate(v) ==
    \E k \in itr :
        /\ items' = Put(items, k, v)
        /\ rows' = Put(rows, k, v)
        /\ Bump(k)
        /\ entries' = IF Secondary[items'[k]] = Secondary[v] THEN entries
                      ELSE Put(entries, k, Secondary[v])
        /\ UNCHANGED itr

\* The object keeps its copy of the removed row.
RemoveKeepsCopy(k, following) ==
    /\ items' = Load(following)
    /\ rows' = Drop(rows, k)
    /\ entries' = Drop(entries, k)
    /\ itr' = following
    /\ UNCHANGED next

\* The iterator of a removed row is at the end.
RemoveEndsWalk(k, following) ==
    /\ items' = Drop(Load(following), k)
    /\ rows' = Drop(rows, k)
    /\ entries' = Drop(entries, k)
    /\ itr' = {}
    /\ UNCHANGED next

-----------------------------------------------------------------------------
(* Reading.                                                                *)

Open ==
    /\ items' = [k \in {} |-> 0]
    /\ next' = Unset
    /\ itr' = {}
    /\ UNCHANGED <<rows, entries>>

\* A copy answers without the database.
Find(k) == MoveTo({k} \cap (DOMAIN items \cup DOMAIN rows))
LowerBound(k) == MoveTo(Least({j \in DOMAIN rows : j >= k}))
UpperBound(k) == MoveTo(Least({j \in DOMAIN rows : j > k}))

Advance == \E k \in itr : MoveTo(Following(k))

\* From the end to the last row; there has to be a row before.
Retreat ==
    LET S == Greatest({j \in DOMAIN rows : \A k \in itr : j < k})
    IN  S # {} /\ MoveTo(S)

LowerSecondary(s) == MoveTo(FirstEntry({j \in DOMAIN entries : entries[j] >= s}))
UpperSecondary(s) == MoveTo(FirstEntry({j \in DOMAIN entries : entries[j] > s}))

\* The lower bound, if the row it loads has the secondary key looked for.
FindSecondary(s) ==
    LET lb == FirstEntry({j \in DOMAIN entries : entries[j] >= s})
    IN  /\ items' = Load(lb)
        /\ itr' = {k \in lb : Secondary[items'[k]] = s}
        /\ UNCHANGED <<rows, entries, next>>

AdvanceSecondary == \E k \in itr : MoveTo(FollowingEntry(k))

RetreatSecondary ==
    LET S == LastEntry({j \in DOMAIN entries : \A k \in itr : Before(j, k)})
    IN  S # {} /\ MoveTo(S)

\* The first call of an object loads the first and the last row.  "next" is
\* the answer and stays so until a row with that key or a larger one is
\* stored; a table that holds a key of NoAvailable or more is refused.
AvailablePrimaryKey ==
    /\ IF next # Unset
       THEN UNCHANGED <<items, next>>
       ELSE LET last == Greatest(DOMAIN rows)
            IN  /\ items' = Load(Least(DOMAIN rows) \cup last)
                /\ next' \in IF DOMAIN rows = {} THEN {0} ELSE {After(k) : k \in last}
    /\ next' < NoAvailable
    /\ UNCHANGED <<rows, entries, itr>>

-----------------------------------------------------------------------------
(* Writing.                                                                *)

\* db_store_i64 aborts on a key the table has.
Emplace(k, v) ==
    /\ k \notin DOMAIN rows
    /\ rows' = Put(rows, k, v)
    /\ Bump(k)
    /\ entries' = Put(entries, k, Secondary[v])
    /\ items' = Put(items, k, v)
    /\ itr' = {k}

\* The index entry is written only if the copy's secondary key has changed.
Modify(v) ==
    \E k \in itr :
        /\ items' = Put(items, k, v)
        /\ rows' = Put(rows, k, v)
        /\ Bump(k)
        /\ entries' = IF Secondary[items[k]] = Secondary[v] THEN entries
                      ELSE Put(entries, k, Secondary[v])
        /\ UNCHANGED itr

\* The iterator is moved, which loads the row it moves to, before the row is
\* removed; the key the next row may get is left as it is.
Remove(k, following) ==
    /\ items' = Drop(Load(following), k)
    /\ rows' = Drop(rows, k)
    /\ entries' = Drop(entries, k)
    /\ itr' = following
    /\ UNCHANGED next

Erase == \E k \in itr : Remove(k, Following(k))
EraseSecondary == \E k \in itr : Remove(k, FollowingEntry(k))

-----------------------------------------------------------------------------
Reading ==
    \/ Open
    \/ \E k \in Keys : Find(k) \/ LowerBound(k) \/ UpperBound(k)
    \/ Advance \/ Retreat
    \/ \E v \in Values :
        LET s == Secondary[v]
        IN  LowerSecondary(s) \/ UpperSecondary(s) \/ FindSecondary(s)
    \/ AdvanceSecondary \/ RetreatSecondary
    \/ AvailablePrimaryKey

Writing ==
    \/ \E k \in Keys, v \in Values : Emplace(k, v)
    \/ \E v \in Values : Modify(v)
    \/ Erase \/ EraseSecondary

Next == Reading \/ Writing

Spec == Init /\ [][Next]_vars

-----------------------------------------------------------------------------
(* Invariants.                                                             *)

\* What the object answers from its copies is what the table holds: no call
\* leaves a copy of a row that is gone or that reads otherwise.
CacheIsCurrent ==
    \A k \in DOMAIN items : k \in DOMAIN rows /\ items[k] = rows[k]

\* The secondary index has one entry for each row, under the row's secondary
\* key: emplace, modify and erase write the two tables apart.
IndexMatchesRows ==
    entries = [k \in DOMAIN rows |-> Secondary[rows[k]]]

\* The key available_primary_key() is to answer is beyond every row, though
\* it is not read from the table again: an answer is never a key in use.
NextIsFree ==
    next < NoAvailable => \A k \in DOMAIN rows : k < next

\* The object, with its copies, its index and its remembered key, shows its
\* client a table and nothing else ...
ImplementsTable == Promised!Spec

\* ... and each call does to the table what the call of that name promises,
\* although it asks the copies, the rows and the index entries in turn.
EachCallKeepsPromise ==
    /\ \A k \in Keys :
        /\ Find(k) => Promised!Find(k)
        /\ LowerBound(k) => Promised!LowerBound(k)
        /\ UpperBound(k) => Promised!UpperBound(k)
        /\ \A v \in Values : Emplace(k, v) => Promised!Emplace(k, v)
    /\ \A v \in Values :
        /\ FindSecondary(Secondary[v]) => Promised!FindSecondary(Secondary[v])
        /\ LowerSecondary(Secondary[v]) => Promised!LowerSecondary(Secondary[v])
        /\ UpperSecondary(Secondary[v]) => Promised!UpperSecondary(Secondary[v])
        /\ Modify(v) => Promised!Modify(v)
    /\ Advance => Promised!Advance
    /\ Retreat => Promised!Retreat
    /\ AdvanceSecondary => Promised!AdvanceSecondary
    /\ RetreatSecondary => Promised!RetreatSecondary
    /\ Erase => Promised!Erase
    /\ EraseSecondary => Promised!EraseSecondary

CallsKeepPromises == [][EachCallKeepsPromise]_vars

=============================================================================
