-------------------------- MODULE MultiIndexProofs --------------------------
(***************************************************************************)
(* Proofs about MultiIndex, for every range of keys and every set of       *)
(* values.  The inductive invariant is the conjunction of the invariants   *)
(* the run checks with the iterator at one row at most: the copies are     *)
(* right because every write changes copy and row alike, and reading       *)
(* through them shows the table because the copies are right.              *)
(***************************************************************************)
EXTENDS MultiIndex, TLAPS

OneAtMost(S) == \A j, k \in S : j = k

IInv ==
    /\ TypeOK
    /\ CacheIsCurrent
    /\ IndexMatchesRows
    /\ NextIsFree
    /\ OneAtMost(itr)

-----------------------------------------------------------------------------
(* The operators on sets of keys.                                          *)

\* A set of integers has one least and one greatest member at most.
LEMMA LeastIsOne ==
    ASSUME NEW S \in SUBSET Int
    PROVE  /\ Least(S) \subseteq S /\ OneAtMost(Least(S))
           /\ Greatest(S) \subseteq S /\ OneAtMost(Greatest(S))
BY DEF Least, Greatest, Promised!Least, Promised!Greatest, OneAtMost

\* The index orders the rows by their secondary keys, then by their keys: a
\* set of its entries has one first and one last member at most.
LEMMA FirstIsOne ==
    ASSUME TypeOK, NEW S \in SUBSET DOMAIN entries
    PROVE  /\ FirstEntry(S) \subseteq S /\ OneAtMost(FirstEntry(S))
           /\ LastEntry(S) \subseteq S /\ OneAtMost(LastEntry(S))
<1>1. \A k \in S : k \in Int /\ entries[k] \in Int
  BY MultiIndexAssumption DEF TypeOK, Keys
<1> QED BY <1>1 DEF FirstEntry, LastEntry, Before, OneAtMost

\* The order of the entries is the order of the rows' secondary keys.
LEMMA SameOrder ==
    ASSUME IInv, NEW S \in SUBSET DOMAIN rows
    PROVE  /\ FirstEntry(S) = Promised!First(S)
           /\ LastEntry(S) = Promised!Last(S)
           /\ \A j, k \in DOMAIN rows : Before(j, k) <=> Promised!Precedes(j, k)
           /\ \A k \in DOMAIN rows : entries[k] = Secondary[rows[k]]
           /\ DOMAIN entries = DOMAIN rows
<1>1. \A k \in DOMAIN rows : entries[k] = Secondary[rows[k]]
  BY DEF IInv, IndexMatchesRows
<1>2. \A j, k \in DOMAIN rows : Before(j, k) <=> Promised!Precedes(j, k)
  BY <1>1 DEF Before, Promised!Precedes
<1>3. FirstEntry(S) = Promised!First(S) /\ LastEntry(S) = Promised!Last(S)
  BY <1>2 DEF FirstEntry, LastEntry, Promised!First, Promised!Last
<1>4. DOMAIN entries = DOMAIN rows
  BY DEF IInv, IndexMatchesRows
<1> QED BY <1>1, <1>2, <1>3, <1>4

-----------------------------------------------------------------------------
(* Moving the iterator.                                                    *)

\* Loading rows leaves every copy as it was and makes true ones.
LEMMA LoadIsCurrent ==
    ASSUME IInv, NEW S \in SUBSET DOMAIN rows
    PROVE  /\ DOMAIN Load(S) = DOMAIN items \cup S
           /\ DOMAIN Load(S) \subseteq DOMAIN rows
           /\ \A k \in DOMAIN Load(S) : Load(S)[k] = rows[k]
           /\ DOMAIN Load(S) \subseteq Keys
           /\ Load(S) \in [DOMAIN Load(S) -> Values]
BY DEF IInv, TypeOK, CacheIsCurrent, Load

\* Whatever row of the table an iterator is moved to, the invariant holds
\* and the table's client is shown that row.
LEMMA MoveToShows ==
    ASSUME IInv, NEW S \in SUBSET DOMAIN rows, OneAtMost(S), MoveTo(S)
    PROVE  IInv' /\ Promised!Show(S)
<1>1. TypeOK' /\ CacheIsCurrent'
  BY LoadIsCurrent DEF IInv, MoveTo, TypeOK, CacheIsCurrent
<1>2. IndexMatchesRows' /\ NextIsFree' /\ OneAtMost(itr)'
  BY DEF IInv, MoveTo, IndexMatchesRows, NextIsFree, NoAvailable, OneAtMost
<1>3. Promised!Show(S)
  BY LoadIsCurrent DEF MoveTo, Promised!Show
<1> QED BY <1>1, <1>2, <1>3 DEF IInv

\* The mapping shows the row the iterator is at, and no other.
LEMMA Shown ==
    ASSUME IInv
    PROVE  LET shown == {<<k, items[k]>> : k \in itr}
           IN  /\ \A p \in shown : p[1] \in itr
               /\ \A k \in itr : \E p \in shown : p[1] = k
               /\ itr \subseteq DOMAIN rows
               /\ \A k \in itr : items[k] = rows[k]
<1> DEFINE shown == {<<k, items[k]>> : k \in itr}
<1>1. \A p \in shown : p[1] \in itr
  OBVIOUS
<1>2. \A k \in itr : \E p \in shown : p[1] = k
  <2> TAKE k \in itr
  <2>1. <<k, items[k]>> \in shown /\ <<k, items[k]>>[1] = k
    OBVIOUS
  <2> QED BY <2>1
<1>3. itr \subseteq DOMAIN rows /\ \A k \in itr : items[k] = rows[k]
  BY DEF IInv, TypeOK, CacheIsCurrent
<1> QED BY <1>1, <1>2, <1>3

-----------------------------------------------------------------------------
(* The calls that read.                                                    *)

LEMMA FindStep ==
    ASSUME IInv, NEW k \in Keys, Find(k)
    PROVE  IInv' /\ Promised!Find(k)
<1>1. DOMAIN items \cup DOMAIN rows = DOMAIN rows
  BY DEF IInv, CacheIsCurrent
<1>2. MoveTo({k} \cap DOMAIN rows) /\ OneAtMost({k} \cap DOMAIN rows)
  BY <1>1 DEF Find, OneAtMost
<1> QED BY <1>2, MoveToShows DEF Promised!Find, MoveTo, Promised!Show

LEMMA BoundStep ==
    ASSUME IInv, NEW k \in Keys
    PROVE  /\ LowerBound(k) => IInv' /\ Promised!LowerBound(k)
           /\ UpperBound(k) => IInv' /\ Promised!UpperBound(k)
<1> DEFINE from == {j \in DOMAIN rows : j >= k}
           above == {j \in DOMAIN rows : j > k}
<1>1. from \in SUBSET Int /\ above \in SUBSET Int
  BY MultiIndexAssumption DEF IInv, TypeOK, Keys
<1>2. /\ Least(from) \in SUBSET DOMAIN rows /\ OneAtMost(Least(from))
      /\ Least(above) \in SUBSET DOMAIN rows /\ OneAtMost(Least(above))
  BY <1>1, LeastIsOne
<1>3. ASSUME LowerBound(k) PROVE IInv' /\ Promised!LowerBound(k)
  BY <1>2, <1>3, MoveToShows
     DEF LowerBound, Promised!LowerBound, Least, MoveTo, Promised!Show
<1>4. ASSUME UpperBound(k) PROVE IInv' /\ Promised!UpperBound(k)
  BY <1>2, <1>4, MoveToShows
     DEF UpperBound, Promised!UpperBound, Least, MoveTo, Promised!Show
<1> QED BY <1>3, <1>4

LEMMA AdvanceStep ==
    ASSUME IInv, Advance
    PROVE  IInv' /\ Promised!Advance
<1>1. PICK k \in itr : MoveTo(Following(k))
  BY DEF Advance
<1>2. Following(k) \in SUBSET DOMAIN rows /\ OneAtMost(Following(k))
  BY LeastIsOne, MultiIndexAssumption DEF Following, IInv, TypeOK, Keys
<1>3. IInv' /\ Promised!Show(Following(k))
  BY <1>1, <1>2, MoveToShows DEF MoveTo, Promised!Show
<1>4. PICK p \in {<<j, items[j]>> : j \in itr} : p[1] = k
  BY Shown
<1>5. Promised!Following(p[1]) = Following(k)
  BY <1>4 DEF Promised!Following, Following, Least
<1> QED BY <1>3, <1>4, <1>5 DEF Promised!Advance, Promised!Show

LEMMA RetreatStep ==
    ASSUME IInv, Retreat
    PROVE  IInv' /\ Promised!Retreat
<1> DEFINE before == {j \in DOMAIN rows : \A k \in itr : j < k}
           shown == {<<k, items[k]>> : k \in itr}
<1>1. Greatest(before) \in SUBSET DOMAIN rows /\ OneAtMost(Greatest(before))
  BY LeastIsOne, MultiIndexAssumption DEF IInv, TypeOK, Keys
<1>2. Greatest(before) # {} /\ IInv' /\ Promised!Show(Greatest(before))
  BY <1>1, MoveToShows DEF Retreat, MoveTo, Promised!Show
<1>3. before = {j \in DOMAIN rows : \A p \in shown : j < p[1]}
  BY Shown
<1> QED BY <1>2, <1>3 DEF Promised!Retreat, Greatest, Promised!Show

LEMMA SecondaryBoundStep ==
    ASSUME IInv, NEW s
    PROVE  /\ LowerSecondary(s) => IInv' /\ Promised!LowerSecondary(s)
           /\ UpperSecondary(s) => IInv' /\ Promised!UpperSecondary(s)
<1> DEFINE from == {j \in DOMAIN entries : entries[j] >= s}
           above == {j \in DOMAIN entries : entries[j] > s}
<1>1. from \in SUBSET DOMAIN rows /\ above \in SUBSET DOMAIN rows
      /\ from \in SUBSET DOMAIN entries /\ above \in SUBSET DOMAIN entries
  BY SameOrder
<1>2. /\ FirstEntry(from) \in SUBSET DOMAIN rows /\ OneAtMost(FirstEntry(from))
      /\ FirstEntry(above) \in SUBSET DOMAIN rows /\ OneAtMost(FirstEntry(above))
  BY <1>1, FirstIsOne DEF IInv
<1>3. /\ FirstEntry(from) = Promised!First(from)
      /\ FirstEntry(above) = Promised!First(above)
  BY <1>1, SameOrder
<1>4. /\ from = {j \in DOMAIN rows : Secondary[rows[j]] >= s}
      /\ above = {j \in DOMAIN rows : Secondary[rows[j]] > s}
  BY SameOrder
<1>5. ASSUME LowerSecondary(s) PROVE IInv' /\ Promised!LowerSecondary(s)
  <2>1. IInv' /\ Promised!Show(FirstEntry(from))
    BY <1>2, <1>5, MoveToShows DEF LowerSecondary, MoveTo, Promised!Show
  <2> QED BY <2>1, <1>3, <1>4 DEF Promised!LowerSecondary, Promised!Show
<1>6. ASSUME UpperSecondary(s) PROVE IInv' /\ Promised!UpperSecondary(s)
  <2>1. IInv' /\ Promised!Show(FirstEntry(above))
    BY <1>2, <1>6, MoveToShows DEF UpperSecondary, MoveTo, Promised!Show
  <2> QED BY <2>1, <1>3, <1>4 DEF Promised!UpperSecondary, Promised!Show
<1> QED BY <1>5, <1>6

\* The lower bound, if its secondary key is the one looked for, is the row
\* of the least primary key among those with that secondary key.
LEMMA FindSecondaryStep ==
    ASSUME IInv, NEW s \in Int, FindSecondary(s)
    PROVE  IInv' /\ Promised!FindSecondary(s)
<1> DEFINE from == {j \in DOMAIN entries : entries[j] >= s}
           lb == FirstEntry(from)
           found == {k \in lb : Secondary[rows[k]] = s}
           equal == {j \in DOMAIN rows : Secondary[rows[j]] = s}
<1>1. lb \in SUBSET DOMAIN rows /\ OneAtMost(lb) /\ lb \subseteq from
  BY SameOrder, FirstIsOne DEF IInv
<1>2. items' = Load(lb) /\ itr' = {k \in lb : Secondary[items'[k]] = s}
      /\ UNCHANGED <<rows, entries, next>>
  BY DEF FindSecondary
<1>3. itr' = found /\ \A k \in found : items'[k] = rows[k]
  BY <1>1, <1>2, LoadIsCurrent
<1>4. /\ TypeOK' /\ CacheIsCurrent'
  BY <1>1, <1>2, <1>3, LoadIsCurrent DEF IInv, TypeOK, CacheIsCurrent
<1>5. IndexMatchesRows' /\ NextIsFree' /\ OneAtMost(itr)'
  BY <1>1, <1>2, <1>3 DEF IInv, IndexMatchesRows, NextIsFree, NoAvailable, OneAtMost
<1>6. found = Least(equal)
  <2>1. \A j \in DOMAIN rows : /\ j \in Int /\ entries[j] \in Int
                              /\ entries[j] = Secondary[rows[j]]
                              /\ j \in DOMAIN entries
    BY SameOrder, MultiIndexAssumption DEF IInv, TypeOK, Keys
  <2>2. found \subseteq Least(equal)
    <3> SUFFICES ASSUME NEW k \in found
                 PROVE  k \in equal /\ \A j \in equal : k <= j
      BY DEF Least, Promised!Least
    <3> QED BY <1>1, <2>1 DEF FirstEntry, Before
  <2>3. Least(equal) \subseteq found
    <3> SUFFICES ASSUME NEW k \in Least(equal) PROVE k \in lb /\ k \in equal
      OBVIOUS
    <3>1. k \in equal /\ k \in from /\ \A j \in equal : k <= j
      BY <2>1 DEF Least, Promised!Least
    <3>2. ASSUME NEW j \in from PROVE ~Before(j, k)
      BY <3>1, <3>2, <2>1, SameOrder DEF Before
    <3> QED BY <3>1, <3>2 DEF FirstEntry
  <2> QED BY <2>2, <2>3
<1>7. Promised!Show(Least(equal))
  BY <1>2, <1>3, <1>6 DEF Promised!Show
<1> QED BY <1>4, <1>5, <1>7 DEF IInv, Promised!FindSecondary, Least, Promised!Show

LEMMA AdvanceSecondaryStep ==
    ASSUME IInv, AdvanceSecondary
    PROVE  IInv' /\ Promised!AdvanceSecondary
<1>1. PICK k \in itr : MoveTo(FollowingEntry(k))
  BY DEF AdvanceSecondary
<1>2. k \in DOMAIN rows
  BY Shown
<1>3. FollowingEntry(k) \in SUBSET DOMAIN rows /\ OneAtMost(FollowingEntry(k))
  BY SameOrder, FirstIsOne DEF FollowingEntry, IInv
<1>4. IInv' /\ Promised!Show(FollowingEntry(k))
  BY <1>1, <1>3, MoveToShows DEF MoveTo, Promised!Show
<1>5. PICK p \in {<<j, items[j]>> : j \in itr} : p[1] = k
  BY Shown
<1>6. Promised!FollowingBySecondary(p[1]) = FollowingEntry(k)
  <2> DEFINE S == {j \in DOMAIN entries : Before(k, j)}
  <2>1. S \in SUBSET DOMAIN rows
        /\ S = {j \in DOMAIN rows : Promised!Precedes(p[1], j)}
    BY <1>2, <1>5, SameOrder
  <2>2. FirstEntry(S) = Promised!First(S)
    BY <2>1, SameOrder
  <2> QED BY <2>1, <2>2 DEF Promised!FollowingBySecondary, FollowingEntry
<1> QED BY <1>4, <1>5, <1>6 DEF Promised!AdvanceSecondary, Promised!Show

LEMMA RetreatSecondaryStep ==
    ASSUME IInv, RetreatSecondary
    PROVE  IInv' /\ Promised!RetreatSecondary
<1> DEFINE before == {j \in DOMAIN entries : \A k \in itr : Before(j, k)}
           shown == {<<k, items[k]>> : k \in itr}
<1>1. before \in SUBSET DOMAIN rows /\ before \in SUBSET DOMAIN entries
  BY SameOrder
<1>2. LastEntry(before) \in SUBSET DOMAIN rows /\ OneAtMost(LastEntry(before))
  BY <1>1, FirstIsOne DEF IInv
<1>3. LastEntry(before) # {} /\ IInv' /\ Promised!Show(LastEntry(before))
  BY <1>2, MoveToShows DEF RetreatSecondary, MoveTo, Promised!Show
<1>4. before = {j \in DOMAIN rows : \A p \in shown : Promised!Precedes(j, p[1])}
  BY Shown, SameOrder
<1>5. LastEntry(before) = Promised!Last(before)
  BY <1>1, SameOrder
<1> QED BY <1>3, <1>4, <1>5 DEF Promised!RetreatSecondary, Promised!Show

-----------------------------------------------------------------------------
(* The calls that do not move the iterator, and those that write.          *)

LEMMA OpenStep ==
    ASSUME IInv, Open
    PROVE  IInv' /\ Promised!End
<1>1. TypeOK' /\ CacheIsCurrent' /\ OneAtMost(itr)'
  BY MultiIndexAssumption
     DEF IInv, Open, TypeOK, CacheIsCurrent, OneAtMost, Keys, Unset
<1>2. IndexMatchesRows' /\ NextIsFree'
  BY MultiIndexAssumption
     DEF IInv, Open, IndexMatchesRows, NextIsFree, NoAvailable, Unset
<1> QED BY <1>1, <1>2 DEF IInv, Open, Promised!End, Promised!Show

\* The answer is beyond the last row, so beyond every row.
LEMMA AvailableStep ==
    ASSUME IInv, AvailablePrimaryKey
    PROVE  /\ IInv'
           /\ UNCHANGED <<rows, {<<k, items[k]>> : k \in itr}>>
<1> DEFINE last == Greatest(DOMAIN rows)
           both == Least(DOMAIN rows) \cup last
<1>1. DOMAIN rows \in SUBSET Int
  BY MultiIndexAssumption DEF IInv, TypeOK, Keys
<1>2. both \in SUBSET DOMAIN rows
  BY <1>1, LeastIsOne
<1>3. UNCHANGED <<rows, entries, itr>> /\ next' < NoAvailable
  BY DEF AvailablePrimaryKey
<1>4. CASE next # Unset
  <2>1. UNCHANGED vars
    BY <1>3, <1>4 DEF AvailablePrimaryKey, vars
  <2> QED BY <2>1 DEF IInv, vars, TypeOK, CacheIsCurrent, IndexMatchesRows,
                      NextIsFree, NoAvailable, OneAtMost
<1>5. CASE next = Unset
  <2>1. /\ items' = Load(both)
        /\ next' \in IF DOMAIN rows = {} THEN {0} ELSE {After(k) : k \in last}
    BY <1>5 DEF AvailablePrimaryKey
  <2>2. /\ DOMAIN items \subseteq DOMAIN items'
        /\ \A k \in DOMAIN items : items'[k] = items[k]
    BY <2>1 DEF Load
  <2>3. TypeOK' /\ CacheIsCurrent'
    <3>1. next' \in Keys
      BY <1>2, <2>1, MultiIndexAssumption
         DEF IInv, TypeOK, Keys, After, NoAvailable
    <3> QED BY <1>2, <1>3, <2>1, <2>2, <3>1, LoadIsCurrent
            DEF IInv, TypeOK, CacheIsCurrent
  <2>4. NextIsFree'
    <3>1. CASE DOMAIN rows = {}
      BY <1>3, <3>1 DEF NextIsFree
    <3>2. CASE DOMAIN rows # {}
      <4>1. PICK k \in last : next' = After(k)
        BY <2>1, <3>2
      <4>2. \A j \in DOMAIN rows : j <= k /\ j \in Int /\ k \in Int
        BY <1>1, <4>1 DEF Greatest, Promised!Greatest
      <4> QED BY <1>3, <4>1, <4>2, MultiIndexAssumption
              DEF After, NextIsFree, NoAvailable
    <3> QED BY <3>1, <3>2
  <2>5. IndexMatchesRows' /\ OneAtMost(itr)'
    BY <1>3 DEF IInv, IndexMatchesRows, OneAtMost
  <2>6. {<<k, items[k]>> : k \in itr}' = {<<k, items[k]>> : k \in itr}
    BY <1>3, <2>2 DEF IInv, TypeOK
  <2> QED BY <1>3, <2>3, <2>4, <2>5, <2>6 DEF IInv
<1> QED BY <1>4, <1>5

\* Storing a row with key k, a new one or the one that was there, leaves the
\* remembered key beyond every row.
LEMMA BumpIsFree ==
    ASSUME IInv, NEW k \in Keys, Bump(k),
           DOMAIN rows' \subseteq DOMAIN rows \cup {k}
    PROVE  NextIsFree' /\ next' \in Keys
<1>1. /\ next \in Int /\ k \in Int /\ k <= Top /\ 0 <= k /\ next \in Keys
      /\ \A j \in DOMAIN rows : j \in Int
  BY MultiIndexAssumption DEF IInv, TypeOK, Keys
<1>2. next' \in Keys
  BY <1>1, MultiIndexAssumption DEF Bump, After, NoAvailable, Keys
<1>3. ASSUME next' < NoAvailable, NEW j \in DOMAIN rows' PROVE j < next'
  <2>1. CASE k >= next
    BY <1>1, <1>3, <2>1, MultiIndexAssumption
       DEF Bump, After, NoAvailable, IInv, NextIsFree
  <2>2. CASE ~(k >= next)
    BY <1>1, <1>3, <2>2, MultiIndexAssumption
       DEF Bump, NoAvailable, IInv, NextIsFree
  <2> QED BY <2>1, <2>2
<1> QED BY <1>2, <1>3, MultiIndexAssumption DEF NextIsFree, NoAvailable

LEMMA EmplaceStep ==
    ASSUME IInv, NEW k \in Keys, NEW v \in Values, Emplace(k, v)
    PROVE  IInv' /\ Promised!Emplace(k, v)
<1>1. /\ k \notin DOMAIN rows /\ rows' = Put(rows, k, v) /\ Bump(k)
      /\ entries' = Put(entries, k, Secondary[v])
      /\ items' = Put(items, k, v) /\ itr' = {k}
  BY DEF Emplace
<1>2. Secondary[v] \in Int
  BY MultiIndexAssumption
<1>3. NextIsFree' /\ next' \in Keys
  BY <1>1, BumpIsFree DEF Put, Promised!Put
<1>4. TypeOK' /\ OneAtMost(itr)'
  BY <1>1, <1>2, <1>3 DEF IInv, TypeOK, Put, Promised!Put, OneAtMost
<1>5. CacheIsCurrent'
  BY <1>1 DEF IInv, CacheIsCurrent, Put, Promised!Put
<1>6. IndexMatchesRows'
  BY <1>1, SameOrder DEF IndexMatchesRows, Put, Promised!Put
<1>7. Promised!Emplace(k, v)
  BY <1>1 DEF Promised!Emplace, Put, Promised!Put
<1> QED BY <1>3, <1>4, <1>5, <1>6, <1>7 DEF IInv

\* The entry that is not written has the right secondary key already,
\* because the copy it is compared with is the row.
LEMMA ModifyStep ==
    ASSUME IInv, NEW v \in Values, Modify(v)
    PROVE  IInv' /\ Promised!Modify(v)
<1>1. PICK k \in itr :
        /\ items' = Put(items, k, v) /\ rows' = Put(rows, k, v) /\ Bump(k)
        /\ entries' = IF Secondary[items[k]] = Secondary[v] THEN entries
                      ELSE Put(entries, k, Secondary[v])
        /\ UNCHANGED itr
  BY DEF Modify
<1>2. k \in DOMAIN rows /\ items[k] = rows[k] /\ itr = {k} /\ k \in Keys
  BY <1>1, Shown DEF IInv, OneAtMost, TypeOK
<1>3. Secondary[v] \in Int
  BY MultiIndexAssumption
<1>4. NextIsFree' /\ next' \in Keys
  BY <1>1, <1>2, BumpIsFree DEF Put, Promised!Put
<1>5. DOMAIN rows' = DOMAIN rows /\ DOMAIN entries' = DOMAIN rows
      /\ \A j \in DOMAIN rows : /\ rows'[j] = IF j = k THEN v ELSE rows[j]
                               /\ entries'[j] = Secondary[rows'[j]]
  BY <1>1, <1>2, SameOrder DEF Put, Promised!Put
<1>6. entries' \in [DOMAIN entries' -> Int]
  BY <1>1, <1>3 DEF IInv, TypeOK, Put, Promised!Put
<1>7. TypeOK' /\ OneAtMost(itr)'
  BY <1>1, <1>2, <1>4, <1>5, <1>6
     DEF IInv, TypeOK, Put, Promised!Put, OneAtMost
<1>8. CacheIsCurrent'
  BY <1>1 DEF IInv, CacheIsCurrent, Put, Promised!Put
<1>9. IndexMatchesRows'
  BY <1>5, <1>6 DEF IndexMatchesRows
<1>10. Promised!Modify(v)
  <2>1. PICK p \in {<<j, items[j]>> : j \in itr} : p[1] = k
    BY <1>1, Shown
  <2>2. {<<j, items[j]>> : j \in itr}' = {<<k, v>>}
    BY <1>1, <1>2 DEF Put, Promised!Put
  <2> QED BY <1>1, <2>1, <2>2 DEF Promised!Modify, Put
<1> QED BY <1>4, <1>7, <1>8, <1>9, <1>10 DEF IInv

\* The row the iterator was moved to before the removal is still there, and
\* no copy of the removed row is.
LEMMA RemoveStep ==
    ASSUME IInv, NEW k \in itr, NEW following \in SUBSET DOMAIN rows,
           OneAtMost(following), k \notin following, Remove(k, following)
    PROVE  IInv' /\ Promised!Remove(k, following)
<1>1. /\ items' = Drop(Load(following), k) /\ rows' = Drop(rows, k)
      /\ entries' = Drop(entries, k) /\ itr' = following /\ next' = next
  BY DEF Remove
<1>2. /\ DOMAIN items' = (DOMAIN items \cup following) \ {k}
      /\ DOMAIN items' \subseteq DOMAIN rows'
      /\ \A j \in DOMAIN items' : items'[j] = rows'[j]
      /\ \A j \in following : items'[j] = rows[j]
  BY <1>1, LoadIsCurrent DEF Drop, Promised!Drop
<1>3. TypeOK' /\ CacheIsCurrent'
  BY <1>1, <1>2, LoadIsCurrent DEF IInv, TypeOK, CacheIsCurrent, Drop, Promised!Drop
<1>4. IndexMatchesRows' /\ NextIsFree' /\ OneAtMost(itr)'
  BY <1>1, SameOrder DEF IInv, IndexMatchesRows, NextIsFree, NoAvailable,
     OneAtMost, Drop, Promised!Drop
<1>5. Promised!Remove(k, following)
  BY <1>1, <1>2 DEF Promised!Remove, Drop
<1> QED BY <1>3, <1>4, <1>5 DEF IInv

LEMMA EraseStep ==
    ASSUME IInv, Erase
    PROVE  IInv' /\ Promised!Erase
<1>1. PICK k \in itr : Remove(k, Following(k))
  BY DEF Erase
<1>2. /\ Following(k) \in SUBSET DOMAIN rows /\ OneAtMost(Following(k))
      /\ k \notin Following(k)
  BY <1>1, Shown, LeastIsOne, MultiIndexAssumption DEF Following, IInv, TypeOK, Keys
<1>3. IInv' /\ Promised!Remove(k, Following(k))
  BY <1>1, <1>2, RemoveStep DEF Remove, Promised!Remove
<1>4. PICK p \in {<<j, items[j]>> : j \in itr} : p[1] = k
  BY Shown
<1>5. Promised!Following(p[1]) = Following(k)
  BY <1>4 DEF Promised!Following, Following, Least
<1> QED BY <1>3, <1>4, <1>5 DEF Promised!Erase, Promised!Remove

LEMMA EraseSecondaryStep ==
    ASSUME IInv, EraseSecondary
    PROVE  IInv' /\ Promised!EraseSecondary
<1>1. PICK k \in itr : Remove(k, FollowingEntry(k))
  BY DEF EraseSecondary
<1>2. k \in DOMAIN rows /\ k \in Int /\ entries[k] \in Int
  BY <1>1, Shown, SameOrder, MultiIndexAssumption DEF IInv, TypeOK, Keys
<1>3. /\ FollowingEntry(k) \in SUBSET DOMAIN rows /\ OneAtMost(FollowingEntry(k))
      /\ k \notin FollowingEntry(k)
  BY <1>2, SameOrder, FirstIsOne DEF FollowingEntry, Before, IInv
<1>4. IInv' /\ Promised!Remove(k, FollowingEntry(k))
  BY <1>1, <1>3, RemoveStep DEF Remove, Promised!Remove
<1>5. PICK p \in {<<j, items[j]>> : j \in itr} : p[1] = k
  BY Shown
<1>6. Promised!FollowingBySecondary(p[1]) = FollowingEntry(k)
  <2> DEFINE S == {j \in DOMAIN entries : Before(k, j)}
  <2>1. S \in SUBSET DOMAIN rows
        /\ S = {j \in DOMAIN rows : Promised!Precedes(p[1], j)}
    BY <1>2, <1>5, SameOrder
  <2>2. FirstEntry(S) = Promised!First(S)
    BY <2>1, SameOrder
  <2> QED BY <2>1, <2>2 DEF Promised!FollowingBySecondary, FollowingEntry
<1> QED BY <1>4, <1>5, <1>6 DEF Promised!EraseSecondary, Promised!Remove

-----------------------------------------------------------------------------
(* The theorems.                                                           *)

LEMMA InitInvariant == Init => IInv
BY MultiIndexAssumption DEF Init, IInv, TypeOK, CacheIsCurrent, IndexMatchesRows,
   NextIsFree, OneAtMost, Keys, Unset, NoAvailable

LEMMA SecondaryIsInt == \A v \in Values : Secondary[v] \in Int
BY MultiIndexAssumption

\* Every call keeps the invariant and is a step of the table or none.
LEMMA StepKeeps ==
    ASSUME IInv, [Next]_vars
    PROVE  /\ IInv'
           /\ [Promised!Next]_<<rows, {<<k, items[k]>> : k \in itr}>>
<1> USE DEF Promised!Next
<1>1. CASE UNCHANGED vars
  BY <1>1 DEF IInv, vars, TypeOK, CacheIsCurrent, IndexMatchesRows, NextIsFree,
              NoAvailable, OneAtMost
<1>2. ASSUME NEW k \in Keys, Find(k) \/ LowerBound(k) \/ UpperBound(k)
      PROVE  IInv' /\ Promised!Next
  BY <1>2, FindStep, BoundStep DEF Keys, Promised!Keys
<1>3. ASSUME NEW v \in Values,
             \/ LowerSecondary(Secondary[v]) \/ UpperSecondary(Secondary[v])
             \/ FindSecondary(Secondary[v])
      PROVE  IInv' /\ Promised!Next
  BY <1>3, SecondaryIsInt, SecondaryBoundStep, FindSecondaryStep
<1>4. ASSUME Advance \/ Retreat \/ AdvanceSecondary \/ RetreatSecondary
      PROVE  IInv' /\ Promised!Next
  BY <1>4, AdvanceStep, RetreatStep, AdvanceSecondaryStep, RetreatSecondaryStep
<1>5. ASSUME NEW k \in Keys, NEW v \in Values, Emplace(k, v)
      PROVE  IInv' /\ Promised!Next
  BY <1>5, EmplaceStep DEF Keys, Promised!Keys
<1>6. ASSUME NEW v \in Values, Modify(v)
      PROVE  IInv' /\ Promised!Next
  BY <1>6, ModifyStep
<1>7. CASE Erase \/ EraseSecondary
  BY <1>7, EraseStep, EraseSecondaryStep
<1>8. CASE Open
  BY <1>8, OpenStep
<1>9. CASE AvailablePrimaryKey
  BY <1>9, AvailableStep
<1> QED BY <1>1, <1>2, <1>3, <1>4, <1>5, <1>6, <1>7, <1>8, <1>9
        DEF Next, Reading, Writing

\* The types of the table, of its index and of the object.
THEOREM TableTypeCorrect == Spec => []TypeOK
<1>1. IInv /\ [Next]_vars => IInv'
  BY StepKeeps
<1>2. IInv => TypeOK
  BY DEF IInv
<1> QED BY InitInvariant, <1>1, <1>2, PTL DEF Spec

\* No copy of a row is ever stale, so find() may answer from the copies.
THEOREM CacheStaysCurrent == Spec => []CacheIsCurrent
<1>1. IInv /\ [Next]_vars => IInv'
  BY StepKeeps
<1>2. IInv => CacheIsCurrent
  BY DEF IInv
<1> QED BY InitInvariant, <1>1, <1>2, PTL DEF Spec

\* The secondary index and the rows, written apart, agree after every call.
THEOREM IndexStaysInStep == Spec => []IndexMatchesRows
<1>1. IInv /\ [Next]_vars => IInv'
  BY StepKeeps
<1>2. IInv => IndexMatchesRows
  BY DEF IInv
<1> QED BY InitInvariant, <1>1, <1>2, PTL DEF Spec

\* available_primary_key() never answers a key in use.
THEOREM AnswerIsFree == Spec => []NextIsFree
<1>1. IInv /\ [Next]_vars => IInv'
  BY StepKeeps
<1>2. IInv => NextIsFree
  BY DEF IInv
<1> QED BY InitInvariant, <1>1, <1>2, PTL DEF Spec

\* multi_index implements the table the contracts assume.
THEOREM Implementation == Spec => ImplementsTable
<1>1. IInv /\ [Next]_vars => IInv'
  BY StepKeeps
<1>2. Init => Promised!Init
  BY DEF Init, Promised!Init
<1>3. IInv /\ [Next]_vars => [Promised!Next]_<<rows, {<<k, items[k]>> : k \in itr}>>
  BY StepKeeps
<1> QED BY InitInvariant, <1>1, <1>2, <1>3, PTL
        DEF Spec, ImplementsTable, Promised!Spec

\* Each call of multi_index does what the table's call of that name does.
THEOREM PromisesAreKept == Spec => CallsKeepPromises
<1>1. IInv /\ [Next]_vars => IInv'
  BY StepKeeps
<1>2. IInv /\ [Next]_vars => EachCallKeepsPromise
  <2> SUFFICES ASSUME IInv PROVE EachCallKeepsPromise
    OBVIOUS
  <2>1. \A k \in Keys :
            /\ Find(k) => Promised!Find(k)
            /\ LowerBound(k) => Promised!LowerBound(k)
            /\ UpperBound(k) => Promised!UpperBound(k)
            /\ \A v \in Values : Emplace(k, v) => Promised!Emplace(k, v)
    BY FindStep, BoundStep, EmplaceStep
  <2>2. ASSUME NEW v \in Values
        PROVE  /\ FindSecondary(Secondary[v]) => Promised!FindSecondary(Secondary[v])
               /\ LowerSecondary(Secondary[v]) => Promised!LowerSecondary(Secondary[v])
               /\ UpperSecondary(Secondary[v]) => Promised!UpperSecondary(Secondary[v])
               /\ Modify(v) => Promised!Modify(v)
    BY SecondaryIsInt, FindSecondaryStep, SecondaryBoundStep, ModifyStep
  <2> QED BY <2>1, <2>2, AdvanceStep, RetreatStep, AdvanceSecondaryStep,
             RetreatSecondaryStep, EraseStep, EraseSecondaryStep
         DEF EachCallKeepsPromise
<1> QED BY InitInvariant, <1>1, <1>2, PTL DEF Spec, CallsKeepPromises

=============================================================================
