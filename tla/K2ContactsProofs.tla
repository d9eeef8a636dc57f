-------------------------- MODULE K2ContactsProofs --------------------------
(***************************************************************************)
(* Theorems about K2Contacts, for any number of accounts, scopes, aliases  *)
(* and any values of the unset flags.                                      *)
(***************************************************************************)
EXTENDS K2Contacts, TLAPS

Tables == [Names -> SUBSET Row]

UniqueIn(tbl) ==
    \A u \in Names : \A r, q \in tbl[u] : r.scope = q.scope => r = q

\* Every row of t2 is a row of t1 with, at most, other flags.
Derives(t2, t1) ==
    \A u \in Names : \A r \in t2[u] :
        \E q \in t1[u] : q.scope = r.scope /\ q.contact = r.contact

\* A pair of rows, one in the table of each of two accounts, is new.
NewPair(s, u, v) ==
    /\ requests' \in Tables
    /\ UniqueIn(requests')
    /\ u # v
    /\ ~HasScope(requests, u, s)
    /\ ~HasScope(requests, v, s)
    /\ \E row1, row2 \in Row :
        /\ row1.scope = s /\ row1.contact = v
        /\ row2.scope = s /\ row2.contact = u
        /\ \A w \in Names : requests'[w] =
             IF w = u THEN requests[u] \cup {row1}
             ELSE IF w = v THEN requests[v] \cup {row2} ELSE requests[w]

-----------------------------------------------------------------------------
(* The table operations.                                                   *)

\* modify() with an updater that leaves scope and contact alone keeps the
\* keys unique and the same rows there.
LEMMA ReplaceKeeps ==
    ASSUME NEW tbl \in Tables, UniqueIn(tbl),
           NEW u \in Names, NEW old \in tbl[u], NEW new \in Row,
           new.scope = old.scope, new.contact = old.contact
    PROVE  /\ Replace(tbl, u, old, new) \in Tables
           /\ UniqueIn(Replace(tbl, u, old, new))
           /\ Derives(Replace(tbl, u, old, new), tbl)
           /\ Derives(tbl, Replace(tbl, u, old, new))
<1> DEFINE t == Replace(tbl, u, old, new)
<1>1. t \in Tables
  BY DEF Tables, Replace
<1>2. \A v \in Names : t[v] = IF v = u THEN (tbl[u] \ {old}) \cup {new} ELSE tbl[v]
  BY DEF Tables, Replace
<1>3. UniqueIn(t)
  BY <1>2 DEF UniqueIn
<1>4. Derives(t, tbl) /\ Derives(tbl, t)
  BY <1>2 DEF Derives
<1> QED
  BY <1>1, <1>3, <1>4

\* erase() by scope.
LEMMA EraseKeeps ==
    ASSUME NEW tbl \in Tables, UniqueIn(tbl), NEW u \in Names, NEW s
    PROVE  /\ EraseScope(tbl, u, s) \in Tables
           /\ UniqueIn(EraseScope(tbl, u, s))
           /\ Derives(EraseScope(tbl, u, s), tbl)
<1>1. EraseScope(tbl, u, s) \in Tables
  BY DEF Tables, EraseScope
<1>2. \A v \in Names : EraseScope(tbl, u, s)[v] \subseteq tbl[v]
  BY DEF Tables, EraseScope
<1> QED
  BY <1>1, <1>2 DEF UniqueIn, Derives

\* What the pool hands out are keys.
LEMMA ScopesAreKeys == Scopes \subseteq Keys
BY ContactsAssumption DEF Scopes, Keys

\* Whatever the constructor leaves unset, it makes a row of its contact.
LEMMA FreshRowsAreRows ==
    ASSUME NEW s \in Keys, NEW c \in Names, NEW keyed \in BOOLEAN,
           NEW cntct \in SUBSET BOOLEAN, NEW pending \in SUBSET BOOLEAN,
           NEW row \in FreshRows(s, c, keyed, cntct, pending)
    PROVE  row \in Row /\ row.scope = s /\ row.contact = c
BY ContactsAssumption DEF FreshRows, Row

\* Two emplaces that both succeed went to different tables.
LEMMA EmplaceBothKeeps ==
    ASSUME requests \in Tables, UniqueIn(requests),
           NEW s \in Keys, NEW u \in Names, NEW v \in Names,
           NEW keyed1 \in BOOLEAN, NEW cntct1 \in SUBSET BOOLEAN,
           NEW pending1 \in SUBSET BOOLEAN,
           NEW keyed2 \in BOOLEAN, NEW cntct2 \in SUBSET BOOLEAN,
           NEW pending2 \in SUBSET BOOLEAN,
           EmplaceBoth(s, u, FreshRows(s, v, keyed1, cntct1, pending1),
                          v, FreshRows(s, u, keyed2, cntct2, pending2))
    PROVE  NewPair(s, u, v)
<1>1. PICK row1 \in FreshRows(s, v, keyed1, cntct1, pending1),
           row2 \in FreshRows(s, u, keyed2, cntct2, pending2) :
        /\ ~HasScope(requests, u, s)
        /\ ~HasScope(Emplace(requests, u, row1), v, s)
        /\ requests' = Emplace(Emplace(requests, u, row1), v, row2)
  BY DEF EmplaceBoth
<1>2. row1 \in Row /\ row1.scope = s /\ row1.contact = v
  BY FreshRowsAreRows
<1>3. row2 \in Row /\ row2.scope = s /\ row2.contact = u
  BY FreshRowsAreRows
<1>4. u # v /\ ~HasScope(requests, v, s)
  BY <1>1, <1>2 DEF Emplace, HasScope, Tables
<1>5. requests' \in Tables
  BY <1>1, <1>2, <1>3 DEF Emplace, Tables
<1>6. \A w \in Names : requests'[w] =
        IF w = u THEN requests[u] \cup {row1}
        ELSE IF w = v THEN requests[v] \cup {row2} ELSE requests[w]
  BY <1>1, <1>4 DEF Emplace, Tables
<1>7. UniqueIn(requests')
  BY <1>1, <1>2, <1>3, <1>4, <1>6 DEF UniqueIn, HasScope
<1> QED
  BY <1>1, <1>2, <1>3, <1>4, <1>5, <1>6, <1>7 DEF NewPair

LEMMA DerivesTransitive ==
    ASSUME NEW t1, NEW t2, NEW t3, Derives(t3, t2), Derives(t2, t1)
    PROVE  Derives(t3, t1)
BY DEF Derives

-----------------------------------------------------------------------------
(* What the steps do to the keys of the rows.                              *)

FewerKeys ==
    /\ requests' \in Tables
    /\ UniqueIn(requests')
    /\ Derives(requests', requests)

SameKeys == FewerKeys /\ Derives(requests, requests')

KeyInv == TypeOK /\ PrimaryKeyUnique /\ NoSelfContact

\* An action that leaves the table alone.
LEMMA UnchangedKeeps ==
    ASSUME KeyInv, UNCHANGED requests
    PROVE  SameKeys
BY DEF KeyInv, TypeOK, PrimaryKeyUnique, SameKeys, FewerKeys, Tables, UniqueIn, Derives

\* The flags of one row.
LEMMA ModifyKeeps ==
    ASSUME KeyInv, NEW u \in Names, NEW r \in requests[u], NEW new \in Row,
           new.scope = r.scope, new.contact = r.contact,
           ModifyContact(u, r, new)
    PROVE  SameKeys
<1>1. requests \in Tables /\ UniqueIn(requests)
  BY DEF KeyInv, TypeOK, PrimaryKeyUnique, Tables, UniqueIn
<1>2. requests' = Replace(requests, u, r, new)
  BY DEF ModifyContact
<1> QED
  BY <1>1, <1>2, ReplaceKeeps DEF SameKeys, FewerKeys

LEMMA LabelsKeep ==
    ASSUME KeyInv, NEW u \in Names, NEW v \in Names,
           \/ \E status \in BOOLEAN :
                BlockContact(u, v, status) \/ FavContact(u, v, status)
                                          \/ MuteContact(u, v, status)
           \/ \E alias \in Aliases : ChangeAlias(u, v, alias)
    PROVE  SameKeys
<1>0. requests[u] \subseteq Row
  BY DEF KeyInv, TypeOK
<1>1. ASSUME NEW status \in BOOLEAN, BlockContact(u, v, status) PROVE SameKeys
  <2>1. PICK r \in requests[u] : ModifyContact(u, r,
             IF status
             THEN [r EXCEPT !.blocked = TRUE, !.cntct = FALSE, !.favorite = FALSE]
             ELSE [r EXCEPT !.blocked = FALSE, !.cntct = TRUE])
    BY <1>1 DEF BlockContact
  <2> DEFINE new == IF status
             THEN [r EXCEPT !.blocked = TRUE, !.cntct = FALSE, !.favorite = FALSE]
             ELSE [r EXCEPT !.blocked = FALSE, !.cntct = TRUE]
  <2>2. new \in Row /\ new.scope = r.scope /\ new.contact = r.contact
    BY <1>0 DEF Row
  <2> QED
    BY <2>1, <2>2, ModifyKeeps
<1>2. ASSUME NEW status \in BOOLEAN, FavContact(u, v, status) PROVE SameKeys
  <2>1. PICK r \in requests[u] : ModifyContact(u, r, [r EXCEPT !.favorite = status])
    BY <1>2 DEF FavContact
  <2>2. /\ [r EXCEPT !.favorite = status] \in Row
        /\ [r EXCEPT !.favorite = status].scope = r.scope
        /\ [r EXCEPT !.favorite = status].contact = r.contact
    BY <1>0 DEF Row
  <2> QED
    BY <2>1, <2>2, ModifyKeeps
<1>3. ASSUME NEW status \in BOOLEAN, MuteContact(u, v, status) PROVE SameKeys
  <2>1. PICK r \in requests[u] : ModifyContact(u, r, [r EXCEPT !.muted = status])
    BY <1>3 DEF MuteContact
  <2>2. /\ [r EXCEPT !.muted = status] \in Row
        /\ [r EXCEPT !.muted = status].scope = r.scope
        /\ [r EXCEPT !.muted = status].contact = r.contact
    BY <1>0 DEF Row
  <2> QED
    BY <2>1, <2>2, ModifyKeeps
<1>4. ASSUME NEW alias \in Aliases, ChangeAlias(u, v, alias) PROVE SameKeys
  <2>1. PICK r \in requests[u] : ModifyContact(u, r, [r EXCEPT !.alias = alias])
    BY <1>4 DEF ChangeAlias
  <2>2. /\ [r EXCEPT !.alias = alias] \in Row
        /\ [r EXCEPT !.alias = alias].scope = r.scope
        /\ [r EXCEPT !.alias = alias].contact = r.contact
    BY <1>0 DEF Row
  <2> QED
    BY <2>1, <2>2, ModifyKeeps
<1> QED
  BY <1>1, <1>2, <1>3, <1>4

\* Accepting modifies two rows.  They are in two tables: were the owner its
\* own contact, the second modify would start from a row the first replaced.
LEMMA AcceptKeeps ==
    ASSUME KeyInv, NEW u \in Names, NEW v \in Names, AcceptRequest(u, v)
    PROVE  SameKeys
<1>1. requests \in Tables /\ UniqueIn(requests)
  BY DEF KeyInv, TypeOK, PrimaryKeyUnique, Tables, UniqueIn
<1>2. PICK r \in requests[u], q \in requests[v] :
        /\ r.contact = v
        /\ requests' =
             Replace(Replace(requests, v, q, [q EXCEPT !.keyed = TRUE,
                                                       !.pending = FALSE,
                                                       !.cntct = TRUE]),
                     u, r, [r EXCEPT !.pending = FALSE, !.cntct = TRUE])
  BY DEF AcceptRequest, FirstFor
<1> DEFINE q2 == [q EXCEPT !.keyed = TRUE, !.pending = FALSE, !.cntct = TRUE]
           r2 == [r EXCEPT !.pending = FALSE, !.cntct = TRUE]
           t == Replace(requests, v, q, q2)
<1>3. u # v
  BY <1>2 DEF KeyInv, NoSelfContact
<1>4. q \in Row /\ r \in Row
  BY <1>1 DEF Tables
<1>5. q2 \in Row /\ q2.scope = q.scope /\ q2.contact = q.contact
  BY <1>4 DEF Row
<1>6. r2 \in Row /\ r2.scope = r.scope /\ r2.contact = r.contact
  BY <1>4 DEF Row
<1>7. t \in Tables /\ UniqueIn(t) /\ Derives(t, requests) /\ Derives(requests, t)
  BY <1>1, <1>5, ReplaceKeeps
<1>8. r \in t[u]
  BY <1>1, <1>3 DEF Replace, Tables
<1>9. /\ requests' \in Tables /\ UniqueIn(requests')
      /\ Derives(requests', t) /\ Derives(t, requests')
  BY <1>2, <1>6, <1>7, <1>8, ReplaceKeeps
<1> QED
  BY <1>7, <1>9, DerivesTransitive DEF SameKeys, FewerKeys

\* Removing a pair, a row or a table.
LEMMA ErasePairKeeps ==
    ASSUME KeyInv, NEW u \in Names, NEW v \in Names, NEW r \in requests[u],
           ErasePair(u, v, r)
    PROVE  FewerKeys
<1>1. requests \in Tables /\ UniqueIn(requests)
  BY DEF KeyInv, TypeOK, PrimaryKeyUnique, Tables, UniqueIn
<1> DEFINE t == EraseScope(requests, u, r.scope)
<1>2. requests' = EraseScope(t, v, r.scope)
  BY DEF ErasePair
<1>3. t \in Tables /\ UniqueIn(t) /\ Derives(t, requests)
  BY <1>1, EraseKeeps
<1>4. requests' \in Tables /\ UniqueIn(requests') /\ Derives(requests', t)
  BY <1>2, <1>3, EraseKeeps
<1> QED
  BY <1>3, <1>4, DerivesTransitive DEF FewerKeys

LEMMA ErasersKeep ==
    ASSUME KeyInv, NEW u \in Names, NEW v \in Names,
           \/ RejectRequest(u, v) \/ RmContact(u, v)
           \/ DeleteReqs(u) \/ DeleteReqs2(u, v) \/ DeleteUser(u)
    PROVE  FewerKeys
<1>1. requests \in Tables /\ UniqueIn(requests)
  BY DEF KeyInv, TypeOK, PrimaryKeyUnique, Tables, UniqueIn
<1>2. CASE RejectRequest(u, v)
  BY <1>2, ErasePairKeeps DEF RejectRequest
<1>3. CASE RmContact(u, v)
  BY <1>3, ErasePairKeeps DEF RmContact
<1>4. CASE DeleteReqs(u)
  <2>1. \A w \in Names : requests'[w] \subseteq requests[w]
    BY <1>4 DEF DeleteReqs
  <2>2. requests' \in Tables
    BY <1>1, <1>4 DEF DeleteReqs, Tables
  <2> QED
    BY <1>1, <2>1, <2>2 DEF FewerKeys, UniqueIn, Derives
<1>5. CASE DeleteReqs2(u, v)
  <2>1. PICK q \in requests[v] : requests' = EraseScope(requests, v, q.scope)
    BY <1>5 DEF DeleteReqs2
  <2> QED
    BY <1>1, <2>1, EraseKeeps DEF FewerKeys
<1>6. CASE DeleteUser(u)
  <2>1. requests' = [requests EXCEPT ![u] = {}]
    BY <1>6 DEF DeleteUser
  <2>2. requests' \in Tables /\ \A w \in Names : requests'[w] \subseteq requests[w]
    BY <1>1, <2>1 DEF Tables
  <2> QED
    BY <1>1, <2>2 DEF FewerKeys, UniqueIn, Derives
<1> QED
  BY <1>2, <1>3, <1>4, <1>5, <1>6

\* The two actions that make a pair.
LEMMA SendRequestMakes ==
    ASSUME KeyInv, NEW u \in Names, NEW v \in Names, SendRequest(u, v)
    PROVE  \E s \in Scopes :
            /\ NewPair(s, v, u)
            /\ NextScope(s)
            /\ ~Knows(v, u)
            /\ ~Knows(u, v)
            /\ adresses' = adresses \cup {s}
<1>1. requests \in Tables /\ UniqueIn(requests)
  BY DEF KeyInv, TypeOK, PrimaryKeyUnique, Tables, UniqueIn
<1>2. PICK s \in Scopes :
        /\ NextScope(s)
        /\ EmplaceBoth(s, v, FreshRows(s, u, TRUE, Uninit, Uninit),
                          u, FreshRows(s, v, FALSE, Uninit, {TRUE}))
        /\ adresses' = adresses \cup {s}
  BY DEF SendRequest
<1>3. NewPair(s, v, u)
  BY <1>1, <1>2, EmplaceBothKeeps, ContactsAssumption, ScopesAreKeys
<1> QED
  BY <1>2, <1>3 DEF SendRequest

LEMMA ForceRequestMakes ==
    ASSUME KeyInv, NEW s \in Keys, NEW u \in Names, NEW v \in Names,
           ForceRequest(s, u, v)
    PROVE  NewPair(s, u, v)
<1>1. requests \in Tables /\ UniqueIn(requests)
  BY DEF KeyInv, TypeOK, PrimaryKeyUnique, Tables, UniqueIn
<1>2. EmplaceBoth(s, u, FreshRows(s, v, TRUE, {TRUE}, Uninit),
                     v, FreshRows(s, u, TRUE, {TRUE}, Uninit))
  BY DEF ForceRequest
<1> QED
  BY <1>1, <1>2, EmplaceBothKeeps, ContactsAssumption, ScopesAreKeys

\* The other two tables.
LEMMA OthersTyped ==
    ASSUME TypeOK, [Next]_vars
    PROVE  registered' \subseteq Names /\ adresses' \subseteq Scopes
BY DEF TypeOK, Next, ServiceNext, OneSidedNext, RescopeNext, vars, RegUser,
    DeleteUser, RrProfiles, SendRequest, AcceptRequest, RejectRequest,
    RmContact, BlockContact, FavContact, MuteContact, ChangeAlias,
    ModifyContact, DeleteReqs, DeleteReqs2, AddAdr, Pump, RrAddr, ForceRequest

-----------------------------------------------------------------------------
(* The whole contract: keys are unique, nobody is its own contact.         *)

LEMMA StepShape ==
    ASSUME KeyInv, [Next]_vars
    PROVE  \/ FewerKeys
           \/ \E s \in Keys, u, v \in Names : NewPair(s, u, v)
<1>1. CASE UNCHANGED requests
  BY <1>1, UnchangedKeeps DEF SameKeys
<1>2. CASE RrProfiles \/ AddAdr \/ RrAddr \/ \E max \in 0..(MaxScope + 1) : Pump(max)
  BY <1>1, <1>2 DEF RrProfiles, AddAdr, RrAddr, Pump
<1>3. ASSUME NEW u \in Names, RegUser(u) PROVE FewerKeys
  BY <1>3, UnchangedKeeps DEF RegUser, SameKeys
<1>4. ASSUME NEW u \in Names, DeleteReqs(u) \/ DeleteUser(u) PROVE FewerKeys
  BY <1>4, ErasersKeep
<1>5. ASSUME NEW u \in Names, NEW v \in Names,
             RejectRequest(u, v) \/ RmContact(u, v) \/ DeleteReqs2(u, v)
      PROVE  FewerKeys
  BY <1>5, ErasersKeep
<1>6. ASSUME NEW u \in Names, NEW v \in Names,
           \/ AcceptRequest(u, v)
           \/ \E status \in BOOLEAN :
                BlockContact(u, v, status) \/ FavContact(u, v, status)
                                          \/ MuteContact(u, v, status)
           \/ \E alias \in Aliases : ChangeAlias(u, v, alias)
      PROVE  FewerKeys
  BY <1>6, LabelsKeep, AcceptKeeps DEF SameKeys
<1>7. ASSUME NEW u \in Names, NEW v \in Names, SendRequest(u, v)
      PROVE  \E s \in Keys : NewPair(s, v, u)
  BY <1>7, SendRequestMakes, ScopesAreKeys
<1>8. ASSUME NEW s \in Keys, NEW u \in Names, NEW v \in Names, ForceRequest(s, u, v)
      PROVE  NewPair(s, u, v)
  BY <1>8, ForceRequestMakes
<1> QED
  BY <1>1, <1>2, <1>3, <1>4, <1>5, <1>6, <1>7, <1>8
     DEF Next, ServiceNext, OneSidedNext, RescopeNext, vars

LEMMA KeyInvInit == Init => KeyInv
BY DEF Init, KeyInv, TypeOK, PrimaryKeyUnique, NoSelfContact

LEMMA KeyInvStep == KeyInv /\ [Next]_vars => KeyInv'
<1> SUFFICES ASSUME KeyInv, [Next]_vars PROVE KeyInv'
  OBVIOUS
<1>1. registered' \subseteq Names /\ adresses' \subseteq Scopes
  BY OthersTyped DEF KeyInv
<1>2. CASE FewerKeys
  BY <1>1, <1>2 DEF FewerKeys, KeyInv, TypeOK, PrimaryKeyUnique, NoSelfContact,
                    Tables, UniqueIn, Derives
<1>3. ASSUME NEW s \in Keys, NEW u \in Names, NEW v \in Names, NewPair(s, u, v)
      PROVE  KeyInv'
  <2>1. TypeOK' /\ PrimaryKeyUnique'
    BY <1>1, <1>3 DEF NewPair, TypeOK, PrimaryKeyUnique, Tables, UniqueIn
  <2>2. NoSelfContact'
    BY <1>3 DEF NewPair, KeyInv, NoSelfContact
  <2> QED
    BY <2>1, <2>2 DEF KeyInv
<1> QED
  BY <1>2, <1>3, StepShape

\* The tables stay well typed through every action of the contract.
THEOREM TypeCorrect == Spec => []TypeOK
<1>1. KeyInv => TypeOK
  BY DEF KeyInv
<1> QED
  BY <1>1, KeyInvInit, KeyInvStep, PTL DEF Spec

\* No table ever holds two rows with one scope.
THEOREM KeysUnique == Spec => []PrimaryKeyUnique
<1>1. KeyInv => PrimaryKeyUnique
  BY DEF KeyInv
<1> QED
  BY <1>1, KeyInvInit, KeyInvStep, PTL DEF Spec

\* No account is ever its own contact, although no action checks it.
THEOREM NobodyKnowsItself == Spec => []NoSelfContact
<1>1. KeyInv => NoSelfContact
  BY DEF KeyInv
<1> QED
  BY <1>1, KeyInvInit, KeyInvStep, PTL DEF Spec

-----------------------------------------------------------------------------
(* Without rraddr and forcerequest: a scope belongs to one pair.           *)

ScopeInv == KeyInv /\ ScopesArePooled /\ OneRowPerContact /\ ScopeIsPair

ScopedStep == [ServiceNext \/ OneSidedNext]_vars

\* A step makes no row, or it is a sendrequest between two accounts that do
\* not know each other, under a scope that is not in the pool.
LEMMA ScopedShape ==
    ASSUME KeyInv, ScopedStep
    PROVE  \/ FewerKeys /\ adresses \subseteq adresses'
           \/ \E s \in Scopes, u, v \in Names :
                /\ NewPair(s, v, u)
                /\ NextScope(s)
                /\ ~Knows(v, u)
                /\ ~Knows(u, v)
                /\ adresses' = adresses \cup {s}
<1>1. CASE UNCHANGED vars
  BY <1>1, UnchangedKeeps DEF SameKeys, vars
<1>2. CASE RrProfiles \/ AddAdr \/ \E max \in 0..(MaxScope + 1) : Pump(max)
  <2>1. UNCHANGED requests /\ adresses \subseteq adresses'
    BY <1>2 DEF RrProfiles, AddAdr, Pump
  <2> QED
    BY <2>1, UnchangedKeeps DEF SameKeys
<1>3. ASSUME NEW u \in Names, RegUser(u) PROVE FewerKeys /\ adresses \subseteq adresses'
  BY <1>3, UnchangedKeeps DEF RegUser, SameKeys
<1>4. ASSUME NEW u \in Names, DeleteReqs(u) \/ DeleteUser(u)
      PROVE  FewerKeys /\ adresses \subseteq adresses'
  BY <1>4, ErasersKeep DEF DeleteReqs, DeleteUser
<1>5. ASSUME NEW u \in Names, NEW v \in Names,
             RejectRequest(u, v) \/ RmContact(u, v) \/ DeleteReqs2(u, v)
      PROVE  FewerKeys /\ adresses \subseteq adresses'
  BY <1>5, ErasersKeep DEF RejectRequest, RmContact, DeleteReqs2
<1>6. ASSUME NEW u \in Names, NEW v \in Names,
           \/ AcceptRequest(u, v)
           \/ \E status \in BOOLEAN :
                BlockContact(u, v, status) \/ FavContact(u, v, status)
                                          \/ MuteContact(u, v, status)
           \/ \E alias \in Aliases : ChangeAlias(u, v, alias)
      PROVE  FewerKeys /\ adresses \subseteq adresses'
  <2>1. FewerKeys
    BY <1>6, LabelsKeep, AcceptKeeps DEF SameKeys
  <2>2. UNCHANGED adresses
    BY <1>6 DEF AcceptRequest, BlockContact, FavContact, MuteContact,
                ChangeAlias, ModifyContact
  <2> QED
    BY <2>1, <2>2
<1>7. ASSUME NEW u \in Names, NEW v \in Names, SendRequest(u, v)
      PROVE  \E s \in Scopes :
                /\ NewPair(s, v, u)
                /\ NextScope(s)
                /\ ~Knows(v, u)
                /\ ~Knows(u, v)
                /\ adresses' = adresses \cup {s}
  BY <1>7, SendRequestMakes
<1> QED
  BY <1>1, <1>2, <1>3, <1>4, <1>5, <1>6, <1>7
     DEF ScopedStep, ServiceNext, OneSidedNext

\* available_primary_key() returns a key that is not in the table.
LEMMA NextScopeIsFree ==
    ASSUME TypeOK, NEW s \in Scopes, NextScope(s)
    PROVE  s \notin adresses
BY ContactsAssumption DEF NextScope, TypeOK, Scopes

LEMMA ScopeInvInit == Init => ScopeInv
BY KeyInvInit DEF Init, ScopeInv, ScopesArePooled, OneRowPerContact, ScopeIsPair

\* Fewer keys cannot break what holds of every two keys.
LEMMA FewerKeepScopes ==
    ASSUME ScopeInv, FewerKeys, adresses \subseteq adresses'
    PROVE  ScopesArePooled' /\ OneRowPerContact' /\ ScopeIsPair'
<1>1. ScopesArePooled'
  BY DEF ScopeInv, ScopesArePooled, FewerKeys, Derives
<1>2. OneRowPerContact'
  <2> SUFFICES ASSUME NEW u \in Names, NEW r \in requests'[u], NEW q \in requests'[u],
                      r.contact = q.contact
               PROVE  r = q
    BY DEF OneRowPerContact
  <2>1. PICK r1 \in requests[u] : r1.scope = r.scope /\ r1.contact = r.contact
    BY DEF FewerKeys, Derives
  <2>2. PICK q1 \in requests[u] : q1.scope = q.scope /\ q1.contact = q.contact
    BY DEF FewerKeys, Derives
  <2>3. r.scope = q.scope
    BY <2>1, <2>2 DEF ScopeInv, OneRowPerContact
  <2> QED
    BY <2>3 DEF FewerKeys, UniqueIn
<1>3. ScopeIsPair'
  BY DEF ScopeInv, ScopeIsPair, FewerKeys, Derives
<1> QED
  BY <1>1, <1>2, <1>3

\* A new pair under a scope no row has, between accounts without rows for
\* each other.
LEMMA NewPairKeepsScopes ==
    ASSUME ScopeInv, NEW s \in Scopes, NEW u \in Names, NEW v \in Names,
           NewPair(s, v, u), NextScope(s), ~Knows(v, u), ~Knows(u, v),
           adresses' = adresses \cup {s}
    PROVE  ScopesArePooled' /\ OneRowPerContact' /\ ScopeIsPair'
<1>1. \A w \in Names : \A r \in requests[w] : r.scope # s
  BY NextScopeIsFree DEF ScopeInv, KeyInv, ScopesArePooled
<1>2. PICK row1, row2 \in Row :
        /\ row1.scope = s /\ row1.contact = u
        /\ row2.scope = s /\ row2.contact = v
        /\ \A w \in Names : requests'[w] =
             IF w = v THEN requests[v] \cup {row1}
             ELSE IF w = u THEN requests[u] \cup {row2} ELSE requests[w]
  BY DEF NewPair
<1>3. ScopesArePooled'
  BY <1>2 DEF ScopeInv, ScopesArePooled
<1>4. OneRowPerContact'
  BY <1>2 DEF ScopeInv, OneRowPerContact, Knows
<1>5. ScopeIsPair'
  BY <1>1, <1>2 DEF ScopeInv, ScopeIsPair
<1> QED
  BY <1>3, <1>4, <1>5

LEMMA ScopeInvStep == ScopeInv /\ ScopedStep => ScopeInv'
<1> SUFFICES ASSUME ScopeInv, ScopedStep PROVE ScopeInv'
  OBVIOUS
<1>1. KeyInv'
  BY KeyInvStep DEF ScopeInv, ScopedStep, Next
<1>2. ScopesArePooled' /\ OneRowPerContact' /\ ScopeIsPair'
  BY ScopedShape, FewerKeepScopes, NewPairKeepsScopes DEF ScopeInv
<1> QED
  BY <1>1, <1>2 DEF ScopeInv

\* While the pool is neither reset nor bypassed, a scope is the conversation
\* of one pair, and an account has one row per contact.
THEOREM ScopesArePairs == SpecScoped => []ScopeIsPair
<1>1. ScopeInv => ScopeIsPair
  BY DEF ScopeInv
<1> QED
  BY <1>1, ScopeInvInit, ScopeInvStep, PTL DEF SpecScoped, ScopedStep

THEOREM RowsAreOnePerContact == SpecScoped => []OneRowPerContact
<1>1. ScopeInv => OneRowPerContact
  BY DEF ScopeInv
<1> QED
  BY <1>1, ScopeInvInit, ScopeInvStep, PTL DEF SpecScoped, ScopedStep

THEOREM ScopesStayPooled == SpecScoped => []ScopesArePooled
<1>1. ScopeInv => ScopesArePooled
  BY DEF ScopeInv
<1> QED
  BY <1>1, ScopeInvInit, ScopeInvStep, PTL DEF SpecScoped, ScopedStep

\* No step hands out a scope that was handed out before, and none goes back.
THEOREM ScopesNeverComeBack == SpecScoped => ScopeNeverReused
<1> DEFINE Fresh ==
        /\ adresses \subseteq adresses'
        /\ \A u \in Names : \A r \in requests'[u] :
             ~HasScope(requests, u, r.scope) => r.scope \notin adresses
<1>1. ASSUME ScopeInv, ScopedStep PROVE Fresh
  <2>1. CASE FewerKeys /\ adresses \subseteq adresses'
    BY <2>1 DEF FewerKeys, Derives, HasScope
  <2>2. ASSUME NEW s \in Scopes, NEW u \in Names, NEW v \in Names,
               NewPair(s, v, u), NextScope(s), adresses' = adresses \cup {s}
        PROVE  Fresh
    <3>1. s \notin adresses
      BY <1>1, <2>2, NextScopeIsFree DEF ScopeInv, KeyInv
    <3> QED
      BY <2>2, <3>1 DEF NewPair, HasScope
  <2> QED
    BY <1>1, <2>1, <2>2, ScopedShape DEF ScopeInv
<1>2. ScopeInv /\ ScopedStep => [Fresh]_vars
  BY <1>1
<1> QED
  BY <1>2, ScopeInvInit, ScopeInvStep, PTL DEF SpecScoped, ScopedStep, ScopeNeverReused

-----------------------------------------------------------------------------
(* Without deleteuser and deletereqs2: every row has its counterpart.      *)

PairInv == KeyInv /\ Reciprocal

PairedStep == [ServiceNext \/ RescopeNext]_vars

LEMMA RowsTyped ==
    ASSUME KeyInv, NEW u \in Names, NEW r \in requests[u]
    PROVE  r.contact \in Names
<1>1. r \in Row
  BY DEF KeyInv, TypeOK
<1> QED
  BY <1>1 DEF Row

\* Flags are not part of it.
LEMMA SameKeysKeepPairs ==
    ASSUME PairInv, SameKeys
    PROVE  Reciprocal'
<1> SUFFICES ASSUME NEW u \in Names, NEW r \in requests'[u]
             PROVE  \E q \in requests'[r.contact] : q.scope = r.scope /\ q.contact = u
  BY DEF Reciprocal
<1>1. PICK r1 \in requests[u] : r1.scope = r.scope /\ r1.contact = r.contact
  BY DEF SameKeys, FewerKeys, Derives
<1>2. PICK q1 \in requests[r1.contact] : q1.scope = r1.scope /\ q1.contact = u
  BY DEF PairInv, Reciprocal
<1>3. r1.contact \in Names
  BY RowsTyped DEF PairInv
<1>4. PICK q \in requests'[r1.contact] : q.scope = q1.scope /\ q.contact = q1.contact
  BY <1>3 DEF SameKeys, Derives
<1> QED
  BY <1>1, <1>2, <1>4

LEMMA NewPairKeepsPairs ==
    ASSUME PairInv, NEW s \in Keys, NEW u \in Names, NEW v \in Names,
           NewPair(s, u, v)
    PROVE  Reciprocal'
<1>1. PICK row1, row2 \in Row :
        /\ row1.scope = s /\ row1.contact = v
        /\ row2.scope = s /\ row2.contact = u
        /\ \A w \in Names : requests'[w] =
             IF w = u THEN requests[u] \cup {row1}
             ELSE IF w = v THEN requests[v] \cup {row2} ELSE requests[w]
  BY DEF NewPair
<1>2. u # v
  BY DEF NewPair
<1>3. \A w \in Names : \A r \in requests[w] : r.contact \in Names
  BY RowsTyped DEF PairInv
<1>4. row1 \in requests'[u] /\ row2 \in requests'[v]
  BY <1>1, <1>2
<1>5. \A w \in Names : requests[w] \subseteq requests'[w]
  BY <1>1
<1> SUFFICES ASSUME NEW w \in Names, NEW r \in requests'[w]
             PROVE  \E q \in requests'[r.contact] : q.scope = r.scope /\ q.contact = w
  BY DEF Reciprocal
<1>6. CASE r \in requests[w]
  BY <1>3, <1>5, <1>6 DEF PairInv, Reciprocal
<1>7. CASE r \notin requests[w]
  BY <1>1, <1>4, <1>7
<1> QED
  BY <1>6, <1>7

\* What erasing by scope takes from the two tables are each other's rows.
LEMMA ErasePairKeepsPairs ==
    ASSUME PairInv, NEW u \in Names, NEW v \in Names, NEW r \in requests[u],
           r.contact = v, ErasePair(u, v, r)
    PROVE  Reciprocal'
<1>1. u # v
  BY DEF PairInv, KeyInv, NoSelfContact
<1>2. \A w \in Names : requests'[w] =
        IF w \in {u, v} THEN {q \in requests[w] : q.scope # r.scope} ELSE requests[w]
  BY <1>1 DEF ErasePair, EraseScope, PairInv, KeyInv, TypeOK
<1>3. PICK p \in requests[v] : p.scope = r.scope /\ p.contact = u
  BY DEF PairInv, Reciprocal
<1> SUFFICES ASSUME NEW w \in Names, NEW x \in requests'[w]
             PROVE  \E q \in requests'[x.contact] : q.scope = x.scope /\ q.contact = w
  BY DEF Reciprocal
<1>4. x \in requests[w] /\ x.contact \in Names
  BY <1>2, RowsTyped DEF PairInv
<1>5. PICK q \in requests[x.contact] : q.scope = x.scope /\ q.contact = w
  BY <1>4 DEF PairInv, Reciprocal
<1>6. CASE q.scope # r.scope \/ x.contact \notin {u, v}
  BY <1>2, <1>4, <1>5, <1>6
<1>7. CASE q.scope = r.scope /\ x.contact = u
  <2>1. q = r
    BY <1>5, <1>7 DEF PairInv, KeyInv, PrimaryKeyUnique
  <2> QED
    BY <1>2, <1>5, <1>7, <2>1
<1>8. CASE q.scope = r.scope /\ x.contact = v
  <2>1. q = p
    BY <1>3, <1>5, <1>8 DEF PairInv, KeyInv, PrimaryKeyUnique
  <2> QED
    BY <1>2, <1>3, <1>5, <1>8, <2>1
<1> QED
  BY <1>6, <1>7, <1>8

LEMMA DeleteReqsKeepsPairs ==
    ASSUME PairInv, NEW owner \in Names, DeleteReqs(owner)
    PROVE  Reciprocal'
<1>1. \A w \in Names : requests'[w] =
        IF w = owner THEN {}
        ELSE {q \in requests[w] :
                ~\E r \in requests[owner] : r.contact = w /\ r.scope = q.scope}
  BY DEF DeleteReqs
<1> SUFFICES ASSUME NEW w \in Names, NEW x \in requests'[w]
             PROVE  \E q \in requests'[x.contact] : q.scope = x.scope /\ q.contact = w
  BY DEF Reciprocal
<1>2. w # owner /\ x \in requests[w] /\ x.contact \in Names
  BY <1>1, RowsTyped DEF PairInv
<1>3. PICK q \in requests[x.contact] : q.scope = x.scope /\ q.contact = w
  BY <1>2 DEF PairInv, Reciprocal
<1>4. x.contact # owner
  <2>1. ~\E r \in requests[owner] : r.contact = w /\ r.scope = x.scope
    BY <1>1, <1>2
  <2> QED
    BY <1>3, <2>1
<1>5. ASSUME NEW r \in requests[owner], r.contact = x.contact, r.scope = q.scope
      PROVE  FALSE
  <2>1. PICK p \in requests[x.contact] : p.scope = r.scope /\ p.contact = owner
    BY <1>5 DEF PairInv, Reciprocal
  <2>2. p = q
    BY <1>2, <1>3, <1>5, <2>1 DEF PairInv, KeyInv, PrimaryKeyUnique
  <2> QED
    BY <1>2, <1>3, <2>1, <2>2
<1> QED
  BY <1>1, <1>2, <1>3, <1>4, <1>5

LEMMA PairInvStep == PairInv /\ PairedStep => PairInv'
<1> SUFFICES ASSUME PairInv, PairedStep PROVE PairInv'
  OBVIOUS
<1>0. KeyInv /\ KeyInv'
  <2>1. [Next]_vars
    BY DEF PairedStep, Next
  <2> QED
    BY <2>1, KeyInvStep DEF PairInv
<1>1. ASSUME UNCHANGED requests PROVE Reciprocal'
  BY <1>0, <1>1, UnchangedKeeps, SameKeysKeepPairs
<1>2. ASSUME RrProfiles \/ AddAdr \/ RrAddr \/ \E max \in 0..(MaxScope + 1) : Pump(max)
      PROVE  Reciprocal'
  BY <1>1, <1>2 DEF RrProfiles, AddAdr, RrAddr, Pump
<1>3. ASSUME NEW u \in Names, RegUser(u) PROVE Reciprocal'
  BY <1>0, <1>3, UnchangedKeeps, SameKeysKeepPairs DEF RegUser
<1>4. ASSUME NEW u \in Names, DeleteReqs(u) PROVE Reciprocal'
  BY <1>4, DeleteReqsKeepsPairs
<1>5. ASSUME NEW u \in Names, NEW v \in Names, RejectRequest(u, v) \/ RmContact(u, v)
      PROVE  Reciprocal'
  BY <1>5, ErasePairKeepsPairs DEF RejectRequest, RmContact, FirstFor
<1>6. ASSUME NEW u \in Names, NEW v \in Names,
           \/ AcceptRequest(u, v)
           \/ \E status \in BOOLEAN :
                BlockContact(u, v, status) \/ FavContact(u, v, status)
                                          \/ MuteContact(u, v, status)
           \/ \E alias \in Aliases : ChangeAlias(u, v, alias)
      PROVE  Reciprocal'
  BY <1>0, <1>6, LabelsKeep, AcceptKeeps, SameKeysKeepPairs
<1>7. ASSUME NEW u \in Names, NEW v \in Names, SendRequest(u, v) PROVE Reciprocal'
  BY <1>0, <1>7, SendRequestMakes, NewPairKeepsPairs, ScopesAreKeys
<1>8. ASSUME NEW s \in Keys, NEW u \in Names, NEW v \in Names, ForceRequest(s, u, v)
      PROVE  Reciprocal'
  BY <1>0, <1>8, ForceRequestMakes, NewPairKeepsPairs
<1>9. Reciprocal'
  <2>1. CASE ServiceNext
    BY <1>2, <1>3, <1>4, <1>5, <1>6, <1>7, <2>1 DEF ServiceNext
  <2>2. CASE RescopeNext
    BY <1>2, <1>8, <2>2 DEF RescopeNext
  <2>3. CASE UNCHANGED vars
    BY <1>1, <2>3 DEF vars
  <2> QED
    BY <2>1, <2>2, <2>3 DEF PairedStep
<1> QED
  BY <1>0, <1>9 DEF PairInv

LEMMA PairInvInit == Init => PairInv
BY KeyInvInit DEF Init, PairInv, Reciprocal

\* While no action erases one side of a pair only, every row has its
\* counterpart, also when scopes start over or are chosen by the caller.
THEOREM RowsComeInPairs == SpecPaired => []Reciprocal
<1>1. PairInv => Reciprocal
  BY DEF PairInv
<1> QED
  BY <1>1, PairInvInit, PairInvStep, PTL DEF SpecPaired, PairedStep

-----------------------------------------------------------------------------
(* What a step erases.                                                     *)

\* All the tables' scopes stay.
NothingErased ==
    \A w \in Names : \A q \in requests[w] : HasScope(requests', w, q.scope)

\* Outside the table of u, only the other sides of rows that u loses go.
ErasedFor(u) ==
    \A w \in Names \ {u} : \A q \in requests[w] :
        ~HasScope(requests', w, q.scope) =>
            /\ q.contact = u
            /\ \E r \in requests[u] : r.scope = q.scope /\ r.contact = w
            /\ ~HasScope(requests', u, q.scope)

LEMMA SameKeysEraseNothing ==
    ASSUME SameKeys
    PROVE  NothingErased
BY DEF SameKeys, Derives, NothingErased, HasScope

LEMMA NewPairErasesNothing ==
    ASSUME NEW s \in Keys, NEW u \in Names, NEW v \in Names, NewPair(s, u, v)
    PROVE  NothingErased
BY DEF NewPair, NothingErased, HasScope

LEMMA ErasePairErases ==
    ASSUME PairInv, NEW u \in Names, NEW v \in Names, NEW r \in requests[u],
           r.contact = v, ErasePair(u, v, r)
    PROVE  ErasedFor(u)
<1>1. u # v
  BY DEF PairInv, KeyInv, NoSelfContact
<1>2. \A w \in Names : requests'[w] =
        IF w \in {u, v} THEN {q \in requests[w] : q.scope # r.scope} ELSE requests[w]
  BY <1>1 DEF ErasePair, EraseScope, PairInv, KeyInv, TypeOK
<1>3. PICK p \in requests[v] : p.scope = r.scope /\ p.contact = u
  BY DEF PairInv, Reciprocal
<1> SUFFICES ASSUME NEW w \in Names \ {u}, NEW q \in requests[w],
                    ~HasScope(requests', w, q.scope)
             PROVE  /\ q.contact = u
                    /\ \E x \in requests[u] : x.scope = q.scope /\ x.contact = w
                    /\ ~HasScope(requests', u, q.scope)
  BY DEF ErasedFor
<1>4. w = v /\ q.scope = r.scope
  BY <1>2 DEF HasScope
<1>5. q = p
  BY <1>3, <1>4 DEF PairInv, KeyInv, PrimaryKeyUnique
<1>6. ~HasScope(requests', u, q.scope)
  <2>1. requests'[u] = {x \in requests[u] : x.scope # r.scope}
    BY <1>2
  <2> QED BY <1>4, <2>1 DEF HasScope
<1> QED
  BY <1>3, <1>4, <1>5, <1>6

LEMMA DeleteReqsErases ==
    ASSUME PairInv, NEW owner \in Names, DeleteReqs(owner)
    PROVE  ErasedFor(owner)
<1>1. \A w \in Names : requests'[w] =
        IF w = owner THEN {}
        ELSE {q \in requests[w] :
                ~\E r \in requests[owner] : r.contact = w /\ r.scope = q.scope}
  BY DEF DeleteReqs
<1> SUFFICES ASSUME NEW w \in Names \ {owner}, NEW q \in requests[w],
                    ~HasScope(requests', w, q.scope)
             PROVE  /\ q.contact = owner
                    /\ \E x \in requests[owner] : x.scope = q.scope /\ x.contact = w
                    /\ ~HasScope(requests', owner, q.scope)
  BY DEF ErasedFor
<1>2. PICK r \in requests[owner] : r.contact = w /\ r.scope = q.scope
  BY <1>1 DEF HasScope
<1>3. PICK p \in requests[w] : p.scope = r.scope /\ p.contact = owner
  BY <1>2 DEF PairInv, Reciprocal
<1>4. p = q
  BY <1>2, <1>3 DEF PairInv, KeyInv, PrimaryKeyUnique
<1>5. ~HasScope(requests', owner, q.scope)
  BY <1>1 DEF HasScope
<1> QED
  BY <1>2, <1>3, <1>4, <1>5

LEMMA PairedErases ==
    ASSUME PairInv, ServiceNext \/ RescopeNext
    PROVE  \E u \in Names : ErasedFor(u)
<1>0. KeyInv /\ \E u \in Names : TRUE
  BY ContactsAssumption DEF PairInv
<1>1. ASSUME NothingErased PROVE \E u \in Names : ErasedFor(u)
  BY <1>0, <1>1 DEF NothingErased, ErasedFor
<1>2. ASSUME UNCHANGED requests PROVE NothingErased
  BY <1>0, <1>2, UnchangedKeeps, SameKeysEraseNothing
<1>3. ASSUME RrProfiles \/ AddAdr \/ RrAddr \/ \E max \in 0..(MaxScope + 1) : Pump(max)
      PROVE  NothingErased
  BY <1>2, <1>3 DEF RrProfiles, AddAdr, RrAddr, Pump
<1>4. ASSUME NEW u \in Names, RegUser(u) PROVE NothingErased
  BY <1>2, <1>4 DEF RegUser
<1>5. ASSUME NEW u \in Names, NEW v \in Names, RejectRequest(u, v) \/ RmContact(u, v)
      PROVE  ErasedFor(u)
  BY <1>5, ErasePairErases DEF RejectRequest, RmContact, FirstFor
<1>6. ASSUME NEW u \in Names, NEW v \in Names,
           \/ AcceptRequest(u, v)
           \/ \E status \in BOOLEAN :
                BlockContact(u, v, status) \/ FavContact(u, v, status)
                                          \/ MuteContact(u, v, status)
           \/ \E alias \in Aliases : ChangeAlias(u, v, alias)
      PROVE  NothingErased
  BY <1>0, <1>6, LabelsKeep, AcceptKeeps, SameKeysEraseNothing
<1>7. ASSUME NEW u \in Names, NEW v \in Names, SendRequest(u, v) PROVE NothingErased
  BY <1>0, <1>7, SendRequestMakes, NewPairErasesNothing, ScopesAreKeys
<1>8. ASSUME NEW s \in Keys, NEW u \in Names, NEW v \in Names, ForceRequest(s, u, v)
      PROVE  NothingErased
  BY <1>0, <1>8, ForceRequestMakes, NewPairErasesNothing
<1>9. CASE ServiceNext
  BY <1>1, <1>3, <1>4, <1>5, <1>6, <1>7, <1>9, DeleteReqsErases DEF ServiceNext
<1>10. CASE RescopeNext
  BY <1>1, <1>3, <1>8, <1>10 DEF RescopeNext
<1> QED
  BY <1>9, <1>10

\* Erasing the other side by its scope alone only ever takes the row that
\* belongs to the one erased on the own side, re-used scopes included.
THEOREM OnlyPairsAreErased == SpecPaired => ErasesPairs
<1>1. PairInv /\ PairedStep => [\E u \in Names : ErasedFor(u)]_vars
  BY PairedErases DEF PairedStep
<1> QED
  BY <1>1, PairInvInit, PairInvStep, PTL DEF SpecPaired, PairedStep, ErasesPairs, ErasedFor

-----------------------------------------------------------------------------
(* Answered requests, while the pool is not bypassed.                      *)

Settled(r) == r.cntct \/ r.blocked

AnswerInv == ScopeInv /\ AnsweredAreContacts

LEMMA FewerRowsKeepAnswers ==
    ASSUME AnswerInv, \A w \in Names : requests'[w] \subseteq requests[w]
    PROVE  AnsweredAreContacts'
<1> SUFFICES ASSUME NEW u \in Names, NEW r \in requests'[u],
                    NEW q \in requests'[r.contact], r.scope = q.scope,
                    ~r.pending, ~q.pending
             PROVE  Settled(r)
  BY DEF AnsweredAreContacts, Settled
<1>1. r \in requests[u] /\ r.contact \in Names
  BY RowsTyped DEF AnswerInv, ScopeInv
<1> QED
  BY <1>1 DEF AnswerInv, AnsweredAreContacts, Settled

\* A change of other flags, or of these two that leaves the row settled.
LEMMA RelabelKeepsAnswers ==
    ASSUME AnswerInv, NEW u \in Names, NEW old \in requests[u], NEW new \in Row,
           new.scope = old.scope, new.contact = old.contact,
           new.pending = old.pending, Settled(old) => Settled(new),
           ModifyContact(u, old, new)
    PROVE  AnsweredAreContacts'
<1>1. \A w \in Names : requests'[w] =
        IF w = u THEN (requests[u] \ {old}) \cup {new} ELSE requests[w]
  BY DEF ModifyContact, Replace, AnswerInv, ScopeInv, KeyInv, TypeOK
<1>2. ASSUME NEW w \in Names, NEW x \in requests'[w]
      PROVE  \E y \in requests[w] :
                /\ y.scope = x.scope /\ y.contact = x.contact /\ y.pending = x.pending
                /\ Settled(y) => Settled(x)
  BY <1>1, <1>2
<1> SUFFICES ASSUME NEW w \in Names, NEW r \in requests'[w],
                    NEW q \in requests'[r.contact], r.scope = q.scope,
                    ~r.pending, ~q.pending
             PROVE  Settled(r)
  BY DEF AnsweredAreContacts, Settled
<1>3. PICK r0 \in requests[w] :
        /\ r0.scope = r.scope /\ r0.contact = r.contact /\ r0.pending = r.pending
        /\ Settled(r0) => Settled(r)
  BY <1>2
<1>4. r.contact \in Names
  BY <1>3, RowsTyped DEF AnswerInv, ScopeInv
<1>5. PICK q0 \in requests[r.contact] : q0.scope = q.scope /\ q0.pending = q.pending
  BY <1>2, <1>4
<1> QED
  BY <1>3, <1>5 DEF AnswerInv, AnsweredAreContacts, Settled

LEMMA LabelsKeepAnswers ==
    ASSUME AnswerInv, NEW u \in Names, NEW v \in Names,
           \/ \E status \in BOOLEAN :
                BlockContact(u, v, status) \/ FavContact(u, v, status)
                                          \/ MuteContact(u, v, status)
           \/ \E alias \in Aliases : ChangeAlias(u, v, alias)
    PROVE  AnsweredAreContacts'
<1>0. requests[u] \subseteq Row
  BY DEF AnswerInv, ScopeInv, KeyInv, TypeOK
<1>1. ASSUME NEW status \in BOOLEAN, BlockContact(u, v, status)
      PROVE  AnsweredAreContacts'
  <2> DEFINE New(r) == IF status
             THEN [r EXCEPT !.blocked = TRUE, !.cntct = FALSE, !.favorite = FALSE]
             ELSE [r EXCEPT !.blocked = FALSE, !.cntct = TRUE]
  <2>1. PICK r \in requests[u] : ModifyContact(u, r, New(r))
    BY <1>1 DEF BlockContact
  <2>2. /\ New(r) \in Row /\ New(r).scope = r.scope /\ New(r).contact = r.contact
        /\ New(r).pending = r.pending /\ Settled(New(r))
    BY <1>0 DEF Row, Settled
  <2> HIDE DEF New
  <2> QED
    BY <2>1, <2>2, RelabelKeepsAnswers
<1>2. ASSUME NEW status \in BOOLEAN, FavContact(u, v, status)
      PROVE  AnsweredAreContacts'
  <2> DEFINE New(r) == [r EXCEPT !.favorite = status]
  <2>1. PICK r \in requests[u] : ModifyContact(u, r, New(r))
    BY <1>2 DEF FavContact
  <2>2. /\ New(r) \in Row /\ New(r).scope = r.scope /\ New(r).contact = r.contact
        /\ New(r).pending = r.pending /\ (Settled(r) => Settled(New(r)))
    BY <1>0 DEF Row, Settled
  <2> HIDE DEF New
  <2> QED
    BY <2>1, <2>2, RelabelKeepsAnswers
<1>3. ASSUME NEW status \in BOOLEAN, MuteContact(u, v, status)
      PROVE  AnsweredAreContacts'
  <2> DEFINE New(r) == [r EXCEPT !.muted = status]
  <2>1. PICK r \in requests[u] : ModifyContact(u, r, New(r))
    BY <1>3 DEF MuteContact
  <2>2. /\ New(r) \in Row /\ New(r).scope = r.scope /\ New(r).contact = r.contact
        /\ New(r).pending = r.pending /\ (Settled(r) => Settled(New(r)))
    BY <1>0 DEF Row, Settled
  <2> HIDE DEF New
  <2> QED
    BY <2>1, <2>2, RelabelKeepsAnswers
<1>4. ASSUME NEW alias \in Aliases, ChangeAlias(u, v, alias)
      PROVE  AnsweredAreContacts'
  <2> DEFINE New(r) == [r EXCEPT !.alias = alias]
  <2>1. PICK r \in requests[u] : ModifyContact(u, r, New(r))
    BY <1>4 DEF ChangeAlias
  <2>2. /\ New(r) \in Row /\ New(r).scope = r.scope /\ New(r).contact = r.contact
        /\ New(r).pending = r.pending /\ (Settled(r) => Settled(New(r)))
    BY <1>0 DEF Row, Settled
  <2> HIDE DEF New
  <2> QED
    BY <2>1, <2>2, RelabelKeepsAnswers
<1> QED
  BY <1>1, <1>2, <1>3, <1>4

\* Accepting makes contacts of both sides of one pair at once: a row that
\* waits no longer never faces one that is not settled.
LEMMA AcceptKeepsAnswers ==
    ASSUME AnswerInv, NEW u \in Names, NEW v \in Names, AcceptRequest(u, v)
    PROVE  AnsweredAreContacts'
<1>0. /\ requests \in [Names -> SUBSET Row]
      /\ PrimaryKeyUnique /\ NoSelfContact /\ ScopeIsPair /\ AnsweredAreContacts
  BY DEF AnswerInv, ScopeInv, KeyInv, TypeOK
<1>1. PICK r \in requests[u], q \in requests[v] :
        /\ r.contact = v /\ q.scope = r.scope
        /\ requests' =
             Replace(Replace(requests, v, q, [q EXCEPT !.keyed = TRUE,
                                                       !.pending = FALSE,
                                                       !.cntct = TRUE]),
                     u, r, [r EXCEPT !.pending = FALSE, !.cntct = TRUE])
  BY DEF AcceptRequest, FirstFor
<1> DEFINE q2 == [q EXCEPT !.keyed = TRUE, !.pending = FALSE, !.cntct = TRUE]
           r2 == [r EXCEPT !.pending = FALSE, !.cntct = TRUE]
<1>2. u # v /\ q \in Row /\ r \in Row
  BY <1>0, <1>1 DEF NoSelfContact
<1>3. q.contact = u
  BY <1>0, <1>1, <1>2 DEF ScopeIsPair
<1>4. /\ q2.scope = r.scope /\ q2.contact = u /\ Settled(q2)
      /\ r2.scope = r.scope /\ r2.contact = v /\ Settled(r2)
  BY <1>1, <1>2, <1>3 DEF Row, Settled
<1>5. \A w \in Names : requests'[w] =
        IF w = u THEN (requests[u] \ {r}) \cup {r2}
        ELSE IF w = v THEN (requests[v] \ {q}) \cup {q2} ELSE requests[w]
  BY <1>0, <1>1, <1>2 DEF Replace
<1> HIDE DEF q2, r2
<1> SUFFICES ASSUME NEW w \in Names, NEW x \in requests'[w],
                    NEW y \in requests'[x.contact], x.scope = y.scope,
                    ~x.pending, ~y.pending, ~Settled(x)
             PROVE  FALSE
  BY DEF AnsweredAreContacts, Settled
<1>6. x \in requests[w] /\ x \in Row /\ x.contact \in Names /\ x.contact # w
  <2>1. x \in requests[w]
    BY <1>4, <1>5
  <2> QED
    BY <1>0, <2>1 DEF Row, NoSelfContact
<1>7. y \notin requests[x.contact]
  BY <1>0, <1>6 DEF AnsweredAreContacts, Settled
<1>8. x.scope = r.scope /\ x.contact \in {u, v}
  BY <1>4, <1>5, <1>6, <1>7
<1>9. CASE x.contact = u
  <2>1. w = v
    BY <1>0, <1>1, <1>6, <1>8, <1>9 DEF ScopeIsPair
  <2>2. x = q
    BY <1>0, <1>1, <1>6, <1>8, <2>1 DEF PrimaryKeyUnique
  <2> QED
    BY <1>2, <1>4, <1>5, <2>1, <2>2
<1>10. CASE x.contact = v
  <2>1. w = u
    BY <1>0, <1>1, <1>3, <1>6, <1>8, <1>10 DEF ScopeIsPair
  <2>2. x = r
    BY <1>0, <1>6, <1>8, <2>1 DEF PrimaryKeyUnique
  <2> QED
    BY <1>2, <1>4, <1>5, <2>1, <2>2
<1> QED
  BY <1>8, <1>9, <1>10

\* The side that sends a request waits, whatever the memory held for the
\* other, and no row of before has the scope of the new pair.
LEMMA SendRequestKeepsAnswers ==
    ASSUME AnswerInv, NEW u \in Names, NEW v \in Names, SendRequest(u, v)
    PROVE  AnsweredAreContacts'
<1>0. /\ requests \in [Names -> SUBSET Row] /\ TypeOK
      /\ ScopesArePooled /\ AnsweredAreContacts
  BY DEF AnswerInv, ScopeInv, KeyInv, TypeOK
<1>1. PICK s \in Scopes :
        /\ NextScope(s)
        /\ EmplaceBoth(s, v, FreshRows(s, u, TRUE, Uninit, Uninit),
                          u, FreshRows(s, v, FALSE, Uninit, {TRUE}))
  BY DEF SendRequest
<1>2. PICK row1 \in FreshRows(s, u, TRUE, Uninit, Uninit),
           row2 \in FreshRows(s, v, FALSE, Uninit, {TRUE}) :
        /\ ~HasScope(Emplace(requests, v, row1), u, s)
        /\ requests' = Emplace(Emplace(requests, v, row1), u, row2)
  BY <1>1 DEF EmplaceBoth
<1>3. row1.scope = s /\ row1.contact = u
  BY DEF FreshRows
<1>4. row2.scope = s /\ row2.contact = v /\ row2.pending = TRUE
  BY DEF FreshRows
<1>5. u # v
  BY <1>0, <1>2, <1>3 DEF Emplace, HasScope
<1>6. \A w \in Names : requests'[w] =
        IF w = v THEN requests[v] \cup {row1}
        ELSE IF w = u THEN requests[u] \cup {row2} ELSE requests[w]
  BY <1>0, <1>2, <1>5 DEF Emplace
<1>7. \A w \in Names : \A r \in requests[w] : r.scope # s
  BY <1>0, <1>1, NextScopeIsFree DEF ScopesArePooled
<1> SUFFICES ASSUME NEW w \in Names, NEW x \in requests'[w],
                    NEW y \in requests'[x.contact], x.scope = y.scope,
                    ~x.pending, ~y.pending
             PROVE  Settled(x)
  BY DEF AnsweredAreContacts, Settled
<1>8. CASE x \in requests[w]
  <2>1. x.contact \in Names
    BY <1>8, RowsTyped DEF AnswerInv, ScopeInv
  <2>2. y \in requests[x.contact]
    BY <1>3, <1>4, <1>6, <1>7, <1>8, <2>1
  <2> QED
    BY <1>0, <1>8, <2>2 DEF AnsweredAreContacts, Settled
<1>9. CASE x \notin requests[w]
  <2>1. x = row1 /\ w = v
    BY <1>4, <1>6, <1>9
  <2>2. y = row2
    BY <1>3, <1>5, <1>6, <1>7, <2>1
  <2> QED
    BY <1>4, <2>2
<1> QED
  BY <1>8, <1>9

LEMMA AnswerInvStep == AnswerInv /\ ScopedStep => AnswerInv'
<1> SUFFICES ASSUME AnswerInv, ScopedStep PROVE AnsweredAreContacts'
  BY ScopeInvStep DEF AnswerInv
<1>0. requests \in [Names -> SUBSET Row] /\ KeyInv
  BY DEF AnswerInv, ScopeInv, KeyInv, TypeOK
<1>1. ASSUME UNCHANGED requests PROVE AnsweredAreContacts'
  BY <1>1, FewerRowsKeepAnswers
<1>2. CASE UNCHANGED vars \/ RrProfiles \/ AddAdr \/ \E max \in 0..(MaxScope + 1) : Pump(max)
  BY <1>1, <1>2 DEF vars, RrProfiles, AddAdr, Pump
<1>3. ASSUME NEW u \in Names, RegUser(u) PROVE AnsweredAreContacts'
  BY <1>1, <1>3 DEF RegUser
<1>4. ASSUME NEW u \in Names, DeleteReqs(u) \/ DeleteUser(u) PROVE AnsweredAreContacts'
  <2>1. \A w \in Names : requests'[w] \subseteq requests[w]
    BY <1>0, <1>4 DEF DeleteReqs, DeleteUser
  <2> QED
    BY <2>1, FewerRowsKeepAnswers
<1>5. ASSUME NEW u \in Names, NEW v \in Names,
             RejectRequest(u, v) \/ RmContact(u, v) \/ DeleteReqs2(u, v)
      PROVE  AnsweredAreContacts'
  <2>1. \A w \in Names : requests'[w] \subseteq requests[w]
    BY <1>0, <1>5 DEF RejectRequest, RmContact, DeleteReqs2, ErasePair, EraseScope
  <2> QED
    BY <2>1, FewerRowsKeepAnswers
<1>6. ASSUME NEW u \in Names, NEW v \in Names,
           \/ \E status \in BOOLEAN :
                BlockContact(u, v, status) \/ FavContact(u, v, status)
                                          \/ MuteContact(u, v, status)
           \/ \E alias \in Aliases : ChangeAlias(u, v, alias)
      PROVE  AnsweredAreContacts'
  BY <1>6, LabelsKeepAnswers
<1> QED
  BY <1>2, <1>3, <1>4, <1>5, <1>6, AcceptKeepsAnswers, SendRequestKeepsAnswers
     DEF ScopedStep, ServiceNext, OneSidedNext

\* When neither side of a pair waits any more, its request was accepted: each
\* has the other as a contact or has blocked it.
THEOREM AnsweredRequestsMakeContacts == SpecScoped => []AnsweredAreContacts
<1>1. Init => AnswerInv
  BY ScopeInvInit DEF Init, AnswerInv, AnsweredAreContacts
<1>2. AnswerInv => AnsweredAreContacts
  BY DEF AnswerInv
<1> QED
  BY <1>1, <1>2, AnswerInvStep, PTL DEF SpecScoped, ScopedStep

=============================================================================
