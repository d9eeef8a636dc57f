------------------------------ MODULE K2Contacts ------------------------------
(***************************************************************************)
(* The contact graph of the k2ultra contract: the registered accounts, the *)
(* per-account "requests" table and the contract-wide "adresses" table     *)
(* from which the scope of every conversation is drawn.                    *)
(*                                                                         *)
(* A step is one successful contract action.  An action that fails a       *)
(* check() or whose table operation aborts is rolled back by the chain, so *)
(* it is a disabled step: every check, and every way a table operation     *)
(* aborts, is a conjunct.  Actions of different accounts interleave in any *)
(* order.  require_auth(owner) is the choice of the caller, the "owner"    *)
(* parameter of the action.                                                *)
(***************************************************************************)
EXTENDS Naturals

CONSTANTS
    Names,      \* account names
    MaxScope,   \* largest key available_primary_key() hands out (2^64 - 3)
    Aliases,    \* the alias strings a user may give a contact
    NoAlias,    \* the empty string
    Uninit      \* values a bool the constructor leaves unset may be stored as

ASSUME ContactsAssumption ==
    /\ Names # {}
    /\ MaxScope \in Nat
    /\ NoAlias \in Aliases
    /\ Uninit \subseteq BOOLEAN

VARIABLES
    registered, \* owners of the rows of the "profiles" table
    requests,   \* requests[u]: rows of the "requests" table in scope u
    adresses    \* keys of the "adresses" table

vars == <<registered, requests, adresses>>

\* The keys the pool hands out, and all keys: the store reserves two values
\* above, which a caller may name all the same.
Scopes == 0..MaxScope
Keys == 0..(MaxScope + 2)

\* A row of "requests".  "keyed" says whether a key string has been stored:
\* the key in a row of u always comes from the row's contact.
Row == [scope : Keys, contact : Names, alias : Aliases, keyed : BOOLEAN,
        cntct : BOOLEAN, favorite : BOOLEAN, blocked : BOOLEAN,
        muted : BOOLEAN, pending : BOOLEAN]

TypeOK ==
    /\ registered \subseteq Names
    /\ requests \in [Names -> SUBSET Row]
    /\ adresses \subseteq Scopes

Init ==
    /\ registered = {}
    /\ requests = [u \in Names |-> {}]
    /\ adresses = {}

-----------------------------------------------------------------------------
(* The table operations of multi_index the contract uses.                  *)

\* find(scope) on the primary key succeeds.
HasScope(tbl, u, s) == \E r \in tbl[u] : r.scope = s

\* find(c) on the secondary index "contact": the entry with the lowest
\* primary key among those whose contact is c.
FirstFor(u, c, r) ==
    /\ r \in requests[u]
    /\ r.contact = c
    /\ \A q \in requests[u] : q.contact = c => r.scope <= q.scope

Knows(u, c) == \E r \in requests[u] : r.contact = c

Emplace(tbl, u, row) == [tbl EXCEPT ![u] = @ \cup {row}]

EraseScope(tbl, u, s) == [tbl EXCEPT ![u] = {r \in @ : r.scope # s}]

Replace(tbl, u, old, new) == [tbl EXCEPT ![u] = (@ \ {old}) \cup {new}]

\* available_primary_key() returns s: one past the last row.
NextScope(s) ==
    /\ s \in Scopes
    /\ \/ adresses = {} /\ s = 0
       \/ \E last \in adresses : s = last + 1 /\ \A k \in adresses : k <= last

\* The rows an emplace can store in a table for contact c: the constructor
\* sets scope and contact, "cntct" and "pending" are the values it may give
\* those two flags, and the flags it never sets hold what the memory held.
FreshRows(s, c, keyed, cntct, pending) ==
    [scope : {s}, contact : {c}, alias : {NoAlias}, keyed : {keyed},
     cntct : cntct, favorite : Uninit, blocked : Uninit, muted : Uninit,
     pending : pending]

-----------------------------------------------------------------------------
(* Faulty variants of the operators below, one slip each.  No action uses  *)
(* them: they show that the properties can fail.                           *)

\* The counter is incremented without available_primary_key()'s limit.
AddAdrPastLimit ==
    /\ \E last \in adresses :
        /\ \A k \in adresses : k <= last
        /\ adresses' = adresses \cup {last + 1}
    /\ UNCHANGED <<registered, requests>>

\* A first row with that scope does not abort the action.
EmplaceBothOver(s, u, rows1, v, rows2) ==
    /\ u # v /\ ~HasScope(requests, v, s)
    /\ \E row1 \in rows1, row2 \in rows2 :
        requests' = Emplace(Emplace(requests, u, row1), v, row2)

\* The second emplace checks the table as it was before the first.
EmplaceBothStale(s, u, rows1, v, rows2) ==
    /\ ~HasScope(requests, u, s) /\ ~HasScope(requests, v, s)
    /\ \E row1 \in rows1, row2 \in rows2 :
        requests' = Emplace(Emplace(requests, u, row1), v, row2)

\* The address of a removed contact goes back to the pool.
RmContactFreesAddr(owner, contact) ==
    /\ \E r \in requests[owner] :
        /\ FirstFor(owner, contact, r)
        /\ requests' = EraseScope(EraseScope(requests, owner, r.scope), contact, r.scope)
        /\ adresses' = adresses \ {r.scope}
    /\ UNCHANGED registered

\* A rejected request is erased on the side that rejects it only.
RejectRequestOneSided(owner, from) ==
    /\ {owner, from} \subseteq registered
    /\ \E r \in requests[owner] :
        FirstFor(owner, from, r) /\ requests' = EraseScope(requests, owner, r.scope)
    /\ UNCHANGED <<registered, adresses>>

\* Unblocking does not make the other side a contact again.
BlockContactForgets(owner, contact, status) ==
    /\ {owner, contact} \subseteq registered
    /\ \E r \in requests[owner] :
        /\ FirstFor(owner, contact, r)
        /\ requests' = Replace(requests, owner, r,
             IF status
             THEN [r EXCEPT !.blocked = TRUE, !.cntct = FALSE, !.favorite = FALSE]
             ELSE [r EXCEPT !.blocked = FALSE])
    /\ UNCHANGED <<registered, adresses>>

\* The other side is erased by the scope alone, in every account's table.
DeleteReqsByScope(owner) ==
    /\ ~Knows(owner, owner)
    /\ requests' = [u \in Names |->
        {q \in requests[u] : ~HasScope(requests, owner, q.scope)}]
    /\ UNCHANGED <<registered, adresses>>

-----------------------------------------------------------------------------
(* The two emplaces that make a pair: a row of rows1 in the table of u,    *)
(* then one of rows2 in that of v, which aborts on a row with that scope.  *)
EmplaceBoth(s, u, rows1, v, rows2) ==
    /\ ~HasScope(requests, u, s)
    /\ \E row1 \in rows1, row2 \in rows2 :
        LET stored == Emplace(requests, u, row1)
        IN  /\ ~HasScope(stored, v, s)
            /\ requests' = Emplace(stored, v, row2)

\* The sender's own table is not looked at.
SendRequestOneCheck(from, to) ==
    /\ {from, to} \subseteq registered
    /\ ~Knows(to, from)
    /\ \E s \in Scopes :
        /\ NextScope(s)
        /\ EmplaceBoth(s, to, FreshRows(s, from, TRUE, Uninit, Uninit),
                          from, FreshRows(s, to, FALSE, Uninit, {TRUE}))
        /\ adresses' = adresses \cup {s}
    /\ UNCHANGED registered

\* The address is not stored: the next pair is handed the same scope.
SendRequestNoAddr(from, to) ==
    /\ {from, to} \subseteq registered
    /\ ~Knows(to, from)
    /\ ~Knows(from, to)
    /\ \E s \in Scopes :
        /\ NextScope(s)
        /\ EmplaceBoth(s, to, FreshRows(s, from, TRUE, Uninit, Uninit),
                          from, FreshRows(s, to, FALSE, Uninit, {TRUE}))
    /\ UNCHANGED <<registered, adresses>>

-----------------------------------------------------------------------------
(* Accounts.                                                               *)

RegUser(owner) ==
    /\ owner \notin registered
    /\ registered' = registered \cup {owner}
    /\ UNCHANGED <<requests, adresses>>

\* Only the owner's side of each pair is erased.
DeleteUser(owner) ==
    /\ owner \in registered
    /\ registered' = registered \ {owner}
    /\ requests' = [requests EXCEPT ![owner] = {}]
    /\ UNCHANGED adresses

RrProfiles ==
    /\ registered' = {}
    /\ UNCHANGED <<requests, adresses>>
-----------------------------------------------------------------------------
(* Contact requests.                                                       *)

\* Both rows and the address are stored by one action.
SendRequest(from, to) ==
    /\ {from, to} \subseteq registered
    /\ ~Knows(to, from)
    /\ ~Knows(from, to)
    /\ \E s \in Scopes :
        /\ NextScope(s)
        /\ EmplaceBoth(s, to, FreshRows(s, from, TRUE, Uninit, Uninit),
                          from, FreshRows(s, to, FALSE, Uninit, {TRUE}))
        /\ adresses' = adresses \cup {s}
    /\ UNCHANGED registered

\* The row of "from" is looked up by the scope of the owner's row.
AcceptRequest(owner, from) ==
    /\ {owner, from} \subseteq registered
    /\ \E r \in requests[owner], q \in requests[from] :
        /\ FirstFor(owner, from, r)
        /\ q.scope = r.scope
        /\ ~q.cntct
        /\ requests' =
             Replace(Replace(requests, from, q, [q EXCEPT !.keyed = TRUE,
                                                          !.pending = FALSE,
                                                          !.cntct = TRUE]),
                     owner, r, [r EXCEPT !.pending = FALSE, !.cntct = TRUE])
    /\ UNCHANGED <<registered, adresses>>

\* Erasing the end iterator aborts, so both rows have to be there.
ErasePair(owner, contact, r) ==
    LET erased == EraseScope(requests, owner, r.scope)
    IN  /\ HasScope(erased, contact, r.scope)
        /\ requests' = EraseScope(erased, contact, r.scope)

RejectRequest(owner, from) ==
    /\ {owner, from} \subseteq registered
    /\ \E r \in requests[owner] :
        FirstFor(owner, from, r) /\ ErasePair(owner, from, r)
    /\ UNCHANGED <<registered, adresses>>

RmContact(owner, contact) ==
    /\ \E r \in requests[owner] :
        FirstFor(owner, contact, r) /\ ErasePair(owner, contact, r)
    /\ UNCHANGED <<registered, adresses>>

-----------------------------------------------------------------------------
(* The owner's view of one contact.                                        *)

ModifyContact(owner, r, new) ==
    /\ requests' = Replace(requests, owner, r, new)
    /\ UNCHANGED <<registered, adresses>>

BlockContact(owner, contact, status) ==
    /\ {owner, contact} \subseteq registered
    /\ \E r \in requests[owner] :
        /\ FirstFor(owner, contact, r)
        /\ ModifyContact(owner, r,
             IF status
             THEN [r EXCEPT !.blocked = TRUE, !.cntct = FALSE, !.favorite = FALSE]
             ELSE [r EXCEPT !.blocked = FALSE, !.cntct = TRUE])

FavContact(owner, contact, status) ==
    /\ {owner, contact} \subseteq registered
    /\ \E r \in requests[owner] :
        /\ FirstFor(owner, contact, r)
        /\ ModifyContact(owner, r, [r EXCEPT !.favorite = status])

MuteContact(owner, contact, status) ==
    /\ {owner, contact} \subseteq registered
    /\ \E r \in requests[owner] :
        /\ FirstFor(owner, contact, r)
        /\ ModifyContact(owner, r, [r EXCEPT !.muted = status])

ChangeAlias(owner, contact, alias) ==
    \E r \in requests[owner] :
        /\ FirstFor(owner, contact, r)
        /\ ModifyContact(owner, r, [r EXCEPT !.alias = alias])

-----------------------------------------------------------------------------
(* Maintenance.                                                            *)

\* Erases every row of the owner and, by scope, the row of its contact.  A
\* row whose contact is the owner itself would be erased twice, which aborts.
DeleteReqs(owner) ==
    /\ ~Knows(owner, owner)
    /\ requests' = [u \in Names |->
        IF u = owner THEN {}
        ELSE {q \in requests[u] :
                ~\E r \in requests[owner] : r.contact = u /\ r.scope = q.scope}]
    /\ UNCHANGED <<registered, adresses>>

\* Erases the contact's row for the owner and leaves the owner's row alone.
DeleteReqs2(owner, contact) ==
    /\ \E q \in requests[contact] :
        /\ FirstFor(contact, owner, q)
        /\ requests' = EraseScope(requests, contact, q.scope)
    /\ UNCHANGED <<registered, adresses>>

AddAdr ==
    /\ \E s \in Scopes : NextScope(s) /\ adresses' = adresses \cup {s}
    /\ UNCHANGED <<registered, requests>>

\* Stores the keys 0 .. max-1 one by one: an existing key aborts the action.
Pump(max) ==
    LET keys == {s \in Scopes : s < max}
    IN  /\ keys \cap adresses = {}
        /\ adresses' = adresses \cup keys
        /\ UNCHANGED <<registered, requests>>

RrAddr ==
    /\ adresses' = {}
    /\ UNCHANGED <<registered, requests>>

\* The scope is the caller's and no entry is made in "adresses".
ForceRequest(scope, cnt1, cnt2) ==
    /\ EmplaceBoth(scope, cnt1, FreshRows(scope, cnt2, TRUE, {TRUE}, Uninit),
                          cnt2, FreshRows(scope, cnt1, TRUE, {TRUE}, Uninit))
    /\ UNCHANGED <<registered, adresses>>

-----------------------------------------------------------------------------
(* The actions that keep both sides of a pair and the pool of addresses ... *)
ServiceNext ==
    \/ RrProfiles
    \/ AddAdr
    \/ \E max \in 0..(MaxScope + 1) : Pump(max)
    \/ \E u \in Names : RegUser(u) \/ DeleteReqs(u)
    \/ \E u, v \in Names :
        \/ SendRequest(u, v)
        \/ AcceptRequest(u, v)
        \/ RejectRequest(u, v)
        \/ RmContact(u, v)
        \/ \E status \in BOOLEAN :
            BlockContact(u, v, status) \/ FavContact(u, v, status)
                                      \/ MuteContact(u, v, status)
        \/ \E alias \in Aliases : ChangeAlias(u, v, alias)

\* ... those that erase one side of a pair only ...
OneSidedNext ==
    \/ \E u \in Names : DeleteUser(u)
    \/ \E u, v \in Names : DeleteReqs2(u, v)

\* ... and those that let a scope in use be handed out or used again.
RescopeNext ==
    \/ RrAddr
    \/ \E s \in Keys, u, v \in Names : ForceRequest(s, u, v)

Next == ServiceNext \/ OneSidedNext \/ RescopeNext

\* The whole contract, and the contract without one group of actions.
Spec == Init /\ [][Next]_vars
SpecScoped == Init /\ [][ServiceNext \/ OneSidedNext]_vars
SpecPaired == Init /\ [][ServiceNext \/ RescopeNext]_vars

-----------------------------------------------------------------------------
(* Invariants.                                                             *)

\* A table never holds two rows with one primary key: what the store relies
\* on when the contract looks a row up by its scope.
PrimaryKeyUnique ==
    \A u \in Names : \A r, q \in requests[u] : r.scope = q.scope => r = q

\* No account ever has itself as contact.  No check says so: in sendrequest
\* and forcerequest it is the second emplace, into the table the first one
\* filled, that aborts.  rmcontact, resprequest and deletereqs open two table
\* objects and are only right if those are different tables.
NoSelfContact ==
    \A u \in Names : \A r \in requests[u] : r.contact # u

\* A scope names the conversation of one pair: two accounts that hold rows
\* with one scope are each other's contact (so no third account holds it).
\* sendmsg stores under the scope, so a shared scope is a shared chat.
ScopeIsPair ==
    \A u, v \in Names : \A r \in requests[u], q \in requests[v] :
        u # v /\ r.scope = q.scope => r.contact = v /\ q.contact = u

\* Every scope in use was drawn from the pool, so available_primary_key()
\* cannot return it.
ScopesArePooled ==
    \A u \in Names : \A r \in requests[u] : r.scope \in adresses

\* An account holds at most one row per contact, so the lookup by contact
\* every action starts with is not a choice between rows.
OneRowPerContact ==
    \A u \in Names : \A r, q \in requests[u] : r.contact = q.contact => r = q

\* Every row has its counterpart: the contact holds a row with the same scope
\* that points back.  resprequest and rmcontact abort on a row without one,
\* and sendrequest refuses the pair, so such a row could not be left again.
Reciprocal ==
    \A u \in Names : \A r \in requests[u] :
        \E q \in requests[r.contact] : q.scope = r.scope /\ q.contact = u

\* A pair that nobody waits for any more has been accepted (resprequest) or
\* forced: each side has the other as a contact, or has blocked it.  It takes
\* both rows to say so: the flags of the side that was asked start as whatever
\* the memory held, and only the answer sets those of both.
AnsweredAreContacts ==
    \A u \in Names : \A r \in requests[u] : \A q \in requests[r.contact] :
        r.scope = q.scope /\ ~r.pending /\ ~q.pending => r.cntct \/ r.blocked

-----------------------------------------------------------------------------
(* Action properties.                                                      *)

\* A row that is new to a table has a scope that was never handed out, and
\* no scope goes back to the pool: the messages of a removed contact stay in
\* their scope and must not turn up in the conversation of another pair.
ScopeNeverReused ==
    [][/\ adresses \subseteq adresses'
       /\ \A u \in Names : \A r \in requests'[u] :
            ~HasScope(requests, u, r.scope) => r.scope \notin adresses]_vars

\* What an action erases outside one account's table is the other side of a
\* pair whose own side it erases too: deletereqs, rmcontact and resprequest
\* erase the other side by its scope without reading whose contact it is.
ErasesPairs ==
    [][\E u \in Names : \A w \in Names \ {u} : \A q \in requests[w] :
        ~HasScope(requests', w, q.scope) =>
            /\ q.contact = u
            /\ \E r \in requests[u] : r.scope = q.scope /\ r.contact = w
            /\ ~HasScope(requests', u, q.scope)]_vars

-----------------------------------------------------------------------------
(* What the contract's messages and preconditions say of it.               *)

\* The iterators rmcontact erases point to existing rows.
RmContactErasesExisting ==
    \A u, v \in Names : \A r \in requests[u] :
        FirstFor(u, v, r) => HasScope(requests, v, r.scope)

\* A request resprequest finds for (owner, from) is one that "from" has sent.
FoundRequestIsTheirs ==
    \A u, v \in registered : \A r \in requests[u] :
        FirstFor(u, v, r) => ~r.pending

=============================================================================
