------------------------------ MODULE IneryGui ------------------------------
(***************************************************************************)
(* The inerygui contract: the versions, templates and plugins the GUI      *)
(* offers (one "global" row), its users with what they have chosen of      *)
(* them, and per account a history and a permission for each composition.  *)
(*                                                                         *)
(* A step is one successful action; one that fails a check() is rolled     *)
(* back and is a disabled step.  Every action, whatever it is about, loads *)
(* the global state when the contract object is constructed and stores it  *)
(* when the object is destroyed.  The contract's own authority is asked of *)
(* all actions but addhistory and linkperm (the owner pays for the row),   *)
(* checkoff (the account named) and sti (nobody).  Texts and times are     *)
(* left out where no action reads them.                                    *)
(***************************************************************************)
EXTENDS Naturals, SequencesExt, FiniteSets

CONSTANTS
    Guinames,   \* the names users register under
    IdOf,       \* the first eight bytes of the hash of each name
    Passwords,
    WordLists,  \* the lists a client may pass as "twords"
    Accounts, Servers, Ids,
    Versions, FirstVersion,
    Owners, Compositions, Objects, Perms

ASSUME GuiAssumption ==
    /\ IdOf \in [Guinames -> Nat]
    /\ FirstVersion \in Versions

VARIABLES
    global,     \* the rows of the "global" table: at most one
    users,      \* the "user" table: a function on the ids of its rows
    histories,  \* the "history" rows: a function on <<owner, composition>>
    permissions \* the "permissions" rows: likewise

vars == <<global, users, histories, permissions>>

Plugin == [id : Ids, active : BOOLEAN]
UserIds == {IdOf[g] : g \in Guinames}
User == [guiname : Guinames, password : Passwords, twords : WordLists \cup {<<>>},
         accounts : Seq(Accounts), servers : Seq(Servers),
         templates : Seq(Ids), plugins : Seq(Plugin), version : Versions]
Global == [version : Versions, templates : Seq(Ids), plugins : Seq(Ids)]
HistoryTypes == {"cr", "up", "dl"}
History == [HistoryTypes -> Seq(Objects)]

\* The tables are well formed, and every row is where its name hashes to.
TypeOK ==
    /\ Cardinality(global) <= 1
    /\ \A g \in global : g \in Global
    /\ DOMAIN users \subseteq UserIds
    /\ \A i \in DOMAIN users : users[i] \in User /\ IdOf[users[i].guiname] = i
    /\ DOMAIN histories \subseteq Owners \X Compositions
    /\ \A k \in DOMAIN histories : histories[k] \in History
    /\ DOMAIN permissions \subseteq Owners \X Compositions
    /\ \A k \in DOMAIN permissions : permissions[k] \in Perms

Put(f, k, v) == [j \in DOMAIN f \cup {k} |-> IF j = k THEN v ELSE f[j]]
Members(s) == {s[i] : i \in DOMAIN s}

\* The elements of s that are in S, in their order, as std::remove leaves them:
\* SelectSeq, written as a function, which the proofs can unfold.
Kept(s, S) ==
    LET kept[i \in 0..Len(s)] ==
          IF i = 0 THEN <<>>
          ELSE kept[i - 1] \o IF s[i] \in S THEN <<s[i]>> ELSE <<>>
    IN  kept[Len(s)]
Without(s, x) == Kept(s, Members(s) \ {x})
OtherPlugins(plugins, id) == {plg \in Members(plugins) : plg.id # id}

Default == [version |-> FirstVersion, templates |-> <<>>, plugins |-> <<>>]

\* A faulty Gstate: the constructor does not ask whether the row exists.
GstateFresh == Default

\* What the constructor puts in _gstate.
Gstate == IF global = {} THEN Default ELSE CHOOSE g \in global : TRUE

\* A faulty Store: the singleton's set() does not look for its row.
StoreAnother(g) == global' = global \cup {g}

\* What the destructor does with it.
Store(g) == global' = {g}

Init ==
    /\ global = {}
    /\ users = [i \in {} |-> Default]
    /\ histories = [k \in {} |-> <<>>]
    /\ permissions = [k \in {} |-> <<>>]

-----------------------------------------------------------------------------
(* Faulty variants of the operators below, one slip each.  No action uses  *)
(* them: they show that the properties can fail.                           *)

\* A template the user has is not refused.
AddTemplateUUnchecked(guiname, id) ==
    /\ IdOf[guiname] \in DOMAIN users
    /\ users' = [users EXCEPT ![IdOf[guiname]].templates = Append(@, id)]
    /\ global' = {Gstate}
    /\ UNCHANGED <<histories, permissions>>

\* The words are not looked at before others are stored.
AddTwordsAgain(guiname, twords) ==
    /\ IdOf[guiname] \in DOMAIN users
    /\ users' = [users EXCEPT ![IdOf[guiname]].twords = twords]
    /\ global' = {Gstate}
    /\ UNCHANGED <<histories, permissions>>

\* The assignment of rmpluginu's loop is inside the condition.
AfterRemovalIfKept(plugins, id) ==
    LET kept == Kept(plugins, OtherPlugins(plugins, id))
    IN  IF kept = <<>> THEN plugins ELSE kept

-----------------------------------------------------------------------------
(* The global state.                                                       *)

ChangeGlobal(g) == Store(g) /\ UNCHANGED <<users, histories, permissions>>

AddTemplateG(id) == ChangeGlobal([Gstate EXCEPT !.templates = Append(@, id)])
AddPluginG(id) == ChangeGlobal([Gstate EXCEPT !.plugins = Append(@, id)])
UpVersionG(version) == ChangeGlobal([Gstate EXCEPT !.version = version])
RmPluginG == ChangeGlobal([Gstate EXCEPT !.plugins = <<>>])

\* sti and checkoff read and write nothing; the global row is stored again.
Sti == ChangeGlobal(Gstate)

-----------------------------------------------------------------------------
(* Users.  A user is looked up by the hash of the name alone.              *)

ChangeUsers(new) ==
    /\ users' = new
    /\ Store(Gstate)
    /\ UNCHANGED <<histories, permissions>>

HasUser(guiname) == IdOf[guiname] \in DOMAIN users
UserRow(guiname) == users[IdOf[guiname]]

Modify(guiname, row) ==
    /\ HasUser(guiname)
    /\ ChangeUsers(Put(users, IdOf[guiname], row))

WaVersion ==
    ChangeUsers([i \in DOMAIN users |-> [users[i] EXCEPT !.version = Gstate.version]])

RmUsers == ChangeUsers([i \in {} |-> Default])

AddUser(guiname, password, version) ==
    /\ ~HasUser(guiname)
    /\ ChangeUsers(Put(users, IdOf[guiname],
         [guiname |-> guiname, password |-> password, twords |-> <<>>,
          accounts |-> <<>>, servers |-> <<>>, templates |-> <<>>,
          plugins |-> <<>>, version |-> version]))

AddTwords(guiname, twords) ==
    /\ HasUser(guiname) /\ UserRow(guiname).twords = <<>>
    /\ Modify(guiname, [UserRow(guiname) EXCEPT !.twords = twords])

UpVersionU(guiname) ==
    /\ HasUser(guiname) /\ UserRow(guiname).version # Gstate.version
    /\ Modify(guiname, [UserRow(guiname) EXCEPT !.version = Gstate.version])

RecoverPsw(guiname, twords, newpassword) ==
    /\ HasUser(guiname) /\ UserRow(guiname).twords = twords
    /\ Modify(guiname, [UserRow(guiname) EXCEPT !.password = newpassword])

AddAccount(guiname, account) ==
    /\ HasUser(guiname) /\ account \notin Members(UserRow(guiname).accounts)
    /\ Modify(guiname, [UserRow(guiname) EXCEPT !.accounts = Append(@, account)])

RmAccount(guiname, account) ==
    /\ HasUser(guiname) /\ account \in Members(UserRow(guiname).accounts)
    /\ Modify(guiname, [UserRow(guiname) EXCEPT !.accounts = Without(@, account)])

AddServer(guiname, server) ==
    Modify(guiname, [UserRow(guiname) EXCEPT !.servers = Append(@, server)])

RmServer(guiname, server) ==
    /\ HasUser(guiname) /\ server \in Members(UserRow(guiname).servers)
    /\ Modify(guiname, [UserRow(guiname) EXCEPT !.servers = Without(@, server)])

AddTemplateU(guiname, id) ==
    /\ HasUser(guiname) /\ id \notin Members(UserRow(guiname).templates)
    /\ Modify(guiname, [UserRow(guiname) EXCEPT !.templates = Append(@, id)])

RmTemplateU(guiname, id) ==
    /\ HasUser(guiname) /\ id \in Members(UserRow(guiname).templates)
    /\ Modify(guiname, [UserRow(guiname) EXCEPT !.templates = Without(@, id)])

-----------------------------------------------------------------------------
(* The plugins of a user.                                                  *)

\* The first plugin with that id has that flag.
IsActive(guiname, id, active) ==
    /\ HasUser(guiname)
    /\ \E i \in DOMAIN UserRow(guiname).plugins :
        /\ UserRow(guiname).plugins[i] = [id |-> id, active |-> active]
        /\ \A j \in 1..(i - 1) : UserRow(guiname).plugins[j].id # id

\* Every plugin with that id is given the flag.
SetActive(guiname, id, active) ==
    Modify(guiname, [UserRow(guiname) EXCEPT !.plugins =
        [i \in DOMAIN @ |-> IF @[i].id = id THEN [@[i] EXCEPT !.active = active]
                            ELSE @[i]]])

TurnOnPlugin(guiname, id) ==
    IsActive(guiname, id, FALSE) /\ SetActive(guiname, id, TRUE)

TurnOfPlugin(guiname, id) ==
    IsActive(guiname, id, TRUE) /\ SetActive(guiname, id, FALSE)

AddPluginU(guiname, id) ==
    /\ HasUser(guiname)
    /\ \A plg \in Members(UserRow(guiname).plugins) : plg.id # id
    /\ Modify(guiname, [UserRow(guiname) EXCEPT
                            !.plugins = Append(@, [id |-> id, active |-> FALSE])])

\* The loop reads the vector's buffer to the end it had at the start, and each
\* turn assigns what is kept so far to the vector, which the library writes
\* over the front of the same buffer, as it is never longer.
AfterRemoval(plugins, id) ==
    LET turn[i \in 0..Len(plugins)] ==
          IF i = 0 THEN [buffer |-> plugins, temp |-> <<>>]
          ELSE LET buffer == turn[i - 1].buffer
                   temp == turn[i - 1].temp \o
                             IF buffer[i].id # id THEN <<buffer[i]>> ELSE <<>>
               IN  [buffer |-> temp \o SubSeq(buffer, Len(temp) + 1, Len(buffer)),
                    temp |-> temp]
    IN  turn[Len(plugins)].temp

RmPluginU(guiname, id) ==
    Modify(guiname, [UserRow(guiname) EXCEPT !.plugins = AfterRemoval(@, id)])

-----------------------------------------------------------------------------
(* Histories and permissions, of any account.                              *)

\* An object of no known type still makes the row.
AddHistory(owner, composition, object, type) ==
    LET key == <<owner, composition>>
        row == IF key \in DOMAIN histories THEN histories[key]
               ELSE [t \in HistoryTypes |-> <<>>]
    IN  /\ histories' = Put(histories, key,
             [t \in HistoryTypes |->
                IF t = type THEN Append(row[t], object) ELSE row[t]])
        /\ Store(Gstate)
        /\ UNCHANGED <<users, permissions>>

LinkPerm(owner, composition, perm) ==
    /\ permissions' = Put(permissions, <<owner, composition>>, perm)
    /\ Store(Gstate)
    /\ UNCHANGED <<users, histories>>

-----------------------------------------------------------------------------
UserNext(guiname) ==
    \/ \E password \in Passwords :
        \/ \E version \in Versions : AddUser(guiname, password, version)
        \/ \E twords \in WordLists : RecoverPsw(guiname, twords, password)
    \/ \E twords \in WordLists : AddTwords(guiname, twords)
    \/ UpVersionU(guiname)
    \/ \E account \in Accounts : AddAccount(guiname, account) \/ RmAccount(guiname, account)
    \/ \E server \in Servers : AddServer(guiname, server) \/ RmServer(guiname, server)
    \/ \E id \in Ids :
        \/ AddTemplateU(guiname, id) \/ RmTemplateU(guiname, id)
        \/ AddPluginU(guiname, id) \/ RmPluginU(guiname, id)
        \/ TurnOnPlugin(guiname, id) \/ TurnOfPlugin(guiname, id)

Next ==
    \/ \E id \in Ids : AddTemplateG(id) \/ AddPluginG(id)
    \/ \E version \in Versions : UpVersionG(version)
    \/ RmPluginG \/ Sti \/ WaVersion \/ RmUsers
    \/ \E guiname \in Guinames : UserNext(guiname)
    \/ \E owner \in Owners, composition \in Compositions :
        \/ \E object \in Objects, type \in HistoryTypes \cup {"other"} :
            AddHistory(owner, composition, object, type)
        \/ \E perm \in Perms : LinkPerm(owner, composition, perm)

Spec == Init /\ [][Next]_vars

-----------------------------------------------------------------------------
(* Properties.                                                             *)

\* No user has an account, a template or a plugin twice, so that removing
\* one and switching one concern one element, the one the check looked at.
NoDoubles ==
    \A i \in DOMAIN users :
        /\ IsInjective(users[i].accounts)
        /\ IsInjective(users[i].templates)
        /\ IsInjective([j \in DOMAIN users[i].plugins |-> users[i].plugins[j].id])

\* rmpluginu, which assigns to the vector it walks, would leave any user the
\* other plugins as they are, in their order, and nothing but these.
RemovalKeepsTheRest ==
    \A i \in DOMAIN users : \A id \in Ids :
        AfterRemoval(users[i].plugins, id) =
            Kept(users[i].plugins, OtherPlugins(users[i].plugins, id))

\* An action about users, histories or permissions leaves the global state as
\* it found it, though it stores it again, and no action loses a template or
\* changes what is offered and the version at once.
GlobalIsKept ==
    [][\A old \in global, new \in global' :
        /\ users' # users \/ histories' # histories \/ permissions' # permissions
             => new = old
        /\ IsPrefix(old.templates, new.templates)
        /\ IsPrefix(old.plugins, new.plugins) \/ new.plugins = <<>>
        /\ new.version # old.version =>
             new.templates = old.templates /\ new.plugins = old.plugins]_vars

\* Until all users are removed a row belongs to the name that made it, and
\* the words it can be recovered with, once set, stay: a second name with the
\* same hash does not take the row over.
UsersAreKept ==
    [][\A i \in DOMAIN users :
        \/ users' = [j \in {} |-> Default]
        \/ /\ i \in DOMAIN users'
           /\ users'[i].guiname = users[i].guiname
           /\ users[i].twords # <<>> => users'[i].twords = users[i].twords]_vars

=============================================================================
