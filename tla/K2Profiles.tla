----------------------------- MODULE K2Profiles -----------------------------
(***************************************************************************)
(* The profile actions of k2ultra as the calls of multi_index they consist *)
(* of.  The contract object, and with it the table object, is constructed  *)
(* for each action; the chain runs one action at a time to its end, and    *)
(* then keeps all it has written or, if a check fails, nothing.  login is  *)
(* a find and a check.  What deleteuser erases beside the profile is in    *)
(* K2Contacts.                                                             *)
(***************************************************************************)
EXTENDS Integers

CONSTANTS
    Top,        \* the largest uint64_t
    Owners,     \* the accounts, by the number their name is stored as
    Words,      \* what a client may pass as "twordhash"
    HashOf,     \* the number string_to_uint64 makes of it
    Texts       \* what the "password", "rsa_pub" and "official_name" may be

ASSUME ProfilesAssumption ==
    /\ Top \in Nat /\ Top >= 2
    /\ Owners \subseteq 0..Top
    /\ HashOf \in [Words -> Nat]
    /\ DOMAIN Texts = {"password", "rsa_pub", "official_name"}
    /\ "" \in Texts.official_name

VARIABLES
    rows, entries, items, next, itr,    \* the table and its object
    job,        \* the action under way, with its parameters
    stage,      \* "begin", "found" or "end": how far it is
    kept,       \* the table as the last action left it: <<rows, entries>>
    printed     \* {<<hash, owner>>}: whom getuserbyhash printed last for what

table == <<rows, entries, items, next, itr>>
vars == <<rows, entries, items, next, itr, job, stage, kept, printed>>

ProfileRow == [password : Texts.password, twordhash : {HashOf[w] : w \in Words},
               rsa_pub : Texts.rsa_pub, official_name : Texts.official_name]

Tbl == INSTANCE MultiIndex WITH
    Values <- ProfileRow, Secondary <- [v \in ProfileRow |-> v.twordhash]

\* The actions as their clients see them.
Promised == INSTANCE Profiles WITH profiles <- kept[1]

Jobs ==
    [act : {"reguser"}, owner : Owners,
     row : {Promised!Profile(p, w, r) :
                p \in Texts.password, w \in Words, r \in Texts.rsa_pub}]
    \cup [act : {"login", "deleteuser"}, owner : Owners]
    \cup (UNION {[act : {"change"}, owner : Owners, field : {f}, to : Texts[f]] :
                    f \in DOMAIN Texts})
    \cup [act : {"getuserbyhash"}, hash : {HashOf[w] : w \in Words}]
    \cup [act : {"rrprofiles"}]
NoJob == [act |-> "none"]

Init ==
    /\ Tbl!Init
    /\ job = NoJob
    /\ stage = "end"
    /\ kept = <<rows, entries>>
    /\ printed = {}

-----------------------------------------------------------------------------
Begin(j) ==
    /\ job = NoJob
    /\ job' = j
    /\ stage' = "begin"
    /\ UNCHANGED <<rows, entries, items, next, itr, kept, printed>>

At(act, st) == job.act = act /\ stage = st
GoTo(st) == stage' = st /\ UNCHANGED <<job, kept, printed>>

LookUp ==
    /\ \E act \in {"reguser", "login", "deleteuser", "change"} : At(act, "begin")
    /\ Tbl!Find(job.owner)
    /\ GoTo("found")

\* A faulty LookUpHash: the first account not below the hash will do.
LookUpHashAbove ==
    /\ At("getuserbyhash", "begin")
    /\ Tbl!LowerSecondary(job.hash)
    /\ GoTo("found")

LookUpHash ==
    /\ At("getuserbyhash", "begin")
    /\ Tbl!FindSecondary(job.hash)
    /\ GoTo("found")

BeginWalk ==
    /\ At("rrprofiles", "begin")
    /\ Tbl!LowerBound(0)
    /\ GoTo("found")

RegUser ==
    /\ At("reguser", "found") /\ itr = {}
    /\ Tbl!Emplace(job.owner, job.row)
    /\ GoTo("end")

Login ==
    /\ At("login", "found") /\ itr # {}
    /\ UNCHANGED table
    /\ GoTo("end")

DeleteUser ==
    /\ At("deleteuser", "found")
    /\ Tbl!Erase
    /\ GoTo("end")

\* changersa, setoffname, changepsw
Change ==
    /\ At("change", "found")
    /\ \E k \in itr : Tbl!Modify([items[k] EXCEPT ![job.field] = job.to])
    /\ GoTo("end")

\* The row found through the index is got again by its owner.
GetUserByHash ==
    /\ At("getuserbyhash", "found")
    /\ \E k \in itr : Tbl!Find(k)
    /\ GoTo("end")

\* A faulty Walk: the row is emptied instead of erased.
WalkEmpties ==
    /\ At("rrprofiles", "found")
    /\ \E k \in itr : Tbl!Modify([items[k] EXCEPT !.official_name = ""])
    /\ GoTo("found")

Walk ==
    /\ At("rrprofiles", "found")
    /\ Tbl!Erase
    /\ GoTo("found")

EndWalk ==
    /\ At("rrprofiles", "found") /\ itr = {}
    /\ UNCHANGED table
    /\ GoTo("end")

\* The chain keeps what the action has written; the next has a new object ...
Return ==
    /\ job # NoJob /\ stage = "end"
    /\ job' = NoJob
    /\ kept' = <<rows, entries>>
    /\ printed' = IF job.act = "getuserbyhash"
                  THEN {<<job.hash, k>> : k \in itr} ELSE printed
    /\ Tbl!Open
    /\ UNCHANGED stage

\* ... or nothing, if the row looked for is missing or in the way.
Fail ==
    /\ stage = "found"
    /\ job.act # "rrprofiles"
    /\ (job.act = "reguser") = (itr # {})
    /\ job' = NoJob
    /\ rows' = kept[1] /\ entries' = kept[2]
    /\ items' = [k \in {} |-> 0] /\ next' = Tbl!Unset /\ itr' = {}
    /\ stage' = "end"
    /\ UNCHANGED <<kept, printed>>

Run ==
    \/ LookUp \/ LookUpHash \/ BeginWalk
    \/ RegUser \/ Login \/ DeleteUser \/ Change \/ GetUserByHash
    \/ Walk \/ EndWalk
    \/ Return \/ Fail

Next == Run \/ \E j \in Jobs : Begin(j)

\* An action that has begun is run on; none has to be begun.
Spec == Init /\ [][Next]_vars /\ WF_vars(Run)

-----------------------------------------------------------------------------
\* Seen from outside, each action takes effect at once and as a whole: the
\* walk of rrprofiles, which erases while it iterates, leaves no row, and
\* getuserbyhash, which reads an index that is not unique, prints the first
\* of the accounts that have the hash, never one that has another.
ImplementsProfiles == Promised!Spec

\* Every action ends: the walk comes to the end of a table it empties.
ActionsEnd == job # NoJob ~> job = NoJob

=============================================================================
