------------------------------ MODULE Profiles ------------------------------
(***************************************************************************)
(* What k2ultra promises of its accounts' profiles: each action is one     *)
(* step that takes effect as a whole, and words lead to an account that    *)
(* registered with them.  K2Profiles implements it on the table library.   *)
(***************************************************************************)
EXTENDS Integers

CONSTANTS
    Owners,     \* the accounts, by the number their name is stored as
    Words,      \* what a client may pass as "twordhash"
    HashOf,     \* the number string_to_uint64 makes of it
    Texts       \* what the "password", "rsa_pub" and "official_name" may be

NoText == ""    \* the official name of a new row

VARIABLES
    profiles,   \* the "profiles" table: a function on the registered owners
    printed     \* {<<hash, owner>>}: whom getuserbyhash printed last for what

Registered == DOMAIN profiles

Profile(password, words, rsa_pub) ==
    [password |-> password, twordhash |-> HashOf[words], rsa_pub |-> rsa_pub,
     official_name |-> NoText]

Init == profiles = [o \in {} |-> NoText] /\ printed = {}

RegUser(owner, row) ==
    /\ owner \notin Registered
    /\ profiles' = [o \in Registered \cup {owner} |->
                        IF o = owner THEN row ELSE profiles[o]]
    /\ UNCHANGED printed

DeleteUser(owner) ==
    /\ owner \in Registered
    /\ profiles' = [o \in Registered \ {owner} |-> profiles[o]]
    /\ UNCHANGED printed

RrProfiles == profiles' = [o \in {} |-> NoText] /\ UNCHANGED printed

\* changersa, setoffname, changepsw
Change(owner, field, to) ==
    /\ owner \in Registered
    /\ profiles' = [profiles EXCEPT ![owner][field] = to]
    /\ UNCHANGED printed

\* Of the accounts whose words have that number the one of the lowest name;
\* nothing says that no two accounts have it.
GetUserByHash(hash) ==
    /\ \E owner \in Registered :
        /\ profiles[owner].twordhash = hash
        /\ \A o \in Registered : profiles[o].twordhash = hash => owner <= o
        /\ printed' = {<<hash, owner>>}
    /\ UNCHANGED profiles

Next ==
    \/ \E owner \in Owners :
        \/ \E p \in Texts.password, words \in Words, r \in Texts.rsa_pub :
            RegUser(owner, Profile(p, words, r))
        \/ DeleteUser(owner)
        \/ \E field \in DOMAIN Texts : \E to \in Texts[field] :
            Change(owner, field, to)
    \/ \E words \in Words : GetUserByHash(HashOf[words])
    \/ RrProfiles

Spec == Init /\ [][Next]_<<profiles, printed>>

=============================================================================
