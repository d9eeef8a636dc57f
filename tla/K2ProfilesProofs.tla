-------------------------- MODULE K2ProfilesProofs --------------------------
(***************************************************************************)
(* Proof that K2Profiles implements Profiles, for any accounts, words and  *)
(* texts, whatever the words hash to.  The calls of the table library are  *)
(* taken from the proofs about it, which are instantiated here: that they  *)
(* keep its invariant, and that its find by a secondary key is at the row  *)
(* of the least primary key.                                               *)
(***************************************************************************)
EXTENDS K2Profiles, WellFoundedInduction, TLAPS

Lib == INSTANCE MultiIndexProofs WITH
    Values <- ProfileRow, Secondary <- [v \in ProfileRow |-> v.twordhash]

-----------------------------------------------------------------------------
(* The library at work on the profiles.                                    *)

\* What the library asks of its parameters, here.
LEMMA LibAssumption ==
    /\ Top \in Nat /\ Top >= 2
    /\ [v \in ProfileRow |-> v.twordhash] \in [ProfileRow -> Int]
<1>1. \A v \in ProfileRow : v.twordhash \in Int
  <2>1. \A w \in Words : HashOf[w] \in Int
    <3>1. HashOf \in [Words -> Nat]
      BY ProfilesAssumption
    <3> QED BY <3>1
  <2>2. \A v \in ProfileRow : v.twordhash \in {HashOf[w] : w \in Words}
    BY DEF ProfileRow
  <2> QED BY <2>1, <2>2
<1> QED BY <1>1, ProfilesAssumption

\* The calls K2Profiles makes are the calls the proofs are about.
LEMMA SameCalls ==
    /\ \A k : Tbl!Find(k) <=> Lib!Find(k)
    /\ \A k : Tbl!LowerBound(k) <=> Lib!LowerBound(k)
    /\ \A s : Tbl!FindSecondary(s) <=> Lib!FindSecondary(s)
    /\ \A k, v : Tbl!Emplace(k, v) <=> Lib!Emplace(k, v)
    /\ \A v : Tbl!Modify(v) <=> Lib!Modify(v)
    /\ Tbl!Erase <=> Lib!Erase
    /\ Tbl!Open <=> Lib!Open
    /\ Tbl!Init <=> Lib!Init
<1>1. /\ \A S : Tbl!Least(S) = Lib!Least(S)
      /\ \A f, k, v : Tbl!Put(f, k, v) = Lib!Put(f, k, v)
      /\ \A f, k : Tbl!Drop(f, k) = Lib!Drop(f, k)
  BY DEF Tbl!Least, Lib!Least, Tbl!Put, Lib!Put, Tbl!Drop, Lib!Drop,
     Tbl!Promised!Least, Lib!Promised!Least, Tbl!Promised!Put, Lib!Promised!Put,
     Tbl!Promised!Drop, Lib!Promised!Drop
<1>2. /\ \A S : Tbl!Load(S) = Lib!Load(S) /\ (Tbl!MoveTo(S) <=> Lib!MoveTo(S))
      /\ \A S : Tbl!FirstEntry(S) = Lib!FirstEntry(S)
  BY DEF Tbl!Load, Lib!Load, Tbl!MoveTo, Lib!MoveTo,
     Tbl!FirstEntry, Lib!FirstEntry, Tbl!Before, Lib!Before
<1>3. \A k : Tbl!Bump(k) <=> Lib!Bump(k)
  BY DEF Tbl!Bump, Lib!Bump, Tbl!After, Lib!After, Tbl!NoAvailable, Lib!NoAvailable
<1>4. /\ \A k : Tbl!Find(k) <=> Lib!Find(k)
      /\ \A k : Tbl!LowerBound(k) <=> Lib!LowerBound(k)
  BY <1>1, <1>2 DEF Tbl!Find, Lib!Find, Tbl!LowerBound, Lib!LowerBound
<1>5. \A s : Tbl!FindSecondary(s) <=> Lib!FindSecondary(s)
  BY <1>2 DEF Tbl!FindSecondary, Lib!FindSecondary
<1>6. \A k, v : Tbl!Emplace(k, v) <=> Lib!Emplace(k, v)
  BY <1>1, <1>3 DEF Tbl!Emplace, Lib!Emplace
<1>7. \A v : Tbl!Modify(v) <=> Lib!Modify(v)
  BY <1>1, <1>3 DEF Tbl!Modify, Lib!Modify
<1>8. Tbl!Erase <=> Lib!Erase
  BY <1>1, <1>2 DEF Tbl!Erase, Lib!Erase, Tbl!Remove, Lib!Remove,
     Tbl!Following, Lib!Following
<1>9. (Tbl!Open <=> Lib!Open) /\ (Tbl!Init <=> Lib!Init)
  BY DEF Tbl!Open, Lib!Open, Tbl!Init, Lib!Init, Tbl!Unset, Lib!Unset
<1> QED BY <1>4, <1>5, <1>6, <1>7, <1>8, <1>9

\* What the library's invariant says of the profiles.
LEMMA TableIs ==
    ASSUME Lib!IInv
    PROVE  /\ DOMAIN rows \subseteq 0..Top /\ DOMAIN rows \subseteq Int
           /\ rows \in [DOMAIN rows -> ProfileRow]
           /\ itr \subseteq DOMAIN rows
           /\ \A j, k \in itr : j = k
           /\ DOMAIN items \subseteq DOMAIN rows
           /\ \A k \in DOMAIN items : items[k] = rows[k]
           /\ \A k \in itr : items[k] = rows[k]
BY LibAssumption DEF Lib!IInv, Lib!TypeOK, Lib!CacheIsCurrent, Lib!OneAtMost, Lib!Keys

LEMMA FindCall ==
    ASSUME Lib!IInv, NEW k \in 0..Top, Tbl!Find(k)
    PROVE  Lib!IInv' /\ UNCHANGED <<rows, entries>> /\ itr' = {k} \cap DOMAIN rows
<1>1. Lib!IInv'
  <2>1. k \in Lib!Keys
    BY DEF Lib!Keys
  <2>2. Lib!Find(k)
    BY SameCalls
  <2> QED BY <2>1, <2>2, LibAssumption, Lib!FindStep
<1>2. DOMAIN items \cup DOMAIN rows = DOMAIN rows
  BY TableIs
<1> QED BY <1>1, <1>2 DEF Tbl!Find, Tbl!MoveTo

LEMMA FirstCall ==
    ASSUME Lib!IInv, Tbl!LowerBound(0)
    PROVE  Lib!IInv' /\ UNCHANGED <<rows, entries>> /\ itr' = Tbl!Least(DOMAIN rows)
<1>1. 0 \in Lib!Keys
  BY LibAssumption DEF Lib!Keys
<1>2. Lib!IInv'
  BY <1>1, SameCalls, LibAssumption, Lib!BoundStep
<1>3. {j \in DOMAIN rows : j >= 0} = DOMAIN rows
  <2>1. \A j \in DOMAIN rows : j \in 0..Top
    BY TableIs
  <2>2. \A j \in 0..Top : j >= 0
    OBVIOUS
  <2> QED BY <2>1, <2>2
<1> QED BY <1>2, <1>3 DEF Tbl!LowerBound, Tbl!MoveTo

\* The owners whose words have a hash, and the first of them.
WithHash(hash) == {j \in DOMAIN rows : rows[j].twordhash = hash}

LEMMA FindHashCall ==
    ASSUME Lib!IInv, NEW hash \in Int, Tbl!FindSecondary(hash)
    PROVE  /\ Lib!IInv' /\ UNCHANGED <<rows, entries>>
           /\ itr' = Tbl!Least(WithHash(hash))
<1> DEFINE found == Tbl!Least(WithHash(hash))
<1>1. Lib!IInv' /\ Lib!Promised!FindSecondary(hash)
  BY SameCalls, LibAssumption, Lib!FindSecondaryStep
<1>2. {j \in DOMAIN rows : [v \in ProfileRow |-> v.twordhash][rows[j]] = hash}
        = WithHash(hash)
  BY TableIs DEF WithHash
<1>3. {<<k, items[k]>> : k \in itr}' = {<<k, rows[k]>> : k \in found}
  <2> DEFINE S == {j \in DOMAIN rows :
                     [v \in ProfileRow |-> v.twordhash][rows[j]] = hash}
             least == Lib!Promised!Least(S)
  <2>1. Lib!Promised!Show(least)
    BY <1>1 DEF Lib!Promised!FindSecondary
  <2>2. {<<k, items[k]>> : k \in itr}' = {<<k, rows[k]>> : k \in least}
    <3> HIDE DEF least
    <3> QED BY <2>1 DEF Lib!Promised!Show
  <2>3. least = found
    BY <1>2 DEF Lib!Promised!Least, Tbl!Least, Tbl!Promised!Least
  <2> HIDE DEF least, found
  <2> QED BY <2>2, <2>3
<1> HIDE DEF found
<1>4. itr' = found
  <2>1. ASSUME NEW k \in itr' PROVE k \in found
    <3>1. <<k, items'[k]>> \in {<<j, rows[j]>> : j \in found}
      BY <1>3
    <3> QED BY <3>1
  <2>2. ASSUME NEW k \in found PROVE k \in itr'
    <3>1. <<k, rows[k]>> \in {<<j, items'[j]>> : j \in itr'}
      BY <1>3
    <3> QED BY <3>1
  <2> QED BY <2>1, <2>2
<1> QED BY <1>1, <1>4 DEF found, Tbl!FindSecondary

LEMMA EmplaceCall ==
    ASSUME Lib!IInv, NEW k \in 0..Top, NEW v \in ProfileRow, Tbl!Emplace(k, v)
    PROVE  Lib!IInv' /\ rows' = Tbl!Put(rows, k, v)
<1>1. k \in Lib!Keys
  BY DEF Lib!Keys
<1>2. Lib!IInv'
  BY <1>1, SameCalls, LibAssumption, Lib!EmplaceStep
<1> QED BY <1>2 DEF Tbl!Emplace

LEMMA ModifyCall ==
    ASSUME Lib!IInv, NEW v \in ProfileRow, Tbl!Modify(v)
    PROVE  Lib!IInv' /\ \E k \in itr : rows' = Tbl!Put(rows, k, v)
<1>1. Lib!IInv'
  BY SameCalls, LibAssumption, Lib!ModifyStep
<1> QED BY <1>1 DEF Tbl!Modify

LEMMA EraseCall ==
    ASSUME Lib!IInv, Tbl!Erase
    PROVE  /\ Lib!IInv'
           /\ \E k \in itr : /\ rows' = Tbl!Drop(rows, k)
                             /\ itr' = Tbl!Least({j \in DOMAIN rows : j > k})
<1>1. Lib!IInv'
  BY SameCalls, LibAssumption, Lib!EraseStep
<1> QED BY <1>1 DEF Tbl!Erase, Tbl!Remove, Tbl!Following

LEMMA OpenCall ==
    ASSUME Lib!IInv, Tbl!Open
    PROVE  Lib!IInv'
BY SameCalls, LibAssumption, Lib!OpenStep

-----------------------------------------------------------------------------
(* The invariant: the table is as the last action left it until the action *)
(* under way writes, and then as that action has to leave it.              *)

Same == rows = kept[1] /\ entries = kept[2]

\* The parameters an action may have.
Parameters(j) ==
    /\ j.act \in {"reguser", "login", "deleteuser", "change", "getuserbyhash",
                  "rrprofiles"}
    /\ j.act \in {"reguser", "login", "deleteuser", "change"} => j.owner \in Owners
    /\ j.act = "reguser" =>
         \E p \in Texts.password, w \in Words, r \in Texts.rsa_pub :
            j.row = Promised!Profile(p, w, r)
    /\ j.act = "change" => j.field \in DOMAIN Texts /\ j.to \in Texts[j.field]
    /\ j.act = "getuserbyhash" => \E w \in Words : j.hash = HashOf[w]

\* The iterator is where the action has looked; rrprofiles, which is at the
\* first row left, has erased those before it.
Looked ==
    /\ job.act # "rrprofiles" => Same
    /\ job.act \in {"reguser", "login", "deleteuser", "change"} =>
         itr = {job.owner} \cap DOMAIN rows
    /\ job.act = "getuserbyhash" => itr = Tbl!Least(WithHash(job.hash))
    /\ job.act = "rrprofiles" => itr = Tbl!Least(DOMAIN rows)

\* The table is as the action promises to leave the one it found.
Done ==
    LET before == kept[1]
    IN  /\ job.act = "reguser" =>
             job.owner \notin DOMAIN before /\ rows = Tbl!Put(before, job.owner, job.row)
        /\ job.act = "login" => rows = before
        /\ job.act = "deleteuser" =>
             job.owner \in DOMAIN before /\ rows = Tbl!Drop(before, job.owner)
        /\ job.act = "change" =>
             /\ job.owner \in DOMAIN before
             /\ rows = [before EXCEPT ![job.owner][job.field] = job.to]
        /\ job.act = "getuserbyhash" =>
             rows = before /\ \E k \in Tbl!Least(WithHash(job.hash)) : itr = {k}
        /\ job.act = "rrprofiles" => DOMAIN rows = {}

JobInv ==
    \/ job = NoJob /\ stage = "end" /\ Same
    \/ /\ Parameters(job)
       /\ \/ stage = "begin" /\ Same
          \/ stage = "found" /\ Looked
          \/ stage = "end" /\ Done

ProfilesInv == Lib!IInv /\ JobInv

LEMMA JobParameters == \A j \in Jobs : Parameters(j)
<1> DEFINE
      Registrations == [act : {"reguser"}, owner : Owners,
                        row : {Promised!Profile(p, w, r) :
                                 p \in Texts.password, w \in Words, r \in Texts.rsa_pub}]
      OfOwners == [act : {"login", "deleteuser"}, owner : Owners]
      Changes(f) == [act : {"change"}, owner : Owners, field : {f}, to : Texts[f]]
      AllChanges == UNION {Changes(f) : f \in DOMAIN Texts}
      OfHashes == [act : {"getuserbyhash"}, hash : {HashOf[w] : w \in Words}]
      Walks == [act : {"rrprofiles"}]
<1>1. \A j \in Registrations : Parameters(j)
  BY DEF Parameters
<1>2. \A j \in OfOwners : Parameters(j)
  BY DEF Parameters
<1>3. \A j \in AllChanges : Parameters(j)
  <2>1. \A f \in DOMAIN Texts : \A j \in Changes(f) : Parameters(j)
    BY DEF Parameters
  <2> HIDE DEF Changes
  <2> QED BY <2>1
<1>4. \A j \in OfHashes : Parameters(j)
  BY DEF Parameters
<1>5. \A j \in Walks : Parameters(j)
  BY DEF Parameters
<1>6. Jobs = Registrations \cup OfOwners \cup AllChanges \cup OfHashes \cup Walks
  BY DEF Jobs
<1> HIDE DEF Registrations, OfOwners, AllChanges, OfHashes, Walks
<1> QED BY <1>1, <1>2, <1>3, <1>4, <1>5, <1>6

\* No action is none.
LEMMA SomeJob == ~Parameters(NoJob)
BY DEF Parameters, NoJob

-----------------------------------------------------------------------------
(* The steps of an action.                                                 *)

LEMMA InitInv == Init => ProfilesInv
<1> SUFFICES ASSUME Init PROVE ProfilesInv
  OBVIOUS
<1>1. Lib!IInv
  BY SameCalls, LibAssumption, Lib!InitInvariant DEF Init
<1>2. JobInv
  BY DEF Init, JobInv, Same
<1> QED BY <1>1, <1>2 DEF ProfilesInv

\* An action at its beginning or after it has looked is one, with parameters.
LEMMA AtWork ==
    ASSUME ProfilesInv, NEW act, NEW st, At(act, st), st # "end"
    PROVE  /\ Lib!IInv /\ Parameters(job) /\ job.act = act
           /\ st = "begin" => Same
           /\ st = "found" => Looked
BY DEF ProfilesInv, JobInv, At

\* After a look that has read nothing but the table as it was.
LEMMA LookedThen ==
    ASSUME Lib!IInv', Parameters(job), GoTo("found"), Looked'
    PROVE  ProfilesInv'
BY DEF ProfilesInv, JobInv, GoTo

LEMMA DoneThen ==
    ASSUME Lib!IInv', Parameters(job), GoTo("end"), Done'
    PROVE  ProfilesInv'
BY DEF ProfilesInv, JobInv, GoTo

LEMMA OwnersAreKeys == Owners \subseteq 0..Top
BY ProfilesAssumption

LEMMA LookUpStep ==
    ASSUME ProfilesInv, LookUp
    PROVE  ProfilesInv'
<1>1. PICK act \in {"reguser", "login", "deleteuser", "change"} : At(act, "begin")
  BY DEF LookUp
<1>2. /\ Lib!IInv /\ Parameters(job) /\ job.act = act /\ Same
      /\ job.owner \in 0..Top
  BY <1>1, AtWork, OwnersAreKeys DEF Parameters
<1>3. Lib!IInv' /\ UNCHANGED <<rows, entries>> /\ itr' = {job.owner} \cap DOMAIN rows
  BY <1>2, FindCall DEF LookUp
<1>4. Looked'
  BY <1>1, <1>2, <1>3 DEF LookUp, GoTo, Looked, Same
<1> QED BY <1>2, <1>3, <1>4, LookedThen DEF LookUp

LEMMA LookUpHashStep ==
    ASSUME ProfilesInv, LookUpHash
    PROVE  ProfilesInv'
<1>1. Lib!IInv /\ Parameters(job) /\ job.act = "getuserbyhash" /\ Same
  BY AtWork DEF LookUpHash
<1>2. job.hash \in Int
  <2>1. HashOf \in [Words -> Nat]
    BY ProfilesAssumption
  <2> QED BY <1>1, <2>1 DEF Parameters
<1>3. /\ Lib!IInv' /\ UNCHANGED <<rows, entries>>
      /\ itr' = Tbl!Least(WithHash(job.hash))
  BY <1>1, <1>2, FindHashCall DEF LookUpHash
<1>4. Looked'
  <2>1. WithHash(job.hash)' = WithHash(job.hash)
    BY <1>3 DEF WithHash, LookUpHash, GoTo
  <2> QED BY <1>1, <1>3, <2>1 DEF LookUpHash, GoTo, Looked, Same, Tbl!Least, Tbl!Promised!Least
<1> QED BY <1>1, <1>3, <1>4, LookedThen DEF LookUpHash

LEMMA BeginWalkStep ==
    ASSUME ProfilesInv, BeginWalk
    PROVE  ProfilesInv'
<1>1. Lib!IInv /\ Parameters(job) /\ job.act = "rrprofiles"
  BY AtWork DEF BeginWalk
<1>2. Lib!IInv' /\ UNCHANGED <<rows, entries>> /\ itr' = Tbl!Least(DOMAIN rows)
  BY <1>1, FirstCall DEF BeginWalk
<1>3. Looked'
  BY <1>1, <1>2 DEF BeginWalk, GoTo, Looked, Tbl!Least, Tbl!Promised!Least
<1> QED BY <1>1, <1>2, <1>3, LookedThen DEF BeginWalk

\* A table with rows has a first one.
LEMMA SomeIsLeast ==
    ASSUME NEW S \in SUBSET Nat, S # {}
    PROVE  Tbl!Least(S) # {}
<1> DEFINE Less == OpToRel(<, Nat)
<1>1. \A m, n \in Nat : <<m, n>> \in Less <=> m < n
  BY DEF OpToRel
<1>2. IsWellFoundedOn(Less, Nat)
  BY NatLessThanWellFounded
<1> HIDE DEF Less
<1>3. PICK k \in S : \A j \in S : ~ (<<j, k>> \in Less)
  BY <1>2, WFMin
<1>4. \A j \in S : k <= j
  <2> TAKE j \in S
  <2>1. ~ (<<j, k>> \in Less) /\ j \in Nat /\ k \in Nat
    BY <1>3
  <2> QED BY <1>1, <2>1
<1> QED BY <1>4 DEF Tbl!Least, Tbl!Promised!Least

LEMMA RegUserStep ==
    ASSUME ProfilesInv, RegUser
    PROVE  ProfilesInv'
<1>1. /\ Lib!IInv /\ Parameters(job) /\ job.act = "reguser" /\ Looked
      /\ itr = {} /\ Tbl!Emplace(job.owner, job.row) /\ GoTo("end")
  BY AtWork DEF RegUser
<1>2. job.owner \in 0..Top
  BY <1>1, OwnersAreKeys DEF Parameters
<1>3. job.row \in ProfileRow
  <2>1. PICK p \in Texts.password, w \in Words, r \in Texts.rsa_pub :
          job.row = Promised!Profile(p, w, r)
    BY <1>1 DEF Parameters
  <2>2. "" \in Texts.official_name /\ HashOf[w] \in {HashOf[x] : x \in Words}
    BY ProfilesAssumption
  <2>3. job.row = [password |-> p, twordhash |-> HashOf[w], rsa_pub |-> r,
                   official_name |-> ""]
    BY <2>1 DEF Promised!Profile, Promised!NoText
  <2> DEFINE hashes == {HashOf[x] : x \in Words}
  <2> HIDE DEF hashes
  <2>4. ASSUME HashOf[w] \in hashes
        PROVE  [password |-> p, twordhash |-> HashOf[w], rsa_pub |-> r,
                official_name |-> ""]
                 \in [password : Texts.password, twordhash : hashes,
                     rsa_pub : Texts.rsa_pub, official_name : Texts.official_name]
    BY <2>2, <2>4
  <2> QED BY <2>2, <2>3, <2>4 DEF ProfileRow, hashes
<1>4. Lib!IInv' /\ rows' = Tbl!Put(rows, job.owner, job.row)
  BY <1>1, <1>2, <1>3, EmplaceCall
<1>5. job.owner \notin DOMAIN rows /\ rows = kept[1]
  BY <1>1 DEF Looked, Same
<1>6. Done'
  BY <1>1, <1>4, <1>5 DEF Done, GoTo
<1> QED BY <1>1, <1>4, <1>6, DoneThen

LEMMA LoginStep ==
    ASSUME ProfilesInv, Login
    PROVE  ProfilesInv'
<1>1. /\ Lib!IInv /\ Parameters(job) /\ job.act = "login" /\ Looked
      /\ UNCHANGED table /\ GoTo("end")
  BY AtWork DEF Login
<1>2. Lib!IInv'
  BY <1>1 DEF table, Lib!IInv, Lib!TypeOK, Lib!CacheIsCurrent, Lib!IndexMatchesRows,
     Lib!NextIsFree, Lib!NoAvailable, Lib!OneAtMost
<1>3. Done'
  BY <1>1 DEF Done, GoTo, Looked, Same, table
<1> QED BY <1>1, <1>2, <1>3, DoneThen

LEMMA DeleteUserStep ==
    ASSUME ProfilesInv, DeleteUser
    PROVE  ProfilesInv'
<1>1. /\ Lib!IInv /\ Parameters(job) /\ job.act = "deleteuser" /\ Looked
      /\ Tbl!Erase /\ GoTo("end")
  BY AtWork DEF DeleteUser
<1>2. rows = kept[1] /\ itr = {job.owner} \cap DOMAIN rows
  BY <1>1 DEF Looked, Same
<1>3. Lib!IInv' /\ \E k \in itr : rows' = Tbl!Drop(rows, k)
  BY <1>1, EraseCall
<1>4. job.owner \in DOMAIN kept[1] /\ rows' = Tbl!Drop(kept[1], job.owner)
  BY <1>2, <1>3
<1>5. Done'
  BY <1>1, <1>4 DEF Done, GoTo
<1> QED BY <1>1, <1>3, <1>5, DoneThen

\* The one field of a row that changes takes a text of its kind.
LEMMA ChangedRow ==
    ASSUME NEW row \in ProfileRow, NEW field \in DOMAIN Texts, NEW to \in Texts[field]
    PROVE  [row EXCEPT ![field] = to] \in ProfileRow
<1>1. field \in {"password", "rsa_pub", "official_name"}
  BY ProfilesAssumption
<1>2. CASE field = "password"
  BY <1>2 DEF ProfileRow
<1>3. CASE field = "rsa_pub"
  BY <1>3 DEF ProfileRow
<1>4. CASE field = "official_name"
  BY <1>4 DEF ProfileRow
<1> QED BY <1>1, <1>2, <1>3, <1>4

LEMMA ChangeStep ==
    ASSUME ProfilesInv, Change
    PROVE  ProfilesInv'
<1>1. /\ Lib!IInv /\ Parameters(job) /\ job.act = "change" /\ Looked
      /\ GoTo("end")
  BY AtWork DEF Change
<1>2. rows = kept[1] /\ itr = {job.owner} \cap DOMAIN rows
  BY <1>1 DEF Looked, Same
<1> DEFINE k == job.owner
           v == [rows[k] EXCEPT ![job.field] = job.to]
<1>3. Tbl!Modify(v) /\ k \in DOMAIN rows /\ itr = {k} /\ rows[k] \in ProfileRow
  <2>1. PICK i \in itr : Tbl!Modify([items[i] EXCEPT ![job.field] = job.to])
    BY DEF Change
  <2>2. i = k /\ items[i] = rows[k] /\ k \in DOMAIN rows /\ itr = {k}
        /\ rows[k] \in ProfileRow
    BY <1>1, <1>2, <2>1, TableIs
  <2> QED BY <2>1, <2>2
<1>4. v \in ProfileRow
  BY <1>1, <1>3, ChangedRow DEF Parameters
<1>5. Lib!IInv' /\ rows' = Tbl!Put(rows, k, v)
  <2> HIDE DEF v
  <2> QED BY <1>1, <1>3, <1>4, ModifyCall
<1>6. rows' = [kept[1] EXCEPT ![job.owner][job.field] = job.to]
  <2>1. rows \in [DOMAIN rows -> ProfileRow]
    BY <1>1, TableIs
  <2> QED BY <1>2, <1>3, <1>5, <2>1 DEF Tbl!Put, Tbl!Promised!Put
<1>7. Done'
  BY <1>1, <1>2, <1>3, <1>6 DEF Done, GoTo
<1> QED BY <1>1, <1>5, <1>7, DoneThen

\* The row found by its hash is found again by its owner.
LEMMA GetUserByHashStep ==
    ASSUME ProfilesInv, GetUserByHash
    PROVE  ProfilesInv'
<1>1. /\ Lib!IInv /\ Parameters(job) /\ job.act = "getuserbyhash" /\ Looked
      /\ GoTo("end")
  BY AtWork DEF GetUserByHash
<1>2. PICK k \in itr : Tbl!Find(k)
  BY DEF GetUserByHash
<1>3. rows = kept[1] /\ k \in Tbl!Least(WithHash(job.hash))
  BY <1>1, <1>2 DEF Looked, Same
<1>4. k \in 0..Top /\ k \in DOMAIN rows
  BY <1>1, <1>2, TableIs
<1>5. Lib!IInv' /\ UNCHANGED rows /\ itr' = {k}
  BY <1>1, <1>2, <1>4, FindCall
<1>6. Done'
  <2>1. Tbl!Least(WithHash(job.hash))' = Tbl!Least(WithHash(job.hash))
    BY <1>1, <1>5 DEF WithHash, GoTo, Tbl!Least, Tbl!Promised!Least
  <2> QED BY <1>1, <1>3, <1>5, <2>1 DEF Done, GoTo
<1> QED BY <1>1, <1>5, <1>6, DoneThen

\* The walk is at the first of the rows left, as it erases the first.
LEMMA WalkStep ==
    ASSUME ProfilesInv, Walk
    PROVE  ProfilesInv'
<1>1. /\ Lib!IInv /\ Parameters(job) /\ job.act = "rrprofiles" /\ Looked
      /\ Tbl!Erase /\ GoTo("found")
  BY AtWork DEF Walk
<1>2. itr = Tbl!Least(DOMAIN rows)
  BY <1>1 DEF Looked
<1>3. Lib!IInv' /\ \E i \in itr : /\ rows' = Tbl!Drop(rows, i)
                                  /\ itr' = Tbl!Least({j \in DOMAIN rows : j > i})
  BY <1>1, EraseCall
<1>4. PICK k \in itr : /\ rows' = Tbl!Drop(rows, k)
                       /\ itr' = Tbl!Least({j \in DOMAIN rows : j > k})
  BY <1>3
<1>5. DOMAIN rows' = {j \in DOMAIN rows : j > k}
  <2>1. DOMAIN rows' = DOMAIN rows \ {k}
    BY <1>4 DEF Tbl!Drop, Tbl!Promised!Drop
  <2>2. /\ \A j \in DOMAIN rows : k <= j /\ j \in Int
        /\ k \in Int
    BY <1>1, <1>2, <1>4, TableIs DEF Tbl!Least, Tbl!Promised!Least
  <2> QED BY <2>1, <2>2
<1>6. itr' = Tbl!Least(DOMAIN rows')
  BY <1>4, <1>5
<1>7. Looked'
  BY <1>1, <1>6 DEF Looked, GoTo, Tbl!Least, Tbl!Promised!Least
<1> QED BY <1>1, <1>3, <1>7, LookedThen

LEMMA EndWalkStep ==
    ASSUME ProfilesInv, EndWalk
    PROVE  ProfilesInv'
<1>1. /\ Lib!IInv /\ Parameters(job) /\ job.act = "rrprofiles" /\ Looked
      /\ itr = {} /\ UNCHANGED table /\ GoTo("end")
  BY AtWork DEF EndWalk
<1>2. Lib!IInv'
  BY <1>1 DEF table, Lib!IInv, Lib!TypeOK, Lib!CacheIsCurrent, Lib!IndexMatchesRows,
     Lib!NextIsFree, Lib!NoAvailable, Lib!OneAtMost
<1>3. DOMAIN rows = {}
  <2>1. Tbl!Least(DOMAIN rows) = {}
    BY <1>1 DEF Looked
  <2>2. DOMAIN rows \in SUBSET Nat
    BY <1>1, TableIs, LibAssumption
  <2> QED BY <2>1, <2>2, SomeIsLeast
<1>4. Done'
  BY <1>1, <1>3 DEF Done, GoTo, table
<1> QED BY <1>1, <1>2, <1>4, DoneThen

LEMMA BeginStep ==
    ASSUME ProfilesInv, NEW j \in Jobs, Begin(j)
    PROVE  ProfilesInv'
<1>1. Lib!IInv'
  BY DEF ProfilesInv, Begin, Lib!IInv, Lib!TypeOK, Lib!CacheIsCurrent,
     Lib!IndexMatchesRows, Lib!NextIsFree, Lib!NoAvailable, Lib!OneAtMost
<1>2. Same
  BY SomeJob DEF ProfilesInv, JobInv, Begin
<1>3. Parameters(job)' /\ Same'
  BY <1>2, JobParameters DEF Begin, Same, Parameters
<1> QED BY <1>1, <1>3 DEF ProfilesInv, JobInv, Begin

\* What an action has left is the table the next one finds.
LEMMA ReturnStep ==
    ASSUME ProfilesInv, Return
    PROVE  ProfilesInv' /\ Done /\ Parameters(job)
<1>1. Lib!IInv'
  BY OpenCall DEF ProfilesInv, Return
<1>2. UNCHANGED <<rows, entries>>
  BY DEF Return, Tbl!Open
<1>3. JobInv'
  BY <1>2 DEF Return, JobInv, Same
<1>4. Done /\ Parameters(job)
  BY DEF ProfilesInv, JobInv, Return
<1> QED BY <1>1, <1>3, <1>4 DEF ProfilesInv

\* An action fails before it writes: what is put back is there still.
LEMMA FailStep ==
    ASSUME ProfilesInv, Fail
    PROVE  ProfilesInv'
<1>1. Lib!IInv /\ Same
  BY DEF ProfilesInv, JobInv, Looked, Fail
<1>2. Tbl!Open
  BY <1>1 DEF Fail, Same, Tbl!Open
<1>3. Lib!IInv'
  BY <1>1, <1>2, OpenCall
<1>4. JobInv'
  BY DEF Fail, JobInv, Same
<1> QED BY <1>3, <1>4 DEF ProfilesInv

-----------------------------------------------------------------------------
LEMMA StepKeeps == ProfilesInv /\ [Next]_vars => ProfilesInv'
<1> SUFFICES ASSUME ProfilesInv, [Next]_vars PROVE ProfilesInv'
  OBVIOUS
<1>1. CASE Run
  BY <1>1, LookUpStep, LookUpHashStep, BeginWalkStep, RegUserStep, LoginStep,
     DeleteUserStep, ChangeStep, GetUserByHashStep, WalkStep, EndWalkStep,
     ReturnStep, FailStep DEF Run
<1>2. CASE \E j \in Jobs : Begin(j)
  BY <1>2, BeginStep
<1>3. CASE UNCHANGED vars
  <2>1. Lib!IInv'
    BY <1>3 DEF ProfilesInv, vars, Lib!IInv, Lib!TypeOK, Lib!CacheIsCurrent,
       Lib!IndexMatchesRows, Lib!NextIsFree, Lib!NoAvailable, Lib!OneAtMost
  <2>2. JobInv'
    BY <1>3 DEF ProfilesInv, vars, JobInv, Same, Parameters, Looked, Done, WithHash,
       Tbl!Least, Tbl!Promised!Least, Tbl!Put, Tbl!Promised!Put, Tbl!Drop,
       Tbl!Promised!Drop
  <2> QED BY <2>1, <2>2 DEF ProfilesInv
<1> QED BY <1>1, <1>2, <1>3 DEF Next

-----------------------------------------------------------------------------
(* The refinement: an action takes effect where it returns.                *)

LEMMA InitRefines == Init => Promised!Init
BY DEF Init, Tbl!Init, Promised!Init, Promised!NoText

\* To a client the steps before the return are none.
LEMMA OthersStutter ==
    ASSUME [Next]_vars
    PROVE  Return \/ UNCHANGED <<kept[1], printed>>
<1>1. CASE Run
  BY <1>1 DEF Run, LookUp, LookUpHash, BeginWalk, RegUser, Login, DeleteUser, Change,
     GetUserByHash, Walk, EndWalk, Fail, GoTo
<1>2. CASE \E j \in Jobs : Begin(j)
  BY <1>2 DEF Begin
<1>3. CASE UNCHANGED vars
  BY <1>3 DEF vars
<1> QED BY <1>1, <1>2, <1>3 DEF Next

\* A return is the promised action of that name; login's is none.
LEMMA ReturnRefines ==
    ASSUME ProfilesInv, Return
    PROVE  Promised!Next \/ UNCHANGED <<kept[1], printed>>
<1>1. /\ Done /\ Parameters(job) /\ rows' = rows /\ kept'[1] = rows
      /\ printed' = IF job.act = "getuserbyhash"
                    THEN {<<job.hash, k>> : k \in itr} ELSE printed
  BY ReturnStep DEF Return, Tbl!Open
<1>2. CASE job.act = "reguser"
  <2>1. PICK p \in Texts.password, w \in Words, r \in Texts.rsa_pub :
          job.row = Promised!Profile(p, w, r)
    BY <1>1, <1>2 DEF Parameters
  <2>2. Promised!RegUser(job.owner, job.row)
    BY <1>1, <1>2 DEF Done, Promised!RegUser, Promised!Registered, Tbl!Put,
       Tbl!Promised!Put
  <2>3. job.owner \in Owners
    BY <1>1, <1>2 DEF Parameters
  <2> QED BY <2>1, <2>2, <2>3 DEF Promised!Next
<1>3. CASE job.act = "login"
  BY <1>1, <1>3 DEF Done
<1>4. CASE job.act = "deleteuser"
  <2>1. Promised!DeleteUser(job.owner)
    BY <1>1, <1>4 DEF Done, Promised!DeleteUser, Promised!Registered, Tbl!Drop,
       Tbl!Promised!Drop
  <2> QED BY <1>1, <1>4, <2>1 DEF Parameters, Promised!Next
<1>5. CASE job.act = "change"
  <2>1. Promised!Change(job.owner, job.field, job.to)
    BY <1>1, <1>5 DEF Done, Promised!Change, Promised!Registered
  <2>2. job.owner \in Owners /\ job.field \in DOMAIN Texts /\ job.to \in Texts[job.field]
    BY <1>1, <1>5 DEF Parameters
  <2> QED BY <2>1, <2>2 DEF Promised!Next
<1>6. CASE job.act = "getuserbyhash"
  <2>1. PICK owner \in Tbl!Least(WithHash(job.hash)) : itr = {owner}
    BY <1>1, <1>6 DEF Done
  <2>2. printed' = {<<job.hash, owner>>}
    BY <1>1, <1>6, <2>1
  <2>3. rows = kept[1]
    BY <1>1, <1>6 DEF Done
  <2>4. Promised!GetUserByHash(job.hash)
    BY <1>1, <2>1, <2>2, <2>3 DEF Promised!GetUserByHash, Promised!Registered, WithHash,
       Tbl!Least, Tbl!Promised!Least
  <2>5. PICK w \in Words : job.hash = HashOf[w]
    BY <1>1, <1>6 DEF Parameters
  <2> QED BY <2>4, <2>5 DEF Promised!Next
<1>7. CASE job.act = "rrprofiles"
  <2>1. rows = [o \in {} |-> Promised!NoText]
    <3>1. DOMAIN rows = {} /\ rows \in [DOMAIN rows -> ProfileRow]
      BY <1>1, <1>7, TableIs DEF Done, ProfilesInv
    <3> QED BY <3>1
  <2>2. Promised!RrProfiles
    BY <1>1, <1>7, <2>1 DEF Promised!RrProfiles
  <2> QED BY <2>2 DEF Promised!Next
<1> QED BY <1>1, <1>2, <1>3, <1>4, <1>5, <1>6, <1>7 DEF Parameters

-----------------------------------------------------------------------------
\* A client of the profile actions sees each take effect at once and as a
\* whole, whatever the accounts, the words and what the words hash to: the
\* walk of rrprofiles leaves no row, and getuserbyhash prints the first of
\* the accounts that registered with the hash.
THEOREM ActionsAreAtomic == Spec => ImplementsProfiles
<1>1. Init => ProfilesInv /\ Promised!Init
  BY InitInv, InitRefines
<1>2. ProfilesInv /\ [Next]_vars => ProfilesInv'
  BY StepKeeps
<1>3. ProfilesInv /\ [Next]_vars => [Promised!Next]_<<kept[1], printed>>
  BY OthersStutter, ReturnRefines
<1> QED BY <1>1, <1>2, <1>3, PTL DEF Spec, ImplementsProfiles, Promised!Spec

=============================================================================
