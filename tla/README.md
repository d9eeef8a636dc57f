# The local Inery chain kit, specified

The repository is a kit that runs a local Inery blockchain: a launcher script that
starts a node and bootstraps the chain on it, a container entry point, and the
contracts that are installed, two of which (`k2ultra`, `inerygui`) and part of a
third (`inery.boot`) come with their source. This directory holds TLA+ models of
that code, TLC configurations that check them, and TLAPS proofs.

Paths below are relative to `src/`; `k2ultra.cpp` stands for
`Config/contracts/value.contracts/k2ultra/k2ultra.cpp`, and so on.

## 1. Inventory

| component | state it keeps | operations | what it talks to |
|---|---|---|---|
| **k2ultra contacts** (`k2ultra.{hpp,cpp}`) | `profiles`; per account a `requests` table (one row per contact: scope, flags `cntct favorite blocked muted pending`, alias, key); one `adresses` table, a counter of scopes | `sendrequest resprequest rmcontact blockcontact favcontact mutecontact changealias deletereqs deletereqs2 forcerequest addadr pump rraddr reguser deleteuser rrprofiles` | the table library; the scope of a pair is where its messages are stored |
| **k2ultra messages** | per scope a `messages` table with the secondary indexes `sender` and `seen` | `sendmsg pushmsg seenmsg getunseen deletemesgs` | the table library; clients read the printed answer |
| **k2ultra profiles** | `profiles` with the index `twordhash` | `reguser login getuserbyhash changersa setoffname changepsw deleteuser rrprofiles` | contacts check registration |
| **inerygui** (`inerygui.{hpp,cpp}`) | the singleton `global` (version, templates, plugins), `user`, `history`, `permissions` | about 25 actions; constructor loads, destructor stores the singleton | the table library; the launcher pushes `addpluging` |
| **table library** (`multi_index.hpp`, `singleton.hpp`) | rows and index entries in the chain's state; per table object a cache of loaded rows and of the next key | `find get emplace modify erase begin end ++ -- lower_bound upper_bound available_primary_key` | every contract |
| **inery.boot** | none of its own | `activate reqactivated onerror` | the launcher's bootstrap |
| **launcher** (`test_chain.py`) | the directories `Data/genesis` and `Data/masters`, the wallet and its password file, the node processes | `start stop restart`, with wallet handling, the bootstrap with two retry loops, masters | wallet and node binaries, chain, entry point |
| **container entry point** (`entrypoint.sh`) | none; reads directory and processes | start or hard replay, start GUI, watch | launcher, node, GUI |
| **binaries** (`Packages/inery/bin`, nodine, GUI) | chain state, wallet | - | no source in the repository |
| **system, token, msig, wrap contracts** | - | - | compiled only |
| **contract development kit** (`Packages/inery.cdt`) | - | - | vendored third-party code |

What is hard here. A contract action is atomic and actions run one after the other, so
the difficulty of the contracts is not a data race but the *long sequence of legal
calls of different accounts*: two tables of two accounts that must agree, a scope that
must not be handed out twice, flags set by one action and interpreted by another;
*table objects with private caches* over the same table; and *an index modified while
it is walked*. The launcher and the entry point are about *partial failure, retries
and restarts*: a dozen commands, few of whose results are looked at.
The list with lines is `hazards` in `PROJECT.json`.

What makes each component correct:

* contacts: a row has exactly one counterpart; a scope belongs to one pair, for ever;
  erasing touches one pair; nobody is their own contact; a pair nobody waits for any
  more has been accepted.
* messages: ids without gaps, a message only ever becomes seen, in order; the walks
  mark what they should, count what they should, and end.
* table library: what a table object answers is what the table holds, whatever other
  objects do; a fresh key is fresh.
* inerygui: the global state an action stores is the one it loaded, plus its change; a
  user has nothing twice, and removing a plugin removes that plugin only.
* profiles: an action takes effect as a whole or not at all; a hash leads to an account
  that registered with it.
* launcher and entry point: nothing is bootstrapped twice; a failure leaves undone only
  what needs the failed step; what is started ends.

## 2. Plan

| # | modules | abstract specification | runs | theorems | state |
|---|---|---|---|---|---|
| 1 | `K2Contacts`, `MCK2Contacts`, `K2ContactsProofs` | the properties are stated on the tables themselves | two passing, two that show disagreements | types, keys, scopes, reciprocity, answered requests, what an erase takes | done |
| 2 | `Conversation` (abstract), `K2Messages` (detailed), their MC modules, `ConversationProofs`, `K2MessagesProofs` | `Conversation`, implemented by `K2Messages` | two passing | ids, order, types of `Conversation`; types and walks of `K2Messages`, the refinement | done |
| 3 | `Table` (abstract), `MultiIndex` (detailed), `MCMultiIndex`, `MultiIndexProofs` | `Table`: a map from keys to values that is walked in two orders | one passing | types, cache, index, free keys, the refinement and each call's promise | done |
| 4 | `Launcher`, `Container` that composes it with node, GUI and crashes, `LauncherProofs`, `ContainerProofs` | - | retries and failures; crash and restart; one disagreement | types, files, what failures leave undone; bootstrap order across crashes | done |
| 5 | `Profiles` (abstract), `K2Profiles` (a client of `MultiIndex`), `MCK2Profiles`, `K2ProfilesProofs` | `Profiles`: each action one step | one passing | the refinement | done |
| 6 | `IneryGui`, `MCIneryGui`, `IneryGuiProofs` | - | one passing | types, no doubles, the removal loop, what is kept | done |

The order follows what would hurt most: the contract that users call first, the
scripts every chain goes through next; then the library under the contracts, and the
contract that only the GUI uses.

## 3. What is modelled

### `K2Contacts`: who is whose contact, and under which scope

One step is one successful action. A failed `check()`, an `emplace` of an existing key
and an `erase` of the end iterator abort the transaction and leave no trace: they are
disabled steps, and each of these conditions is a conjunct.

| variable | code |
|---|---|
| `registered` | owners in `profiles` (`k2ultra.hpp:76`) |
| `requests[u]` | the rows of `requests` in scope `u` (`k2ultra.hpp:36`) |
| `adresses` | keys of `adresses` (`k2ultra.hpp:28`) |

Decisions a reader should know:

* `find()` on the index `contact` returns the row with the lowest primary key among
  those with that contact (`FirstFor`); it matters once `forcerequest` has stored two.
* The other side of a pair is looked up **by scope** in the contact's table
  (`k2ultra.cpp:155,175,195,77`), never by contact. That this finds the right row is
  a theorem, not an assumption.
* The constructors leave `bool` members unset. What is stored is what the memory
  held: `Uninit` is the set of values that may be. Everything is proved for any `Uninit`;
  `contacts_scoped`, whose `AnsweredAreContacts` reads the flags, is checked with
  `Uninit = BOOLEAN`, `contacts_paired`, whose properties read none, with `{FALSE}`.
* A key string is abstracted to whether one is stored, an alias to a member of a set.
* `available_primary_key()` on `adresses` is one past the last key, up to `MaxScope`
  (2^64 - 3 in the code; a parameter here). `forcerequest` takes any 64-bit scope, the
  two values above that limit included (`Keys`).

`Next` is split in three, and three specifications follow:

* `ServiceNext`: what the service does in normal use, and what keeps both sides;
* `OneSidedNext`: `deleteuser` and `deletereqs2`, which erase one side of a pair only;
* `RescopeNext`: `rraddr` and `forcerequest`, which let a scope be used again.

`Spec` has all three, `SpecScoped` the first two, `SpecPaired` the first and third.
The properties that fail when a group is present are exactly the ones the split makes
visible: one-sided erases break reciprocity, re-used scopes break "a scope is a pair".

### `Conversation` and `K2Messages`: the messages of one scope

`Conversation` says what the two accounts may rely on, one step per action: the id a
message gets, that `seenmsg` marks the oldest unseen messages (all of them, or as many
as one call walks over), and what `getunseen` prints.

`K2Messages` is the code: `seenmsg` and `getunseen` walk the index `seen` with an
iterator. `seenmsg` modifies the key of the index it walks, so the entry it has just
handled moves behind the iterator and is met again; the model keeps the index order
(`Precedes`), the iterator (`itr`), the counters and the caps. The refinement mapping
hides a running action: `messages <- IF Idle THEN messages ELSE saved`, as the chain
does. `time`, `data` and `reply_to` are never read by the contract and left out.

### `Table` and `MultiIndex`: the object through which a contract sees a table

`Table` is what the contracts assume: rows by key, two orders to walk them in, and an
iterator that shows the row as it is stored. `MultiIndex` is the code of
`multi_index.hpp` for one object with one secondary index:

| variable | code |
|---|---|
| `rows`, `entries` | the primary table and the secondary index as the chain stores them |
| `items` | `_items_vector`, the object's copies of rows |
| `next` | `_next_primary_key`, with its two reserved values at the top of the range |
| `itr` | the client's iterator, by the key of its row |

* `find` asks the copies before the database (`:1806`), the bounds ask the database and
  prefer a copy when they load (`:789`); `modify` writes an index entry only if the
  copy's secondary key has changed (`:1731`); `erase` moves the iterator on first
  (`:1883`); `available_primary_key()` reads the table once per object (`:1352`).
* A failed `check()` or database call ends the action and is a disabled step.
* An object has its table to itself from `Open` to `Open`. Two objects over one table at
  once would break `CacheIsCurrent`; the contracts never write to a table through one
  object while they still use another over it. For `requests` that is not syntactic but
  follows from `NoSelfContact` (`K2Contacts`).
* The refinement hides copies, index and remembered key. `CallsKeepPromises` says more
  than `ImplementsTable`: not that some call of a table explains the step, but the call of
  the same name.

### `Profiles` and `K2Profiles`: the accounts

`K2Profiles` is a client of `MultiIndex` (`Tbl`): an action is begun, makes its calls one
after the other, and returns, when the chain keeps what it has written (`kept`), or fails,
when the chain restores it. `Profiles` has one step per action. `twordhash` is eight bytes
of a hash and its index is not unique: `getuserbyhash` prints the account with the lowest
name of those that have the hash. `rrprofiles` erases while it iterates; `rraddr`,
`deletemesgs`, `rmusers` and the second half of `deleteuser` are the same loop, and are
written as one set-valued step elsewhere.

### `IneryGui`: `inerygui.cpp`

| variable | code |
|---|---|
| `global` | the row of the singleton `global` (`inerygui.hpp:52`) |
| `users` | `user`, by the hash prefix of the name (`:62`, `:157`) |
| `histories`, `permissions` | the tables of the same names, by owner and composition (`:79`, `:92`) |

* The constructor loads the global row (`inerygui.cpp:12`) and the destructor stores it
  (`:16`), around every action: each action contains `Gstate` and `Store`.
* A user is found by eight bytes of the hash of the name. `IdOf` need not be injective:
  a name whose prefix is taken cannot register, and acts on the row that has it.
* `rmpluginu` assigns to the vector its loop runs over. `AfterRemoval` follows the buffer:
  the vector never grows, so the library writes into the same memory, over elements the
  loop has already read.
* `turnonplugin` looks at the first plugin with the id and sets all of them.
* Users may have templates and plugins that are no longer offered, or never were:
  nothing looks them up in the global row.

### `Launcher`: `test_chain.py`

`pc` is where a start is: in the wallet handling, the files, the node, or one of the eleven
steps of the bootstrap (`After` gives their order), from the `curl` that schedules the
preactivation feature to the plugins. One action is one command or one
group of commands without a check between them.

| variable | code |
|---|---|
| `wallet`, `fits` | the default wallet as `wallet list` shows it; whether `defWall.txt` holds its password |
| `files` | `Data/genesis`: absent, made (`:255`), with its scripts in it (`:257-265`) |
| `node`, `pid` | the node, `orphan` if its directory was removed under it; the process in `ined.pid` (`:453`) |
| `chain`, `twice` | the bootstrap steps in effect on the chain; those that took effect twice |
| `pc`, `tries` | the start; the loop counter `i` (`:274`, `:295`) |
| `stop` | a `stop` or `restart` between its kills and its removal (`:400-408`) |
| `said` | whether "Contracts initilized" has been printed by this start |

* The node, the wallet daemon and the chain are not in the repository. `Needs` says which
  earlier step the commands of a step need: the boot contract imports
  `preactivate_feature`, which the feature scheduled at `:273` brings; `activate` is an
  action of the boot contract (`inery.boot.cpp:12`); the system contract imports
  `set_proposed_masters_ex`, which one of the features brings; the later steps act for
  accounts and on contracts of the earlier ones. `Possible` adds a running node and, for
  everything that is signed, an open wallet; whether a possible command succeeds is open,
  and so is whether an answer arrives (a try may take effect and report an error).
* The answer of the `curl` is read and dropped (`:273`). The node activates the feature with
  its next block; that is part of the step's effect, and a request that is refused or
  comes to nothing is a step without effect.
* `Provided` is what the chain offers: the system contract has the actions of the boot
  contract too, and replaces it.
* The answer of the client is turned into a string with `str()` of bytes, which is never
  empty (`:277`): silence counts as an error and is tried again.
* A command that cannot be run raises: inside the bootstrap that is caught (`Abandon`),
  before it is not (`Raise`).
* A stop may come in the middle of a start; two starts at once are not modelled, nor is
  a restart in the middle of one.
* `run_masters` is commented out (`:251`), so no master is modelled.

### `Container`: `entrypoint.sh` around it

`ep` is where the script is, `gui` whether its GUI process runs. `RunLauncher` lets the
launcher's own actions happen; `Killed` may come between any two steps: processes and
the wallet daemon's list are lost (`AllDie`), directory and chain stay. `set -e` ends the
container when a command fails, while the launcher ends without an error whatever it has
achieved (`LauncherDone`), by its `except` and its `exit()`. A history variable of
`MCContainer`, `cut`, notes that the container was killed or ended by an error of the
launcher outside its `try`.

## 4. What the runs check

| run | specification and bounds | shows |
|---|---|---|
| `contacts_scoped` | `SpecScoped`, 3 accounts, 3 scopes, unset flags hold anything | types; scopes pooled, one row per contact, a scope is one pair, never reused; a pair nobody waits for any more has been accepted |
| `contacts_paired` | `SpecPaired`, 4 accounts, 2 scopes, up to two pairs | unique keys, no self-contact, every row has its counterpart, erases touch pairs, also when two pairs share a scope |
| `conversation` | 6 ids, 3 entries per call, count up to 2 | ids, monotony and order |
| `messages` | 6 ids, 4 entries per call, count up to 2, fairness | the walks implement `Conversation` and end |
| `launcher` | 2 tries, every answer to the wallet question, fairness | a start ends; stop leaves no node in what it removes, unless a start ran in between; when a start that no stop came into says it is done, what is missing has failed itself or needs something missing |
| `container` | 2 tries, no answer, fairness | nothing is bootstrapped twice, the system contract stays; a container comes up unless it is cut short or finds a directory left without its scripts |
| `multi_index` | keys 0..3, of which 2 and 3 are the reserved values, three values of which two share a secondary key | copies, index and remembered key stay right; each call keeps the promise of its name |
| `profiles` | 3 accounts, 3 word lists of which two hash alike, fairness | actions are atomic, the hash leads to the right account, walks end |
| `gui` | 3 names of which two collide, 3 ids, up to 3 elements in all lists | nothing twice, `rmpluginu` removes one plugin, the global state and the users are kept |

Bounds and why they suffice. A property of the contact graph relates at most two
accounts and their counterparts: a violation needs a third account (a scope that turns
up elsewhere), and a fourth only when two disjoint pairs share a scope; hence 3 and 4.
Scopes: a reuse needs one that is freed and one that is live, so two, and three when
two pairs of one account are compared. `contacts_paired` does not continue from states
with more than two pairs (`TwoPairs`): an erase by scope that goes wrong confuses two.
The address counter reaches its limit in every run. In the message runs the table (6) is
larger than what one call walks (3, 4), which is larger than the count at which
`getunseen` stops (2), as in the code (1000 and 100), so each loop ends for each of its reasons. The CONSTRAINTs of `MCK2Contacts` do not continue
from rows with `favorite` or `muted` set: no guard and no property reads these flags, and
the steps that set them are still taken and checked. `contacts_scoped` does not continue
from a blocked row while there is more than one pair (`OnePairOrUnblocked`): what two
accounts can say of each other, blocking included, is explored for one pair, who holds
which scope for several.
Symmetry in accounts and senders is used in runs without liveness only.

The launcher tries 20 times; with 2, each loop still ends at its first, at its last and
after its last turn, and a try that took effect unseen is followed by another. In
`MCLauncher` three history variables note that a start ran into a stop while the node was
up (`met`), that no stop has come in since the start (`alone`), and which steps of this
start had what they needed on the chain and stayed without effect all the same (`failed`):
the command was lost, the node was down or the wallet closed, or each try of a loop failed.

`multi_index`: with four keys a table has a row before, at and after an iterator, a key may
be a reserved value, and two rows share a secondary key while a third has another. `gui`
does not continue from states with more than `MaxItems` elements in all lists together:
three plugins are enough to remove the first, the middle and the last one.

No run disables deadlock checking: some action is always possible.

Fairness. In `messages`, `FairSpec`, and in `profiles`, `WF_vars(Run)`, say that the steps of
an action that has begun are taken, as the chain runs one action to its end.
In `launcher` and `container` the steps of the launcher (`Proceed`) and of the entry point are weakly fair: the operating system
lets the processes run, every command they wait for returns, and the question about the
wallet is answered. Nobody is assumed to call or start anything, and nothing to die.

### Disagreements found

Each is a run that TLC must find violated.

| run | what is said | what happens |
|---|---|---|
| `rm_existing` | `erase`: "@pre itr points to an existing element" (`multi_index.hpp:1849`) | after `deletereqs2` or `deleteuser` the other side hands `end()` to `erase` and can never remove the row |
| `own_request` | "Request not found for this combination of owner and from" (`:151`) | the request found may be the caller's own: it can accept what it has sent |
| `stops_with_node` | "Ako padne nodine, gasi se kontejner." (if nodine falls, the container shuts down, `entrypoint.sh:41`) | the loop watches the GUI (`:37`); a container without a node runs on |

Two more things a reader of the code should know, which no run states. Unblocking sets
`cntct` (`k2ultra.cpp:300`), also for a request nobody has answered, and `resprequest`
then refuses the answer with "You are already contacts" (`:159`); a row that is blocked
becomes `cntct` again when the other side accepts once more. What the flags do tell is
`AnsweredAreContacts`. And "Contracts initilized" (`test_chain.py:336`) is printed when the
last command has returned, whatever the commands have returned.

## 5. What is proved

`K2ContactsProofs`, for any accounts, any pool and any content of unset flags:

| theorem | specification | property |
|---|---|---|
| `TypeCorrect`, `KeysUnique`, `NobodyKnowsItself` | `Spec` | `TypeOK`, `PrimaryKeyUnique`, `NoSelfContact` |
| `ScopesArePairs`, `RowsAreOnePerContact`, `ScopesStayPooled`, `ScopesNeverComeBack` | `SpecScoped` | `ScopeIsPair`, `OneRowPerContact`, `ScopesArePooled`, `ScopeNeverReused` |
| `RowsComeInPairs` | `SpecPaired` | `Reciprocal` |
| `OnlyPairsAreErased` | `SpecPaired` | `ErasesPairs` |
| `AnsweredRequestsMakeContacts` | `SpecScoped` | `AnsweredAreContacts` |

The argument. Every action either changes labels of rows, or erases rows, or stores
one pair of rows under one scope; `StepShape` and `ScopedShape` prove that, and the
invariants are then shown for these shapes instead of for twenty actions.

* `KeyInv` (types, unique keys, no self-contact) is inductive for the whole contract.
  The conjuncts need each other: an accept replaces one row in each of two tables,
  which keeps keys unique only because the tables are different, and they are
  different because no account has itself as contact.
* `ScopeInv` adds `ScopesArePooled`, `OneRowPerContact`, `ScopeIsPair`. The scope of a
  new pair is one past the pool; every scope in use is in the pool; hence it is free
  in *every* table, not only in the two the action looks at. `ScopesArePooled` is the
  strengthening without which `ScopeIsPair` is not inductive.
* `PairInv` adds `Reciprocal` for the contract with re-used scopes. Here a scope may
  belong to several pairs and `ScopeIsPair` is not available; erasing by scope is
  right because keys are unique *in each table* and the counterpart has the same scope.
  `ErasesPairs` follows from it action by action.
* `AnswerInv` adds `AnsweredAreContacts` to `ScopeInv`, whatever the constructors leave in
  the unset flags. One side of a new pair is `pending` by its constructor, so somebody
  waits; only an accept ends that, and since a scope is a pair it finds the two rows of
  this pair and sets both; blocking clears `cntct` only where it sets `blocked`.

`ConversationProofs`, for any number of messages and any limits: `IdsStayDense`,
`MessagesOnlyGetSeen`, `MessagesSeenInOrder` from the invariant `IdInv` (rows are typed
and ids dense), and `TypeCorrect`, which needs in addition that the table is finite:
the answer of `getunseen` is a cardinality.

`K2MessagesProofs`, for any limits: `TypeCorrect` (`TypeOK`), `WalkMarksEveryUnseen`
(`MarksEveryUnseen`) and `WalksImplementConversation` (`ImplementsConversation`). The
invariant `Inv` says where a walk is. `SeenWalk`: the table is the saved one with the rows
read so far marked, those read are older than those left, there are as many as there were
iterations while some are left, and the iterator is at the oldest left. Marking a row
moves it in the index `seen` behind the unseen rows, so the next one is the oldest left; this is
where walking a moving index could go wrong. `UnseenWalk`: nothing has changed, and the two
counters are the cardinalities of what was passed. When a walk ends, both say what the
one step of `Conversation` has to do, and every step before is a stutter.

`LauncherProofs`, for any number of tries: `RunningNodeHasItsFiles` (`NodeHasItsFiles`) from
`FilesInv`, which adds that a running node has no stop under way unless a start met one
(`met`); and `FailuresOnlySpread` (`LacksOnlyWhatFailed`) from `ExcuseInv`: while a start is
`alone`, every step before the current one (`Before`) is in effect, has failed, or needs
something that is missing (`Accounted`). What has to be shown is that a later effect never
takes an excuse away: a step in effect is needed by none before it (`NeedsAreBefore`),
except for `boot`, which `system` brings back, and by then `features` is in effect.

`ContainerProofs`, for any number of tries: `LauncherTypeCorrect`,
`ContainerTypeCorrect`, and for the container with its crashes `NothingTwice`
(`BootstrappedOnce`) and `SystemContractStays` (`SystemStays`). `BootstrappedOnce` is not
inductive: that a step has not been done when its turn comes follows from `NotYet`, which
every new start must establish again. It can, because of `DirectoryTells`: a start is only
run without `Data/genesis`, and without it the chain is empty, since the start that makes
the directory makes it before it starts a node. `NeverStopped` completes `OrderInv`: in the
container nobody removes the directory.

`MultiIndexProofs`, for any width of the keys, any values and any secondary key:

| theorem | property |
|---|---|
| `TableTypeCorrect` | `TypeOK` |
| `CacheStaysCurrent`, `IndexStaysInStep`, `AnswerIsFree` | `CacheIsCurrent`, `IndexMatchesRows`, `NextIsFree` |
| `Implementation`, `PromisesAreKept` | `ImplementsTable`, `CallsKeepPromises` |

The invariant is `IInv`: the three properties, the types, and that the iterator is at one
row at most. `CacheIsCurrent` carries the rest: `modify` compares the secondary key of the
*copy*, so the index stays right only while copies are; and a walk that loads a copy shows
the stored row only then. With `IndexMatchesRows` the order of the entries is the order
of the rows by secondary key, so every index call goes where the abstract one goes.
`AnswerIsFree` needs that `emplace` and `modify` move the remembered key past every
row they touch while `erase` leaves it alone. The refinement is then one step per call.

`K2ProfilesProofs`, for any accounts, words and texts and whatever the words hash to:
`ActionsAreAtomic` (`ImplementsProfiles`). It instantiates `MultiIndexProofs` for the rows of
profiles and cites what is proved there of each call: that the library's invariant is kept,
and that the find by a secondary key is at the row of the least primary key. `ProfilesInv`
adds `JobInv`: until an action writes, the table is as the last one left it (so a roll-back
restores what is there, and the calls have read a state the client knows), the iterator is
where the action has looked (`Looked`; for `rrprofiles`, at the first of the rows left), and
when it ends the table is what it has promised (`Done`). Only the return is a step of
`Profiles`. That the walk of `rrprofiles` leaves no row needs that a table with rows has
a first one (`SomeIsLeast`).

`IneryGuiProofs`, for any names and ids and whatever the names hash to:

| theorem | property |
|---|---|
| `TypeCorrect`, `NothingIsDoubled` | `TypeOK`, `NoDoubles` |
| `RemovalIsRight` | `RemovalKeepsTheRest` |
| `GlobalStaysKept`, `UsersStayKept` | `GlobalIsKept`, `UsersAreKept` |

The invariant `GuiInv` is the types and the absence of doubles together, with one global row
at most: a list that has nothing twice still has nothing twice after a removal because
`std::remove` keeps a subsequence (`KeptReads`), and after an addition because the action
has looked. `RemovalIsRight` needs of it only the types: lemma `RemovalKeepsOthers` shows for any
vector, of any length, that the loop of `rmpluginu`, which assigns to the vector it walks, ends
with the others in their order. Both loops are recursive functions over the turns; what
they compute is shown by looking at the first turn that would go wrong (`AllTurns`: a set
of turns that is not empty has a least one).

Assumed: `ContactsAssumption` (there is an account), `ConversationAssumption`,
`MessagesAssumption`, `LauncherAssumption`, `MultiIndexAssumption`, `ProfilesAssumption` (for these
two there is room for the two reserved keys) and `GuiAssumption`, which only give the
parameters their types and let the limits be positive. TLC evaluates all the assumptions.

Proved for every value of the parameters, then, is every safety invariant, action property
and refinement that a passing run checks. Model-checked only is what needs fairness:
`CallsReturn`, `ActionsEnd`, `LaunchEnds` and `ComesUp`, since liveness and
ENABLED are out of the proof system's reach. The induction theorems of the library take an
operator as a parameter, which the provers cannot instantiate; induction is done through
sets without a least member instead, where a theorem needs it.

## 6. What is not modelled

* Text: messages, aliases, keys, names, times, prices of RAM. No property depends on it.
* `get`, `require_find`, `begin`, `end` and the reverse iterators of `multi_index` have no
  action: they are compositions of those that have one. A table with several secondary
  indexes keeps each of them as `MultiIndex` keeps its one. `singleton` appears as `exists`,
  `get` and `set` inside `IneryGui`; its other functions have no caller here.
* `inery.boot` has no tables: `activate` is the launcher's step "features", `reqactivated`
  and `onerror` only check, and the rest of its actions have no body.
* Authorisation beyond "the owner calls": signatures are checked by the node.
* The masters (dead code), the options of the node, the wallet's keys, ports.
* The binaries and the compiled contracts: there is no source.
* The rest of the contract development kit (`Packages/inery.cdt`): libc++, boost, wabt and
  chain headers, vendored third-party code that makes up nearly all lines of the
  repository and is not this system's own logic.
