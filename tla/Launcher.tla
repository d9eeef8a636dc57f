------------------------------- MODULE Launcher -------------------------------
(***************************************************************************)
(* test_chain.py: the wallet, the start of the node, the bootstrap of the  *)
(* chain on it with its two retry loops, and stop, restart and stop.sh,    *)
(* which may be called while a start runs.                                 *)
(* The node, the wallet daemon and the chain they keep are not in the      *)
(* repository; they are what the script's commands assume of them.         *)
(* run_masters is commented out, so no master runs.                        *)
(***************************************************************************)
EXTENDS Naturals

CONSTANTS
    MaxTries,   \* how often the two loops try, 20
    Answers     \* what "Want to restart wallet?" may be answered

ASSUME LauncherAssumption ==
    /\ MaxTries \in Nat \ {0}
    /\ Answers \subseteq BOOLEAN

VARIABLES
    wallet,     \* the default wallet as the daemon lists it
    fits,       \* defWall.txt holds the password of the wallet
    files,      \* Data/genesis: absent, made, or with all scripts in it
    node,       \* the node: down, up, or up with its directory removed
    pid,        \* the process ined.pid names
    chain,      \* the bootstrap steps that are in effect on the chain
    twice,      \* those that took effect more than once
    pc,         \* where the launcher is
    tries,      \* the loop counter i
    stop,       \* the stop or restart that has killed, and not yet removed
    said        \* what the start has printed of its outcome

lvars == <<wallet, fits, files, node, pid, chain, twice, pc, tries, stop, said>>

Initialised == "Contracts initilized"

\* A faulty After: the supply is issued before the token contract is set.
AfterSwapped ==
    [schedule |-> "boot",     boot     |-> "accounts", accounts |-> "features",
     features |-> "system",   system   |-> "supply",   supply   |-> "token",
     token    |-> "init",     init     |-> "gui",      gui      |-> "k2ultra",
     k2ultra  |-> "plugins",  plugins  |-> "idle"]

\* The order of the bootstrap.
After ==
    [schedule |-> "boot",     boot     |-> "accounts", accounts |-> "features",
     features |-> "system",   system   |-> "token",    token    |-> "supply",
     supply   |-> "init",     init     |-> "gui",      gui      |-> "k2ultra",
     k2ultra  |-> "plugins",  plugins  |-> "idle"]

Steps == DOMAIN After
Loops == {"boot", "system"}     \* the steps that are tried again
Repeatable == {"supply", "plugins"}     \* issue, transfer, addpluging

TypeOK ==
    /\ wallet \in {"none", "locked", "open"}
    /\ fits \in BOOLEAN
    /\ files \in {"none", "dir", "scripts"}
    /\ node \in {"down", "up", "orphan"}
    /\ pid \in {"none", "node", "dead"}
    /\ chain \subseteq Steps
    /\ twice \subseteq Repeatable
    /\ pc \in {"idle", "wallet", "ask", "mkdir", "scripts", "node"} \cup Steps
    /\ tries \in 0..MaxTries
    /\ stop \in {"idle", "stop", "restart"}
    /\ said \in {"nothing", Initialised}

\* A fresh checkout: defWall.txt is shipped, the wallet daemon may have one.
Init ==
    /\ wallet \in {"none", "locked", "open"}
    /\ fits \in BOOLEAN
    /\ files = "none"
    /\ node = "down"
    /\ pid = "none"
    /\ chain = {}
    /\ twice = {}
    /\ pc = "idle"
    /\ tries = 0
    /\ stop = "idle"
    /\ said = "nothing"

-----------------------------------------------------------------------------
(* The node and the chain.                                                 *)

\* What the commands of a step need on the chain: "boot" imports
\* preactivate_feature, which the activation that "schedule" asks the node for
\* brings; "features" pushes an action of "boot"; "system" imports
\* set_proposed_masters_ex, which one of the features brings; the later ones
\* act for accounts and on contracts of the earlier ones.
Needs ==
    [schedule |-> {},                   boot    |-> {"schedule"},
     accounts |-> {},                   features |-> {"boot"},
     system   |-> {"features"},         token   |-> {"accounts"},
     supply   |-> {"token"},            init    |-> {"system", "supply"},
     gui      |-> {"accounts"},         k2ultra |-> {"accounts"},
     plugins  |-> {"gui"}]

\* What the chain offers: the system contract has the actions of "boot" too.
Provided == IF "system" \in chain THEN chain \cup {"boot"} ELSE chain

\* Whether the commands of a step can be executed.  curl signs nothing.
Possible(step) ==
    /\ node # "down"
    /\ step # "schedule" => wallet = "open"
    /\ Needs[step] \subseteq Provided

\* The step takes effect.  One account holds the boot contract or the system
\* contract, not both.
Effect(step) ==
    /\ Possible(step)
    /\ chain' = (IF step \in Loops THEN chain \ Loops ELSE chain) \cup {step}
    /\ twice' = twice \cup ({step} \cap chain \cap Repeatable)

NoEffect == UNCHANGED <<chain, twice>>

\* The process that ined.pid names is gone if it was the node.
Named(p) == IF p = "node" THEN "dead" ELSE p

\* The node stops; the chain of an orphan goes with it.
NodeDown ==
    /\ node' = "down"
    /\ chain' = IF node = "orphan" THEN {} ELSE chain
    /\ twice' = IF node = "orphan" THEN {} ELSE twice

-----------------------------------------------------------------------------
(* Faulty variants of the operators below, one slip each, used by no       *)
(* action: they show that the properties can fail.                         *)

\* The emptiness of stderr is tested before it is turned into a string, so
\* a client that ends without a word ends the loop.
TrySilentEnds ==
    /\ pc \in Loops
    /\ tries < MaxTries
    /\ \/ Effect(pc) /\ pc' = After[pc] /\ tries' = 0
       \/ NoEffect /\ pc' = After[pc] /\ tries' = 0
       \/ NoEffect /\ tries' = tries + 1 /\ UNCHANGED pc
    /\ UNCHANGED <<wallet, fits, files, node, pid, stop, said>>

\* The counter is not looked at.
TryUnbounded ==
    /\ pc \in Loops
    /\ \/ Effect(pc) /\ pc' = After[pc] /\ tries' = 0
       \/ NoEffect /\ tries' = tries + 1 /\ UNCHANGED pc
    /\ UNCHANGED <<wallet, fits, files, node, pid, stop, said>>

\* After the last turn the counter is set back and the loop goes on.
GiveUpNever ==
    /\ pc \in Loops
    /\ tries = MaxTries
    /\ tries' = 0
    /\ UNCHANGED <<wallet, fits, files, node, pid, chain, twice, pc, stop, said>>

\* stop kills the process in the pid file instead of those pidof finds.
StopKillNamed(then) ==
    /\ stop = "idle"
    /\ pc = "idle" \/ then = "stop"
    /\ IF pid = "node" THEN NodeDown ELSE UNCHANGED <<node, chain, twice>>
    /\ pid' = Named(pid)
    /\ stop' = then
    /\ UNCHANGED <<wallet, fits, files, pc, tries, said>>

-----------------------------------------------------------------------------
(* start: the wallet.                                                      *)

StartLauncher == pc' = "wallet" /\ tries' = 0 /\ said' = "nothing"

Start ==
    /\ pc = "idle"
    /\ stop # "restart"
    /\ StartLauncher
    /\ UNCHANGED <<wallet, fits, files, node, pid, chain, twice, stop>>

\* The old wallet's file is removed first.  The client may fail, before or
\* after it has emptied defWall.txt; whether it did is not looked at.
CreateWallet ==
    \/ wallet' = "open" /\ fits' = TRUE
    \/ wallet' \in {wallet, "none"} /\ fits' \in {fits, FALSE}

\* An unlocked wallet is listed as "default" and "*" after the split, and the
\* daemon answers the unlock with "Already unlocked".  An unlock may time out,
\* the list may be unreadable.
CheckWallet ==
    /\ pc = "wallet"
    /\ \/ wallet = "none" /\ CreateWallet /\ pc' = "mkdir"
       \/ wallet = "locked" /\ fits /\ wallet' = "open" /\ pc' = "mkdir" /\ UNCHANGED fits
       \/ wallet = "locked" /\ ~fits /\ pc' = "ask" /\ UNCHANGED <<wallet, fits>>
       \/ pc' = "mkdir" /\ UNCHANGED <<wallet, fits>>
    /\ UNCHANGED <<files, node, pid, chain, twice, tries, stop, said>>

AskRestart ==
    /\ pc = "ask"
    /\ \E yes \in Answers :
        IF yes THEN CreateWallet ELSE UNCHANGED <<wallet, fits>>
    /\ pc' = "mkdir"
    /\ UNCHANGED <<files, node, pid, chain, twice, tries, stop, said>>

-----------------------------------------------------------------------------
(* start: the node.                                                        *)

MakeDir ==
    /\ pc = "mkdir"
    /\ files' = IF files = "none" THEN "dir" ELSE files
    /\ pc' = "scripts"
    /\ UNCHANGED <<wallet, fits, node, pid, chain, twice, tries, stop, said>>

\* Writing into a directory that is gone ends the launcher.
WriteScripts ==
    /\ pc = "scripts"
    /\ files' = IF files = "none" THEN "none" ELSE "scripts"
    /\ pc' = IF files = "none" THEN "idle" ELSE "node"
    /\ UNCHANGED <<wallet, fits, node, pid, chain, twice, tries, stop, said>>

\* genesis_start.sh runs a node and writes down its process.  A second node
\* finds the directory, or at least the ports, in use and ends.
RunNode ==
    \/ node = "down" /\ node' = "up" /\ pid' = "node"
    \/ pid' = "dead" /\ UNCHANGED node

\* Without the script chmod raises, or the shell fails and nobody looks.
StartNode ==
    /\ pc = "node"
    /\ \/ files = "scripts" /\ RunNode /\ pc' = "schedule"
       \/ files # "scripts" /\ pc' \in {"idle", "schedule"} /\ UNCHANGED <<node, pid>>
    /\ tries' = 0
    /\ UNCHANGED <<wallet, fits, files, chain, twice, stop, said>>

-----------------------------------------------------------------------------
(* start: the bootstrap.                                                   *)

\* A step whose outcome is not looked at.
RunStep ==
    /\ pc \in Steps \ Loops
    /\ Effect(pc) \/ NoEffect
    /\ pc' = After[pc]
    /\ said' = IF pc' = "idle" THEN Initialised ELSE said
    /\ UNCHANGED <<wallet, fits, files, node, pid, tries, stop>>

\* One turn of a loop.  It ends at an answer that the contract was set, now
\* or before.  Any other answer is an error, an empty one too (str() of the
\* bytes is not empty), whether or not the contract was set.
TryStep ==
    /\ pc \in Loops
    /\ tries < MaxTries
    /\ \/ Effect(pc) /\ pc' = After[pc] /\ tries' = 0
       \/ Effect(pc) /\ tries' = tries + 1 /\ UNCHANGED pc
       \/ NoEffect /\ tries' = tries + 1 /\ UNCHANGED pc
    /\ UNCHANGED <<wallet, fits, files, node, pid, stop, said>>

\* The loop is left after its last turn, and the bootstrap goes on.
GiveUp ==
    /\ pc \in Loops
    /\ tries = MaxTries
    /\ pc' = After[pc]
    /\ tries' = 0
    /\ UNCHANGED <<wallet, fits, files, node, pid, chain, twice, stop, said>>

EndAt(places) ==
    /\ pc \in places
    /\ pc' = "idle"
    /\ tries' = 0
    /\ UNCHANGED <<wallet, fits, files, node, pid, chain, twice, stop, said>>

\* A command that cannot be run at all raises.  During the bootstrap that is
\* caught, and the launcher ends.
Abandon == EndAt(Steps)

\* Before, it is not, nor is an error of the file system: the launcher ends
\* with an error.
Raise == EndAt({"wallet", "mkdir", "scripts", "node"})

Proceed ==
    CheckWallet \/ AskRestart \/ MakeDir \/ WriteScripts \/ StartNode
        \/ RunStep \/ TryStep \/ GiveUp

Launch == Proceed \/ Abandon \/ Raise

-----------------------------------------------------------------------------
(* stop, restart, stop.sh.                                                 *)

\* kill -9 of every node pidof finds.
StopKill(then) ==
    /\ stop = "idle"
    /\ pc = "idle" \/ then = "stop"
    /\ NodeDown
    /\ pid' = Named(pid)
    /\ stop' = then
    /\ UNCHANGED <<wallet, fits, files, pc, tries, said>>

\* Data/genesis is removed, with ined.pid in it.  A node that was started
\* since keeps the chain it has open.
StopRemove ==
    /\ stop # "idle"
    /\ files' = "none"
    /\ pid' = "none"
    /\ IF node = "down" THEN chain' = {} /\ twice' = {} ELSE NoEffect
    /\ node' = IF node = "up" THEN "orphan" ELSE node
    /\ IF stop = "restart" THEN StartLauncher ELSE UNCHANGED <<pc, tries, said>>
    /\ stop' = "idle"
    /\ UNCHANGED <<wallet, fits>>

\* stop.sh kills the process in ined.pid and waits for it.
StopScript ==
    /\ files = "scripts"
    /\ pid # "none"
    /\ IF pid = "node" THEN NodeDown ELSE UNCHANGED <<node, chain, twice>>
    /\ pid' = "none"
    /\ UNCHANGED <<wallet, fits, files, pc, tries, stop, said>>

-----------------------------------------------------------------------------
(* The environment.                                                        *)

NodeDies ==
    /\ node # "down"
    /\ NodeDown
    /\ pid' = Named(pid)
    /\ UNCHANGED <<wallet, fits, files, pc, tries, stop, said>>

\* The daemon locks the wallet, or is started anew and does not list it.
WalletCloses ==
    /\ wallet # "none"
    /\ wallet' \in {"none", "locked"} \ {wallet}
    /\ UNCHANGED <<fits, files, node, pid, chain, twice, pc, tries, stop, said>>

-----------------------------------------------------------------------------
StopNext == StopScript \/ StopRemove \/ \E then \in {"stop", "restart"} : StopKill(then)

Next == Start \/ Launch \/ StopNext \/ NodeDies \/ WalletCloses

Spec == Init /\ [][Next]_lvars

-----------------------------------------------------------------------------
\* A start comes to its end (run_genesis): the loops are bounded whatever the
\* node answers.
LaunchEnds == pc # "idle" ~> pc = "idle"

=============================================================================
