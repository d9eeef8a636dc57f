------------------------------ MODULE Container ------------------------------
(***************************************************************************)
(* entrypoint.sh with the launcher it calls, the node and the GUI, in a    *)
(* container that may be killed at any time and is started again.  Its     *)
(* processes die with it; the directory Data/genesis, and with it the      *)
(* chain, stays.  Nobody calls stop, restart or stop.sh in the container,  *)
(* and its terminal answers no question.                                   *)
(***************************************************************************)
EXTENDS Launcher

VARIABLES
    ep,     \* where entrypoint.sh is, "off" if the container does not run
    gui     \* the GUI process runs

vars == <<lvars, ep, gui>>

ContainerTypeOK ==
    /\ TypeOK
    /\ ep \in {"off", "look", "launcher", "replay", "gui", "watch"}
    /\ gui \in BOOLEAN

ContainerInit ==
    /\ Init
    /\ wallet = "none"
    /\ ep = "off"
    /\ gui = FALSE

-----------------------------------------------------------------------------
\* Every process of the container dies; a new wallet daemon lists no wallet.
AllDie ==
    /\ ep' = "off"
    /\ gui' = FALSE
    /\ node' = "down"
    /\ pid' = Named(pid)
    /\ wallet' = "none"
    /\ pc' = "idle"
    /\ tries' = 0
    /\ said' = "nothing"
    /\ UNCHANGED <<fits, files, chain, twice, stop>>

(* Faulty variants, as in Launcher.                                        *)

\* The launcher is run whenever there is no node.
LookForNode ==
    /\ ep = "look"
    /\ IF node = "down"
       THEN ep' = "launcher" /\ StartLauncher
       ELSE ep' = "gui" /\ UNCHANGED <<pc, tries, said>>
    /\ UNCHANGED <<wallet, fits, files, node, pid, chain, twice, stop, gui>>

-----------------------------------------------------------------------------
ContainerUp ==
    /\ ep = "off"
    /\ ep' = "look"
    /\ UNCHANGED <<lvars, gui>>

\* Without the directory the launcher is started, with it the chain is
\* replayed unless a node runs.
Look ==
    /\ ep = "look"
    /\ \/ files = "none" /\ ep' = "launcher" /\ StartLauncher
       \/ files # "none" /\ UNCHANGED <<pc, tries, said>>
            /\ ep' = IF node = "down" THEN "replay" ELSE "gui"
    /\ UNCHANGED <<wallet, fits, files, node, pid, chain, twice, stop, gui>>

\* The launcher runs on the entry point's behalf.
RunLauncher ==
    /\ ep = "launcher"
    /\ Proceed \/ Abandon
    /\ UNCHANGED <<ep, gui>>

\* It ends without an error, whatever it has achieved: its own exceptions are
\* caught, and exit() after a failed check of the system is a success too.
LauncherDone ==
    /\ ep = "launcher"
    /\ pc \in {"wallet", "idle"}
    /\ ep' = "gui"
    /\ pc' = "idle"
    /\ UNCHANGED <<wallet, fits, files, node, pid, chain, twice, tries, stop, said, gui>>

\* An exception outside the bootstrap ends it with one, and set -e the
\* container.
LauncherFails ==
    /\ ep = "launcher"
    /\ pc \in {"wallet", "mkdir", "scripts", "node"}
    /\ AllDie

\* hard_replay.sh starts the node and does not wait for it; if the script was
\* never written bash fails, and set -e ends the container.
HardReplay ==
    /\ ep = "replay"
    /\ files = "scripts"
    /\ RunNode
    /\ ep' = "gui"
    /\ UNCHANGED <<wallet, fits, files, chain, twice, pc, tries, stop, said, gui>>

ReplayFails ==
    /\ ep = "replay"
    /\ files # "scripts"
    /\ AllDie

RunGui ==
    /\ ep = "gui"
    /\ gui' \in {TRUE, gui}
    /\ ep' = "watch"
    /\ UNCHANGED lvars

\* The loop ends when there is no GUI process, and with it the container.
WatchEnds ==
    /\ ep = "watch"
    /\ ~gui
    /\ AllDie

-----------------------------------------------------------------------------
(* The environment.                                                        *)

Killed == ep # "off" /\ AllDie

GuiDies ==
    /\ gui
    /\ gui' = FALSE
    /\ UNCHANGED <<lvars, ep>>

ProcessDies == (NodeDies \/ WalletCloses) /\ UNCHANGED <<ep, gui>>

EntryPoint ==
    Look \/ RunLauncher \/ LauncherDone \/ LauncherFails \/ HardReplay \/ ReplayFails
        \/ RunGui \/ WatchEnds

ContainerNext == ContainerUp \/ EntryPoint \/ Killed \/ GuiDies \/ ProcessDies

ContainerSpec == ContainerInit /\ [][ContainerNext]_vars

\* The operating system lets the entry point and the launcher it waits for
\* run.  Nobody is assumed to start the container, and nothing to die.
Fairness ==
    /\ WF_vars(Look \/ LauncherDone \/ HardReplay \/ ReplayFails \/ RunGui \/ WatchEnds)
    /\ WF_vars(ep = "launcher" /\ Proceed /\ UNCHANGED <<ep, gui>>)

-----------------------------------------------------------------------------
\* However often the container (entrypoint.sh) is killed and started, and at whatever point
\* of the bootstrap, the supply is issued once and every plugin registered
\* once: neither step would notice that it has been done.
BootstrappedOnce == twice = {}

\* The system contract, once installed by run_genesis, is never replaced by the boot
\* contract again.
SystemStays == []["system" \in chain => "system" \in chain']_vars

\* "If nodine falls, the container shuts down" (entrypoint.sh, comment after
\* the loop).
StopsWithNode == (ep = "watch" /\ node = "down") ~> ep = "off"

=============================================================================
