--------------------------- MODULE ContainerProofs ---------------------------
(***************************************************************************)
(* For any number of tries: the types of Launcher and Container, and that  *)
(* crashes and restarts never lead to a second bootstrap.                  *)
(***************************************************************************)
EXTENDS Container, TLAPS

\* The steps lead from one to the next, and the last to "idle".
LEMMA StepsFollow ==
    /\ Steps = {"schedule", "boot", "accounts", "features", "system", "token",
                "supply", "init", "gui", "k2ultra", "plugins"}
    /\ Loops \subseteq Steps
    /\ Repeatable \subseteq Steps
    /\ \A step \in Steps : After[step] \in Steps \cup {"idle"}
  BY DEF Steps, After, Loops, Repeatable

-----------------------------------------------------------------------------
(* Types.                                                                  *)

LEMMA NodeDownTypes ==
    ASSUME TypeOK, NodeDown
    PROVE  /\ node' \in {"down", "up", "orphan"}
           /\ chain' \subseteq Steps
           /\ twice' \subseteq Repeatable
  BY DEF TypeOK, NodeDown

LEMMA EffectTypes ==
    ASSUME TypeOK, NEW step \in Steps, Effect(step)
    PROVE  /\ chain' \subseteq Steps
           /\ twice' \subseteq Repeatable
  BY DEF TypeOK, Effect

LEMMA NamedTypes ==
    ASSUME TypeOK
    PROVE  Named(pid) \in {"none", "node", "dead"}
  BY DEF TypeOK, Named

\* What a start does keeps the types.
LEMMA LaunchTypes ==
    ASSUME TypeOK, Launch
    PROVE  TypeOK'
<1> USE LauncherAssumption DEF LauncherAssumption, TypeOK
<1>1. CASE CheckWallet
  BY <1>1 DEF CheckWallet, CreateWallet
<1>2. CASE AskRestart
  BY <1>2 DEF AskRestart, CreateWallet
<1>3. CASE MakeDir
  BY <1>3 DEF MakeDir
<1>4. CASE WriteScripts
  BY <1>4 DEF WriteScripts
<1>5. CASE StartNode
  BY <1>5, StepsFollow DEF StartNode, RunNode
<1>6. CASE RunStep
  <2>1. chain' \subseteq Steps /\ twice' \subseteq Repeatable
    BY <1>6, EffectTypes DEF RunStep, NoEffect
  <2>2. pc' \in Steps \cup {"idle"}
    BY <1>6, StepsFollow DEF RunStep
  <2> QED BY <1>6, <2>1, <2>2 DEF RunStep
<1>7. CASE TryStep
  <2>1. pc \in Steps
    BY <1>7, StepsFollow DEF TryStep
  <2>2. chain' \subseteq Steps /\ twice' \subseteq Repeatable
    BY <1>7, <2>1, EffectTypes DEF TryStep, NoEffect
  <2>3. pc' \in Steps \cup {"idle"} /\ tries' \in 0..MaxTries
    BY <1>7, <2>1, StepsFollow DEF TryStep
  <2> QED BY <1>7, <2>2, <2>3 DEF TryStep
<1>8. CASE GiveUp
  BY <1>8, StepsFollow DEF GiveUp
<1>9. CASE Abandon \/ Raise
  BY <1>9 DEF Abandon, Raise, EndAt
<1> QED BY <1>1, <1>2, <1>3, <1>4, <1>5, <1>6, <1>7, <1>8, <1>9 DEF Launch, Proceed

\* What stops a node, or closes the wallet, keeps them too.
LEMMA StopTypes ==
    ASSUME TypeOK, StopNext \/ NodeDies \/ WalletCloses
    PROVE  TypeOK'
<1> USE LauncherAssumption DEF LauncherAssumption
<1>1. ASSUME NEW then \in {"stop", "restart"}, StopKill(then) PROVE TypeOK'
  BY <1>1, NodeDownTypes, NamedTypes DEF StopKill, TypeOK
<1>2. CASE StopRemove
  BY <1>2 DEF StopRemove, StartLauncher, NoEffect, TypeOK
<1>3. CASE StopScript
  BY <1>3, NodeDownTypes DEF StopScript, TypeOK
<1>4. CASE NodeDies
  BY <1>4, NodeDownTypes, NamedTypes DEF NodeDies, TypeOK
<1>5. CASE WalletCloses
  BY <1>5 DEF WalletCloses, TypeOK
<1> QED BY <1>1, <1>2, <1>3, <1>4, <1>5 DEF StopNext

\* The launcher's state is well formed in every order of its commands.
THEOREM LauncherTypeCorrect == Spec => []TypeOK
<1>1. Init => TypeOK
  BY LauncherAssumption DEF Init, TypeOK, LauncherAssumption
<1>2. TypeOK /\ [Next]_lvars => TypeOK'
  <2> SUFFICES ASSUME TypeOK, [Next]_lvars PROVE TypeOK'
    OBVIOUS
  <2>1. CASE Start
    BY <2>1, LauncherAssumption DEF Start, StartLauncher, TypeOK, LauncherAssumption
  <2>2. CASE UNCHANGED lvars
    BY <2>2 DEF lvars, TypeOK
  <2> QED BY <2>1, <2>2, LaunchTypes, StopTypes DEF Next
<1> QED BY <1>1, <1>2, PTL DEF Spec

\* The same in a container, with its crashes.
THEOREM ContainerTypeCorrect == ContainerSpec => []ContainerTypeOK
<1>1. ContainerInit => ContainerTypeOK
  <2> SUFFICES ASSUME ContainerInit PROVE ContainerTypeOK
    OBVIOUS
  <2>1. TypeOK
    BY LauncherAssumption DEF ContainerInit, Init, TypeOK, LauncherAssumption
  <2>2. gui \in BOOLEAN
    BY Zenon DEF ContainerInit
  <2> QED BY <2>1, <2>2 DEF ContainerInit, ContainerTypeOK
<1>2. ContainerTypeOK /\ [ContainerNext]_vars => ContainerTypeOK'
  <2> SUFFICES ASSUME ContainerTypeOK, [ContainerNext]_vars PROVE ContainerTypeOK'
    OBVIOUS
  <2>0. TypeOK
    BY DEF ContainerTypeOK
  <2>1. CASE AllDie
    <3>1. TypeOK'
      BY <2>0, <2>1, NamedTypes, LauncherAssumption DEF AllDie, TypeOK, LauncherAssumption
    <3>2. gui' \in BOOLEAN
      BY <2>1, Zenon DEF AllDie
    <3> QED BY <2>1, <3>1, <3>2 DEF AllDie, ContainerTypeOK
  <2>2. CASE RunLauncher
    BY <2>0, <2>2, LaunchTypes DEF RunLauncher, Launch, ContainerTypeOK
  <2>3. CASE ProcessDies
    BY <2>0, <2>3, StopTypes DEF ProcessDies, ContainerTypeOK
  <2>4. CASE HardReplay
    BY <2>4 DEF HardReplay, RunNode, ContainerTypeOK, TypeOK
  <2>5. CASE Look
    BY <2>5, LauncherAssumption
      DEF Look, StartLauncher, ContainerTypeOK, TypeOK, LauncherAssumption
  <2>6. CASE LauncherDone
    BY <2>6 DEF LauncherDone, ContainerTypeOK, TypeOK
  <2>7. CASE ContainerUp \/ RunGui \/ GuiDies \/ UNCHANGED vars
    BY <2>7 DEF ContainerUp, RunGui, GuiDies, vars, lvars, ContainerTypeOK, TypeOK
  <2> QED BY <2>1, <2>2, <2>3, <2>4, <2>5, <2>6, <2>7
       DEF ContainerNext, EntryPoint, Killed, LauncherFails, ReplayFails, WatchEnds
<1> QED BY <1>1, <1>2, PTL DEF ContainerSpec

-----------------------------------------------------------------------------
(* The order of the bootstrap across crashes.                              *)

\* Where a start is before its first step.
Early == {"wallet", "ask", "mkdir", "scripts", "node"}

\* Nobody stops the node, so none is left behind.
NeverStopped == stop = "idle" /\ node # "orphan"

\* Data/genesis tells whether a bootstrap has begun, and no start runs but
\* the one that made it.
DirectoryTells ==
    /\ files = "none" => chain = {}
    /\ files = "none" => pc \in {"idle", "wallet", "ask", "mkdir"}
    /\ pc \in {"wallet", "ask", "mkdir"} => files = "none"

\* The steps that must not be met twice are not in effect before their turn.
NotYet ==
    /\ pc \in Early \cup {"schedule", "boot"} => "system" \notin chain
    /\ pc \in Early \cup {"schedule", "boot", "accounts", "features", "system",
                           "token", "supply"} => "supply" \notin chain
    /\ pc # "idle" => "plugins" \notin chain

OrderInv == BootstrappedOnce /\ NeverStopped /\ DirectoryTells /\ NotYet

\* A turn of the bootstrap, if it has an effect, adds its own step.
LEMMA EffectOnce ==
    ASSUME OrderInv, pc \in Steps, Effect(pc)
    PROVE  /\ twice' = {}
           /\ chain' \subseteq chain \cup {pc}
           /\ "system" \in chain => "system" \in chain'
<1>1. twice' = {}
  BY DEF OrderInv, BootstrappedOnce, NotYet, Effect, Repeatable, Early
<1>2. chain' \subseteq chain \cup {pc}
  BY DEF Effect
<1>3. ASSUME "system" \in chain PROVE "system" \in chain'
  BY <1>3 DEF OrderInv, NotYet, Effect, Loops, Early
<1> QED BY <1>1, <1>2, <1>3

LEMMA LaunchOrder ==
    ASSUME OrderInv, Proceed \/ Abandon
    PROVE  OrderInv' /\ ("system" \in chain => "system" \in chain')
<1> USE DEF OrderInv, NeverStopped, DirectoryTells, BootstrappedOnce, NotYet, Early
<1>1. CASE CheckWallet
  BY <1>1 DEF CheckWallet
<1>2. CASE AskRestart
  BY <1>2 DEF AskRestart
<1>3. CASE MakeDir
  BY <1>3 DEF MakeDir
<1>4. CASE WriteScripts
  BY <1>4 DEF WriteScripts
<1>5. CASE StartNode
  BY <1>5 DEF StartNode, RunNode
<1>6. CASE RunStep
  <2>1. /\ pc \in {"schedule", "accounts", "features", "token", "supply", "init", "gui", "k2ultra", "plugins"}
        /\ pc' = After[pc]
        /\ UNCHANGED <<files, node, stop>>
    BY <1>6, StepsFollow DEF RunStep, Loops
  <2>2. /\ twice' = {}
        /\ chain' \subseteq chain \cup {pc}
        /\ "system" \in chain => "system" \in chain'
    BY <1>6, StepsFollow, EffectOnce DEF RunStep, NoEffect
  <2> QED BY <2>1, <2>2 DEF After
<1>7. CASE TryStep
  <2>1. /\ pc \in {"boot", "system"}
        /\ pc' \in {pc, After[pc]}
        /\ UNCHANGED <<files, node, stop>>
    BY <1>7 DEF TryStep, Loops
  <2>2. /\ twice' = {}
        /\ chain' \subseteq chain \cup {pc}
        /\ "system" \in chain => "system" \in chain'
    BY <1>7, <2>1, StepsFollow, EffectOnce DEF TryStep, NoEffect
  <2> QED BY <2>1, <2>2 DEF After
<1>8. CASE GiveUp
  BY <1>8 DEF GiveUp, Loops, After
<1>9. CASE Abandon
  BY <1>9 DEF Abandon, EndAt
<1> QED BY <1>1, <1>2, <1>3, <1>4, <1>5, <1>6, <1>7, <1>8, <1>9 DEF Proceed

LEMMA ContainerOrder ==
    ASSUME OrderInv, [ContainerNext]_vars
    PROVE  OrderInv' /\ ("system" \in chain => "system" \in chain')
<1> USE DEF OrderInv, NeverStopped, DirectoryTells, BootstrappedOnce, NotYet, Early
<1>1. CASE AllDie
  BY <1>1 DEF AllDie
<1>2. CASE RunLauncher
  BY <1>2, LaunchOrder DEF RunLauncher
<1>3. CASE ProcessDies
  BY <1>3 DEF ProcessDies, NodeDies, NodeDown, WalletCloses
<1>4. CASE HardReplay
  BY <1>4 DEF HardReplay, RunNode
<1>5. CASE Look
  BY <1>5 DEF Look, StartLauncher
<1>6. CASE LauncherDone
  BY <1>6 DEF LauncherDone
<1>7. CASE ContainerUp \/ RunGui \/ GuiDies \/ UNCHANGED vars
  BY <1>7 DEF ContainerUp, RunGui, GuiDies, vars, lvars
<1> QED BY <1>1, <1>2, <1>3, <1>4, <1>5, <1>6, <1>7
     DEF ContainerNext, EntryPoint, Killed, LauncherFails, ReplayFails, WatchEnds

LEMMA OrderHolds == ContainerSpec => []OrderInv
<1>1. ContainerInit => OrderInv
  BY DEF ContainerInit, Init, OrderInv, BootstrappedOnce, NeverStopped, DirectoryTells, NotYet, Early
<1>2. OrderInv /\ [ContainerNext]_vars => OrderInv'
  BY ContainerOrder
<1> QED BY <1>1, <1>2, PTL DEF ContainerSpec

\* entrypoint.sh never has the supply issued or a plugin registered twice.
THEOREM NothingTwice == ContainerSpec => []BootstrappedOnce
<1>1. OrderInv => BootstrappedOnce
  BY DEF OrderInv
<1> QED BY <1>1, OrderHolds, PTL

\* entrypoint.sh never has the boot contract installed over the system one.
THEOREM SystemContractStays == ContainerSpec => SystemStays
<1>1. OrderInv /\ [ContainerNext]_vars => ["system" \in chain => "system" \in chain']_vars
  BY ContainerOrder
<1> QED BY <1>1, OrderHolds, PTL DEF ContainerSpec, SystemStays

=============================================================================
