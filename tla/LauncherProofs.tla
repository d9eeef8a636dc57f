--------------------------- MODULE LauncherProofs ---------------------------
(***************************************************************************)
(* For any number of tries, and whatever is stopped, restarted or lost     *)
(* while a start runs: the files a running node has, and what the failures *)
(* of a start leave undone.                                                *)
(***************************************************************************)
EXTENDS MCLauncher, TLAPS

LEMMA StepsAre ==
    /\ Steps = {"schedule", "boot", "accounts", "features", "system", "token",
                "supply", "init", "gui", "k2ultra", "plugins"}
    /\ After["schedule"] = "boot" /\ After["boot"] = "accounts"
    /\ After["accounts"] = "features" /\ After["features"] = "system"
    /\ After["system"] = "token" /\ After["token"] = "supply"
    /\ After["supply"] = "init" /\ After["init"] = "gui"
    /\ After["gui"] = "k2ultra" /\ After["k2ultra"] = "plugins"
    /\ After["plugins"] = "idle"
BY DEF Steps, After

-----------------------------------------------------------------------------
(* The files of a running node.                                            *)

FilesInv ==
    ~met /\ node # "down" => node = "up" /\ files = "scripts" /\ stop = "idle"

\* Only a start puts a node up, with the scripts there; only the end of a
\* stop removes them, and by then its kill has met every node but one that
\* was started in between, which "met" remembers.
LEMMA FilesStep ==
    ASSUME FilesInv, [MCNext]_mvars
    PROVE  FilesInv'
<1> SUFFICES ASSUME ~met', node' # "down"
             PROVE  node' = "up" /\ files' = "scripts" /\ stop' = "idle"
  BY DEF FilesInv
<1>1. CASE UNCHANGED mvars
  BY <1>1 DEF mvars, lvars, FilesInv
<1>2. CASE MCNext
  <2>0. ~met /\ (stop' = "idle" \/ pc' = "idle")
    BY <1>2 DEF MCNext
  <2>1. CASE CheckWallet \/ AskRestart \/ Abandon \/ Raise \/ GiveUp \/ RunStep \/ TryStep
    BY <2>0, <2>1 DEF CheckWallet, AskRestart, Abandon, Raise, EndAt, GiveUp, RunStep,
                      TryStep, FilesInv
  <2>2. CASE MakeDir
    BY <2>0, <2>2 DEF MakeDir, FilesInv
  <2>3. CASE WriteScripts
    BY <2>0, <2>3 DEF WriteScripts, FilesInv
  <2>4. CASE StartNode
    BY <2>0, <2>4 DEF StartNode, RunNode, FilesInv
  <2>5. CASE Start \/ WalletCloses
    BY <2>0, <2>5 DEF Start, StartLauncher, WalletCloses, FilesInv
  <2>6. ASSUME NEW then \in {"stop", "restart"}, StopKill(then) PROVE FALSE
    BY <2>6 DEF StopKill, NodeDown
  <2>7. CASE StopRemove
    BY <2>0, <2>7 DEF StopRemove, FilesInv
  <2>8. CASE StopScript
    BY <2>0, <2>8 DEF StopScript, NodeDown, FilesInv
  <2>9. CASE NodeDies
    BY <2>9 DEF NodeDies, NodeDown
  <2> QED
    BY <1>2, <2>1, <2>2, <2>3, <2>4, <2>5, <2>6, <2>7, <2>8, <2>9
       DEF MCNext, Next, Launch, Proceed, StopNext
<1> QED
  BY <1>1, <1>2

\* A running node has its directory and its scripts, unless it was started
\* between the two halves of a stop.
THEOREM RunningNodeHasItsFiles == MCSpec => []NodeHasItsFiles
<1>1. MCInit => FilesInv
  BY DEF MCInit, Init, FilesInv
<1>2. FilesInv /\ [MCNext]_mvars => FilesInv'
  BY FilesStep
<1>3. FilesInv => NodeHasItsFiles
  BY DEF FilesInv, NodeHasItsFiles
<1> QED
  BY <1>1, <1>2, <1>3, PTL DEF MCSpec

-----------------------------------------------------------------------------
(* What the failures of a start leave undone.                              *)

\* The steps that come before a step.
Before ==
    [schedule |-> {},
     boot     |-> {"schedule"},
     accounts |-> {"schedule", "boot"},
     features |-> {"schedule", "boot", "accounts"},
     system   |-> {"schedule", "boot", "accounts", "features"},
     token    |-> {"schedule", "boot", "accounts", "features", "system"},
     supply   |-> {"schedule", "boot", "accounts", "features", "system", "token"},
     init     |-> {"schedule", "boot", "accounts", "features", "system", "token",
                   "supply"},
     gui      |-> {"schedule", "boot", "accounts", "features", "system", "token",
                   "supply", "init"},
     k2ultra  |-> {"schedule", "boot", "accounts", "features", "system", "token",
                   "supply", "init", "gui"},
     plugins  |-> {"schedule", "boot", "accounts", "features", "system", "token",
                   "supply", "init", "gui", "k2ultra"}]

LEMMA BeforeIs ==
    /\ \A step \in Steps \ {"plugins"} :
         After[step] \in Steps /\ After[step] # step
                               /\ Before[After[step]] = Before[step] \cup {step}
    /\ Before["plugins"] = Steps \ {"plugins"}
    /\ Before["schedule"] = {} /\ "plugins" \notin Loops
    /\ \A step \in Steps : After[step] # step
BY StepsAre DEF Before, Loops

\* No step needs a later one, and no two steps share a turn.
LEMMA NeedsAreBefore ==
    \A step \in Steps :
        /\ Before[step] \subseteq Steps
        /\ Needs[step] \subseteq Before[step]
        /\ step \notin Before[step]
        /\ \A earlier \in Before[step] : step \notin Needs[earlier]
BY StepsAre DEF Before, Needs

\* A step is in effect, or excused: it has failed, or lacks what it needs.
Accounted(step, provided, failures) ==
    step \in provided \/ step \in failures \/ ~(Needs[step] \subseteq provided)

ExcuseInv ==
    alone /\ pc \in Steps =>
        /\ stop = "idle" /\ node # "orphan"
        /\ \A step \in Before[pc] : Accounted(step, Provided, failed)

\* One step of the bootstrap changes what the chain provides in one of three
\* ways; the system contract brings back what the boot contract provided.
LEMMA EffectProvides ==
    ASSUME NEW step \in Steps, Effect(step)
    PROVE  /\ Needs[step] \subseteq Provided
           /\ step \in Provided'
           /\ step = "boot" => Provided \ {"system"} \subseteq Provided'
           /\ step = "system" => Provided' = Provided \cup {"boot", "system"}
           /\ step \notin Loops => Provided' = Provided \cup {step}
<1>1. Needs[step] \subseteq Provided
  BY DEF Effect, Possible
<1>2. chain' = (IF step \in Loops THEN chain \ Loops ELSE chain) \cup {step}
  BY DEF Effect
<1> QED
  BY <1>1, <1>2, StepsAre DEF Provided, Loops

\* An effect takes no excuse from the steps before: what it adds they do not
\* need, but for the system contract's share of "boot", and by then the steps
\* that need that are in effect.
LEMMA EffectKeepsAccount ==
    ASSUME NEW step \in Steps, NEW earlier \in Before[step], NEW failures,
           Accounted(earlier, Provided, failures), Effect(step)
    PROVE  Accounted(earlier, Provided', failures)
<1>0. earlier \in Steps /\ step \notin Needs[earlier] /\ earlier # step
  BY NeedsAreBefore
<1>1. CASE step \notin Loops
  <2>1. Provided' = Provided \cup {step}
    BY <1>1, EffectProvides
  <2> QED
    BY <1>0, <2>1 DEF Accounted
<1>2. CASE step = "boot"
  <2>1. earlier = "schedule" /\ Needs[earlier] = {}
    BY <1>2, StepsAre DEF Before, Needs
  <2>2. Provided \ {"system"} \subseteq Provided'
    BY <1>2, EffectProvides
  <2> QED
    BY <2>1, <2>2 DEF Accounted
<1>3. CASE step = "system"
  <2>1. Provided' = Provided \cup {"boot", "system"} /\ {"features"} \subseteq Provided
    BY <1>3, EffectProvides DEF Needs
  <2>2. earlier = "features" \/ "boot" \notin Needs[earlier]
    BY <1>3, StepsAre DEF Before, Needs
  <2> QED
    BY <1>0, <1>3, <2>1, <2>2 DEF Accounted
<1> QED
  BY <1>1, <1>2, <1>3 DEF Loops

\* One turn of the bootstrap.  The step it leaves is in effect, or has
\* failed, or lacks what it needs.
LEMMA TurnAccounts ==
    ASSUME ExcuseInv, alone, pc \in Steps, RunStep \/ TryStep \/ GiveUp
    PROVE  /\ \A step \in Before[pc] : Accounted(step, Provided', failed \cup Failing)
           /\ \/ pc' = pc
              \/ pc' = After[pc] /\ Accounted(pc, Provided', failed \cup Failing)
<1>1. Effect(pc) \/ (UNCHANGED chain /\ Provided' = Provided)
  BY DEF RunStep, TryStep, GiveUp, NoEffect, Provided
<1>2. pc' = pc \/ pc' = After[pc]
  BY DEF RunStep, TryStep, GiveUp
<1>3. ASSUME NEW step \in Before[pc]
      PROVE  Accounted(step, Provided', failed \cup Failing)
  <2>1. Accounted(step, Provided, failed)
    BY DEF ExcuseInv
  <2>2. Accounted(step, Provided', failed)
    BY <1>1, <2>1, EffectKeepsAccount
  <2> QED
    BY <2>2 DEF Accounted
<1>4. ASSUME pc' # pc, pc \notin Provided', Needs[pc] \subseteq Provided'
      PROVE  pc \in Failing
  <2>1. Provided' = Provided
    BY <1>1, <1>4, EffectProvides
  <2>2. pc \in Loops => tries = MaxTries
    BY <1>4, EffectProvides DEF RunStep, TryStep, GiveUp
  <2> QED
    BY <1>4, <2>1, <2>2 DEF Failing
<1> QED
  BY <1>2, <1>3, <1>4 DEF Accounted

\* What is no turn of the bootstrap leaves the chain of a start as it is, if
\* no stop comes in.
LEMMA OthersWait ==
    ASSUME ExcuseInv, alone, pc \in Steps, Next, stop' = "idle",
           ~(RunStep \/ TryStep \/ GiveUp)
    PROVE  pc' = "idle" \/ (pc' = pc /\ Provided' = Provided)
<1>0. /\ pc \notin {"idle", "wallet", "ask", "mkdir", "scripts", "node"}
      /\ stop = "idle" /\ node # "orphan"
  BY StepsAre DEF ExcuseInv
<1>1. CASE Abandon \/ Raise
  BY <1>1 DEF Abandon, Raise, EndAt
<1>2. ASSUME NEW then \in {"stop", "restart"}, StopKill(then) PROVE FALSE
  BY <1>2 DEF StopKill
<1>3. CASE StopScript
  BY <1>0, <1>3 DEF StopScript, NodeDown, Provided
<1>4. CASE NodeDies
  BY <1>0, <1>4 DEF NodeDies, NodeDown, Provided
<1>5. CASE WalletCloses
  BY <1>5 DEF WalletCloses, Provided
<1>6. ~(Start \/ CheckWallet \/ AskRestart \/ MakeDir \/ WriteScripts \/ StartNode
          \/ StopRemove)
  BY <1>0 DEF Start, CheckWallet, AskRestart, MakeDir, WriteScripts, StartNode, StopRemove
<1> QED
  BY <1>1, <1>2, <1>3, <1>4, <1>5, <1>6 DEF Next, Launch, Proceed, StopNext

\* The bootstrap is entered at its first step.
LEMMA EntersAtFirst ==
    ASSUME Next, pc \notin Steps, pc' \in Steps
    PROVE  pc' = "schedule"
BY StepsAre
   DEF Next, Start, StartLauncher, Launch, Proceed, CheckWallet, AskRestart, MakeDir,
       WriteScripts, StartNode, RunStep, TryStep, GiveUp, Abandon, Raise, EndAt, StopNext,
       StopKill, StopRemove, StopScript, NodeDies, WalletCloses, Loops

LEMMA ExcuseStep ==
    ASSUME ExcuseInv, [MCNext]_mvars
    PROVE  ExcuseInv'
<1>1. CASE UNCHANGED mvars
  BY <1>1 DEF mvars, lvars, ExcuseInv, Provided, Accounted
<1>2. CASE MCNext
  <2> SUFFICES ASSUME alone', pc' \in Steps
               PROVE  \A step \in Before[pc'] : Accounted(step, Provided', failed')
    BY <1>2 DEF MCNext, ExcuseInv
  <2>0. /\ Next /\ stop' = "idle" /\ failed' = failed \cup Failing
        /\ pc' # "idle" /\ (alone \/ pc = "idle")
    BY <1>2 DEF MCNext
  <2>1. CASE pc \notin Steps
    BY <2>0, <2>1, EntersAtFirst, BeforeIs
  <2>2. CASE pc \in Steps
    <3>0. alone
      BY <2>0, <2>2, StepsAre
    <3>1. CASE RunStep \/ TryStep \/ GiveUp
      <4>1. CASE pc' = pc
        BY <2>0, <2>2, <3>0, <3>1, <4>1, TurnAccounts
      <4>2. CASE pc' # pc
        <5>1. pc' = After[pc] /\ Accounted(pc, Provided', failed')
          BY <2>0, <2>2, <3>0, <3>1, <4>2, TurnAccounts
        <5>2. Before[pc'] = Before[pc] \cup {pc}
          BY <2>0, <2>2, <5>1, BeforeIs, StepsAre
        <5> QED
          BY <2>0, <2>2, <3>0, <3>1, <5>1, <5>2, TurnAccounts
      <4> QED
        BY <4>1, <4>2
    <3>2. CASE ~(RunStep \/ TryStep \/ GiveUp)
      BY <2>0, <2>2, <3>0, <3>2, OthersWait DEF ExcuseInv, Accounted
    <3> QED
      BY <3>1, <3>2
  <2> QED
    BY <2>1, <2>2
<1> QED
  BY <1>1, <1>2

\* When a start that no stop came into says it is done, a step that is not in
\* effect has itself failed, or needs one that is not.
THEOREM FailuresOnlySpread == MCSpec => LacksOnlyWhatFailed
<1> DEFINE Done == alone /\ said # Initialised /\ said' = Initialised =>
              \A step \in Steps \ Provided' :
                  step \in failed \cup Failing \/ ~(Needs[step] \subseteq Provided')
<1>1. MCInit => ExcuseInv
  BY DEF MCInit, ExcuseInv
<1>2. ASSUME ExcuseInv, MCNext PROVE Done
  <2> SUFFICES ASSUME alone, said # Initialised, said' = Initialised,
                      NEW step \in Steps \ Provided'
               PROVE  Accounted(step, Provided', failed \cup Failing)
    BY DEF Accounted
  <2>1. RunStep /\ pc' = "idle"
    BY <1>2
       DEF MCNext, Next, Start, StartLauncher, Launch, Proceed, CheckWallet, AskRestart,
           MakeDir, WriteScripts, StartNode, RunStep, TryStep, GiveUp, Abandon, Raise,
           EndAt, StopNext, StopKill, StopRemove, StopScript, NodeDies, WalletCloses,
           Initialised
  <2>2. pc = "plugins" /\ pc' # pc
    BY <2>1, StepsAre DEF RunStep
  <2>3. step \in Before[pc] \/ step = pc
    BY <2>2, BeforeIs
  <2>4. pc \in Steps
    BY <2>2, StepsAre
  <2> QED
    BY <1>2, <2>1, <2>2, <2>3, <2>4, TurnAccounts
<1>3. ExcuseInv /\ [MCNext]_mvars => ExcuseInv'
  BY ExcuseStep
<1>4. ExcuseInv /\ [MCNext]_mvars => [Done]_mvars
  BY <1>2
<1> QED
  BY <1>1, <1>3, <1>4, PTL DEF MCSpec, LacksOnlyWhatFailed

=============================================================================
