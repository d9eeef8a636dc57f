----------------------------- MODULE MCLauncher -----------------------------
(* Small instances of Launcher for TLC.  History variables note that the   *)
(* node was up while a start ran into the middle of a stop, that no stop   *)
(* has come in since the start, and which steps of it have failed.         *)
EXTENDS Launcher

VARIABLES met, alone, failed

mvars == <<lvars, met, alone, failed>>

MCInit == Init /\ met = FALSE /\ alone = FALSE /\ failed = {}

\* The step that is left without effect although the chain had what it needs:
\* its command was lost, the node was down or the wallet closed.  A loop has
\* failed only when all its tries have.
Failing ==
    {step \in {pc} \cap Steps :
        /\ pc' # pc
        /\ Needs[step] \subseteq Provided
        /\ step \notin Provided'
        /\ step \in Loops => tries = MaxTries}

MCNext ==
    /\ Next
    /\ met' = (node' # "down" /\ (met \/ (stop' # "idle" /\ pc' # "idle")))
    /\ alone' = (pc' # "idle" /\ (alone \/ pc = "idle")
                   /\ stop' = "idle" /\ node' # "orphan")
    /\ failed' = IF alone' THEN failed \cup Failing ELSE {}

\* The operating system lets the launcher run, and every command it waits for
\* returns; so does the question about the wallet.
MCSpec == MCInit /\ [][MCNext]_mvars /\ WF_mvars(Proceed /\ MCNext)

\* Unless it was started between the kill and the removal, a running node
\* runs in a directory that is there, scripts and all: stop (stop_chain)
\* leaves no node behind in what it removes, and stop.sh can be found as long
\* as there is something to stop.
NodeHasItsFiles ==
    ~met /\ node # "down" => node = "up" /\ files = "scripts"

\* The bootstrap (run_genesis) looks at no result but those of its two loops,
\* so a failed step must be all that fails: when a start that no stop came
\* into says "Contracts initilized", whatever is missing has itself failed, or
\* needs something that is missing.  In particular no loop takes silence for
\* success, and no step comes before what it needs.
LacksOnlyWhatFailed ==
    [][alone /\ said # Initialised /\ said' = Initialised =>
        \A step \in Steps \ Provided' :
            step \in failed \cup Failing \/ ~(Needs[step] \subseteq Provided')]_mvars

=============================================================================
