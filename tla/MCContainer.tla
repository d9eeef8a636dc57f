----------------------------- MODULE MCContainer -----------------------------
(* Small instances of Container for TLC.  A history variable notes that    *)
(* the container was cut short: killed, or ended by an error of the        *)
(* launcher outside the bootstrap.                                         *)
EXTENDS Container

VARIABLE cut

mvars == <<vars, cut>>

MCInit == ContainerInit /\ cut = FALSE

MCNext ==
    /\ ContainerNext
    /\ cut' = (ep # "off" /\ ep' = "off" /\ ~WatchEnds /\ ~ReplayFails)

MCSpec == MCInit /\ [][MCNext]_mvars /\ Fairness

\* A container that is started (entrypoint.sh, first if) comes to watch its
\* GUI, through launcher or replay, unless it is cut short or finds a
\* directory a cut has left without its scripts: no other crash, and nothing
\* the launcher leaves undone, makes it end before.
ComesUp == (ep = "look" /\ files # "dir") ~> (ep = "watch" \/ cut)

=============================================================================
