----------------------------- MODULE MCDesktop -----------------------------
(* The tasks around the game, or the game itself: a behaviour is one of the *)
(* two, chosen at the start.                                                *)
EXTENDS Desktop, Game

VARIABLE which  \* bound: the part that moves, "tasks" or "game"

MCInit ==
  /\ DesktopInit /\ GameInit /\ which \in {"tasks", "game"}
  /\ which = "game" => cpus = 1

MCNext ==
  \/ which = "tasks" /\ DesktopNext /\ UNCHANGED <<gameVars, which>>
  \/ which = "game" /\ GameNext /\ UNCHANGED <<desktopVars, which>>

MCSpec == MCInit /\ [][MCNext]_<<desktopVars, gameVars, which>> /\ DesktopFairness

Steps == {-1, 2}
=============================================================================
