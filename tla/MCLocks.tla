------------------------------ MODULE MCLocks ------------------------------
(* The async mutex and the guards share no state: a behaviour is one of the *)
(* mutex or one of the guards, chosen at the start.                         *)
EXTENDS AsyncMutex, InterruptGuard

VARIABLE which  \* bound: the part that moves, "mutex" or "guards"

MCInit == Init /\ GuardInit /\ which \in {"mutex", "guards"} /\ (which = "guards" => cpus = 1)

MCNext ==
  \/ which = "mutex" /\ Next /\ UNCHANGED <<guardVars, which>>
  \/ which = "guards" /\ GuardNext /\ UNCHANGED <<vars, which>>

(* The fairness is that of the mutex: of the guards only invariants are      *)
(* checked.                                                                 *)
MCSpec == MCInit /\ [][MCNext]_<<vars, guardVars, which>> /\ Fairness
=============================================================================
