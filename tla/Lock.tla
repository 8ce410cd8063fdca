-------------------------------- MODULE Lock --------------------------------
(***************************************************************************)
(* What every lock of the kernel promises, whatever its waiting strategy:  *)
(* at most one client owns it, and ownership passes from one client to the *)
(* next only through a state in which nobody owns it.  SpinLock and        *)
(* AsyncMutex are shown to implement this specification.                   *)
(***************************************************************************)

CONSTANT Clients

VARIABLE owners     \* the set of clients that hold a guard

Init == owners = {}

Acquire(c) ==
  /\ owners = {}
  /\ owners' = {c}

Release(c) ==
  /\ owners = {c}
  /\ owners' = {}

Next == \E c \in Clients : Acquire(c) \/ Release(c)

Spec == Init /\ [][Next]_owners

=============================================================================
