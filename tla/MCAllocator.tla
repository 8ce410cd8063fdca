---------------------------- MODULE MCAllocator ----------------------------
(* The heap, or the logger that fills it: a behaviour is one of the two.    *)
EXTENDS Allocator, Logger

VARIABLE which  \* bound: the part that moves

MCInit ==
  /\ which \in {"heap", "log"}
  /\ Init /\ LogStart(IF which = "log" THEN "boot" ELSE "off")

MCNext ==
  \/ which = "heap" /\ Next /\ UNCHANGED <<logVars, which>>
  \/ which = "log" /\ LogNext /\ UNCHANGED <<vars, which>>

MCSpec == MCInit /\ [][MCNext]_<<vars, logVars, which>> /\ LogFairness

Layout(s, a) == [size |-> s, align |-> a]

(* Odd sizes and alignments of 1, 2 and 4, none larger than Base. *)
SmallLayouts == {Layout(1, 1), Layout(2, 4), Layout(3, 2), Layout(6, 1)}

(* Kernel::init gives an empty map. *)
NoLevels == <<>>

=============================================================================
