--------------------------- MODULE EphemeralBuilds ---------------------------
(***************************************************************************)
(* What docs.md promises of the builds of one machine: each run begins     *)
(* with an empty place to work, works there alone, and hands over nothing  *)
(* but outputs, which are filed under the run they come from.              *)
(***************************************************************************)
EXTENDS Naturals

VARIABLES
    run,       \* the number of this run
    work,      \* the runs that left something in the place to work
    archive    \* what was handed over: the run, and the runs it comes from

vars == <<run, work, archive>>

Init ==
    /\ run = 0
    /\ work = {}
    /\ archive = {}

\* A run begins where no other has left anything.
Begin ==
    /\ work = {}
    /\ run' = run + 1
    /\ UNCHANGED <<work, archive>>

Produce ==
    /\ run > 0
    /\ work' = work \cup {run}
    /\ UNCHANGED <<run, archive>>

\* All of the outputs, or a part of them when this fails.
HandOver ==
    /\ \E outputs \in SUBSET work : archive' = archive \cup {[run |-> run, from |-> outputs]}
    /\ UNCHANGED <<run, work>>

\* Whatever ends the work puts it out of reach.
Finish ==
    /\ work' = {}
    /\ UNCHANGED <<run, archive>>

\* Disks are overwritten, but not once there is something to hand over.
Overwrite ==
    /\ work = {}
    /\ archive' \subseteq archive
    /\ UNCHANGED <<run, work>>

Next == Begin \/ Produce \/ HandOver \/ Finish \/ Overwrite

Spec == Init /\ [][Next]_vars
=============================================================================
