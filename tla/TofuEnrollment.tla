--------------------------- MODULE TofuEnrollment ---------------------------
(***************************************************************************)
(* What auto-enrollment promises (docs.md, "Trust Model"): trust on first  *)
(* use.  An agent is pinned to a measured boot state that it has itself    *)
(* vouched for while running it, and once pinned it cannot move the pin:   *)
(* only an administrator can take it away.                                 *)
(***************************************************************************)
CONSTANTS Agents, States, None

VARIABLES
  running,   \* the state each agent has booted
  vouched,   \* the states each agent has reported so far
  pinned     \* the state each agent is enrolled with, or None

vars == <<running, vouched, pinned>>

Init ==
  /\ running \in [Agents -> States]
  /\ vouched = [a \in Agents |-> {}]
  /\ pinned = [a \in Agents |-> None]

Boot(a, s) ==
  /\ running' = [running EXCEPT ![a] = s]
  /\ UNCHANGED <<vouched, pinned>>

Vouch(a) ==
  /\ vouched' = [vouched EXCEPT ![a] = @ \union {running[a]}]
  /\ UNCHANGED <<running, pinned>>

Pin(a, s) ==
  /\ pinned[a] = None
  /\ s \in vouched[a]
  /\ pinned' = [pinned EXCEPT ![a] = s]
  /\ UNCHANGED <<running, vouched>>

Unpin(a) ==
  /\ pinned' = [pinned EXCEPT ![a] = None]
  /\ UNCHANGED <<running, vouched>>

Next == \E a \in Agents :
  \/ \E s \in States : Boot(a, s) \/ Pin(a, s)
  \/ Vouch(a)
  \/ Unpin(a)

Spec == Init /\ [][Next]_vars
=============================================================================
