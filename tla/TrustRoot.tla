------------------------------ MODULE TrustRoot ------------------------------
(***************************************************************************)
(* What the mutual TLS of the attestation server needs from its PKI        *)
(* (docs/keylime-server.md): there is one root of trust, it is established *)
(* once and never replaced, and whoever trusts anything trusts it, so that *)
(* no two parties reject each other.                                       *)
(***************************************************************************)
EXTENDS Naturals

CONSTANT Parties

VARIABLES
    root,      \* the root of trust, 0 before there is one
    trusted    \* what each party has loaded and trusts

vars == <<root, trusted>>

Init ==
    /\ root = 0
    /\ trusted = [p \in Parties |-> {}]

Establish ==
    /\ root = 0
    /\ root' \in Nat \ {0}
    /\ UNCHANGED trusted

Trust(p) ==
    /\ root # 0
    /\ trusted' = [trusted EXCEPT ![p] = {root}]
    /\ UNCHANGED root

\* Processes end, alone or all at once.
Forget(ps) ==
    /\ trusted' = [p \in Parties |-> IF p \in ps THEN {} ELSE trusted[p]]
    /\ UNCHANGED root

Next ==
    \/ Establish
    \/ \E p \in Parties : Trust(p)
    \/ \E ps \in SUBSET Parties : Forget(ps)

Spec == Init /\ [][Next]_vars
=============================================================================
