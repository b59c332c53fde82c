------------------------------ MODULE MCTlsPki ------------------------------
(* TlsPki for TLC: no data to instantiate, only the bound of the faults. *)
EXTENDS TlsPki
=============================================================================
