-------------------------- MODULE MCSessionManager --------------------------
(***************************************************************************)
(* Instances of SessionManager for TLC.  The cfg files give the sets; the  *)
(* symmetries are used by the runs that check no liveness property.        *)
(***************************************************************************)
EXTENDS SessionManager, TLC

Symmetry ==
  Permutations(Interfaces) \cup Permutations(Logins) \cup Permutations(Servers)
    \cup Permutations(Chains)
=============================================================================
