---------------------------- MODULE MCEditLock ----------------------------
(* Instances of EditLock for model checking. *)
EXTENDS EditLock, TLC

\* Clients are alike.
ClientSymmetry == Permutations(Clients)
=============================================================================
