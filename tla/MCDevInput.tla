---------------------------- MODULE MCDevInput ----------------------------
(* Instances of DevInput for TLC; the .cfg files give the constants. *)
EXTENDS DevInput, TLC

ClientSymmetry == Permutations(Clients)
=============================================================================
