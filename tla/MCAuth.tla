-------------------------------- MODULE MCAuth --------------------------------
(* Credentials and Bootstrap on a small instance. *)
EXTENDS Credentials, TLC

Symm == Permutations(Replicas) \cup Permutations(Setups) \cup Permutations(Orgs)
          \cup Permutations(Passwords) \cup Permutations(Reqs)
==============================================================================
