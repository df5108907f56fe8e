---------------------------- MODULE MCMembership ----------------------------
(* Three persons, one of whom logs in through the identity provider. *)
EXTENDS Membership, TLC
CONSTANTS p1, p2, p3, r1, r2
MCPersons == {p1, p2, p3}
MCSsoPersons == {p3}
MCReqs == {r1, r2}
MCSymmetry == Permutations({p1, p2}) \cup Permutations(MCReqs)
=============================================================================
