------------------------------- MODULE MCAudit -------------------------------
(* Two users, two requests that write, one walk through the log. *)
EXTENDS AuditTrail, TLC
CONSTANTS u1, u2, w1, w2
MCUsers == {u1, u2}
MCWriters == {w1, w2}
Symm == Permutations(MCUsers)
==============================================================================
