----------------------------- MODULE MCSessions -----------------------------
(* One user and his sessions; two requests at a time. *)
EXTENDS Sessions, TLC
CONSTANTS u1, r1, r2, c1
MCUsers == {u1}
MCReqs == {r1, r2}
MCCaches == {c1}
MCExpiring == {2}
=============================================================================
