----------------------------- MODULE MCScanSync -----------------------------
(* No Redis: scans are POST /scan requests that the caller waits for. *)
EXTENDS ScanLifecycle, TLC
CONSTANTS a1, a2, t1, r1, r2, e1, e2
MCAccounts == {a1}
MCTwoAccounts == {a1, a2}
MCTriggers == {t1}
MCRequest == {r1}
MCRequests == {r1, r2}
MCEditors == {e1, e2}
EditorSymmetry == Permutations(MCEditors)
=============================================================================
