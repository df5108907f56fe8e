---------------------------- MODULE MCScanRedis ----------------------------
(* One account behind the Redis queue: one API scan slot, one worker. *)
EXTENDS ScanLifecycle, TLC
CONSTANTS a1, t1, w1, e1
MCAccounts == {a1}
MCTriggers == {t1}
MCWorkers == {w1}
MCEditors == {e1}
=============================================================================
