----------------------------- MODULE MCFindings -----------------------------
(* Two accounts of the same AWS resource, two scans, one channel. *)
EXTENDS Findings, TLC
CONSTANTS a1, a2, r1, c1, s1, s2
MCAccounts == {a1, a2}
MCResources == {r1}
MCChannels == {c1}
MCScans == {s1, s2}
MCSymmetry == Permutations(MCAccounts) \cup Permutations(MCScans)
MCViews == {MCAccounts}
MCGate == c1 :> 1
=============================================================================
