------------------------------ MODULE MCSsoLogin ------------------------------
(* Two organizations' connections, which claim the same domain; one login,    *)
(* whose callback is delivered twice.                                         *)
EXTENDS SsoLogin, TLC
CONSTANTS c1, c2, i1, i2, d1, d2, t1, k1, k2
MCConnOf == d1 :> c1 @@ d2 :> c2
MCNameOf == d1 :> "acme" @@ d2 :> "acme"
\* The two organizations may be exchanged, with all that is theirs.
MCSymmetry == Permutations({k1, k2}) \cup Permutations({i1, i2})
              \cup {(c1 :> c2 @@ c2 :> c1 @@ d1 :> d2 @@ d2 :> d1)}
=============================================================================
