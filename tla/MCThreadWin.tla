---------------------------- MODULE MCThreadWin -----------------------------
(* Small instances of ThreadWin for TLC. *)
EXTENDS ThreadWin, TLC

CONSTANTS o1, o2, t1, t2, h1, h2

SafetySymmetry == Permutations({o1, o2}) \cup Permutations({t1, t2})
                    \cup Permutations({h1, h2})
=============================================================================
