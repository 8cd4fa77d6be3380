------------------------------ MODULE MCSysEnv ------------------------------
(* A small instance of SysEnv for TLC: one thread writes two variables,    *)
(* another reads them; values shrink, grow, are empty, hold a Nul, start   *)
(* with one, or are too long.                                              *)
EXTENDS SysEnv, TLC

CONSTANTS t1, t2, x1, x2, a, NUL

MCTooLong == {<<a, a, a>>}
MCArg     == {<<>>, <<a, a>>, <<a, NUL, a>>, <<NUL, a>>} \cup MCTooLong
MCDefVal  == {<<a, a>>}
MCOwner   == (x1 :> t1) @@ (x2 :> t1)

(* Both variables have the same owner and can be exchanged; the properties *)
(* are about states and steps only.                                        *)
MCSymmetry == Permutations({x1, x2})
=============================================================================
