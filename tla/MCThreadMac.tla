---------------------------- MODULE MCThreadMac -----------------------------
(* A small instance of ThreadMac for TLC. *)
EXTENDS ThreadMac

CONSTANTS o1, o2, t1, t2
=============================================================================
