------------------------------ MODULE MCWorker ------------------------------
(* A small instance of Worker for TLC.  No step of it depends on how the   *)
(* arguments were passed: only threads that own theirs are looked at.  The *)
(* constraint cuts off no step that fairness is about.                     *)
EXTENDS Worker

CONSTANTS t1, t2, o1, h1, v1

OwnedArguments == \A o \in Obj : ctor[o].arguments = "owned"
=============================================================================
