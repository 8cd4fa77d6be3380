-------------------------- MODULE ThreadOwnership ---------------------------
(***************************************************************************)
(* What rcp::Thread promises on every platform: a system thread belongs to *)
(* at most one Thread object, and as long as it does the system keeps its  *)
(* id, so that joining, detaching or terminating the object always reaches *)
(* the thread the object was built for.  How handles, ids, constructors    *)
(* and kills bring this about is left to ThreadWin and ThreadMac.          *)
(***************************************************************************)
CONSTANTS Obj, Slot, None

VARIABLES
  own,      \* [Obj]  the thread the object owns, or None
  thread    \* [Slot] "free" id, "live" thread, "ended" but kept by the system

vars == <<own, thread>>

Owned == {own[o] : o \in Obj} \ {None}

Init ==
  /\ own = [o \in Obj |-> None]
  /\ thread = [t \in Slot |-> "free"]

(* The system starts a thread; no object owns it yet. *)
Start(t) ==
  /\ thread[t] = "free"
  /\ thread' = [thread EXCEPT ![t] = "live"]
  /\ UNCHANGED own

(* A constructor takes a started thread that nobody owns. *)
Take(o, t) ==
  /\ own[o] = None
  /\ thread[t] # "free"
  /\ t \notin Owned
  /\ own' = [own EXCEPT ![o] = t]
  /\ UNCHANGED thread

(* Threads end by themselves, are terminated, or end with the process.     *)
(* The system keeps those that are owned and may forget the others.        *)
End(S) ==
  /\ \A t \in S : thread[t] = "live"
  /\ \E F \in SUBSET (S \ Owned) :
       thread' = [t \in Slot |-> IF t \in F THEN "free"
                                 ELSE IF t \in S THEN "ended" ELSE thread[t]]
  /\ UNCHANGED own

(* join() has waited for the thread, or terminate() has ended it. *)
Join(o) ==
  /\ own[o] # None
  /\ thread[own[o]] = "ended"
  /\ own' = [own EXCEPT ![o] = None]
  /\ thread' = [thread EXCEPT ![own[o]] = "free"]

(* detach(): a live thread goes on without an owner. *)
Detach(o) ==
  /\ own[o] # None
  /\ own' = [own EXCEPT ![o] = None]
  /\ thread' = [thread EXCEPT ![own[o]] = IF @ = "live" THEN "live" ELSE "free"]

(* Move construction, move assignment and swap. *)
Exchange(o, p) ==
  /\ own' = [own EXCEPT ![o] = own[p], ![p] = own[o]]
  /\ UNCHANGED thread

Next ==
  \/ \E t \in Slot : Start(t)
  \/ \E o \in Obj, t \in Slot : Take(o, t)
  \/ \E S \in SUBSET Slot : End(S)
  \/ \E o \in Obj : Join(o) \/ Detach(o)
  \/ \E o, p \in Obj : Exchange(o, p)

Spec == Init /\ [][Next]_vars

-----------------------------------------------------------------------------
(* Every variable holds a value of its type. *)
TypeOK ==
  /\ own \in [Obj -> Slot \cup {None}]
  /\ thread \in [Slot -> {"free", "live", "ended"}]

(* A thread has at most one owner, and an owned thread's id is not free to *)
(* be given to another thread.                                             *)
SoleOwner ==
  /\ \A o, p \in Obj : o # p /\ own[o] # None => own[o] # own[p]
  /\ \A o \in Obj : own[o] # None => thread[own[o]] # "free"
=============================================================================
