----------------------------- MODULE ThreadMac ------------------------------
(***************************************************************************)
(* rcp::Thread on macOS: src/threads/mac/thread_mac.cpp on top of the      *)
(* shared part.  A pthread_t is at once the native handle and the id; the  *)
(* pthread library, which is external, frees it when the thread has ended  *)
(* and has been joined or detached.  What the pthread functions return is  *)
(* ignored by the code, so a failing call is a call that does nothing.     *)
(***************************************************************************)
EXTENDS Thread

CONSTANT HangupFatal   \* is SIGHUP left at its default, ending the process?

ASSUME MacAssumption == Handle = Slot /\ HangupFatal \in BOOLEAN

Init == CommonInit /\ kernel = [t \in Slot |-> "free"]

-----------------------------------------------------------------------------
(* ::pthread_create succeeds. *)
CreateThread(a) ==
  \E t \in Slot :
    /\ kernel[t] = "free"
    /\ Created(a, t, t)
    /\ kernel' = [kernel EXCEPT ![t] = "joinable"]

(* Mutant: ::pthread_join is not called. *)
JoinImplSkipped(a) ==
  LET o == on[a]  t == m_handle[o] IN
  /\ at[a] = "join"
  /\ ResetHandleAndId(o)
  /\ Goto(a, "idle", None)
  /\ UNCHANGED <<life, ctor, callVars, sysVars, crash>>

(* joinImpl(): ::pthread_join blocks until the thread has ended and frees  *)
(* it; on the calling thread itself it fails with EDEADLK, and on one that *)
(* is not joinable with EINVAL or ESRCH.  The members are reset regardless.*)
JoinImpl(a) ==
  LET o == on[a]  t == m_handle[o] IN
  /\ at[a] = "join"
  /\ \/ /\ t # a
        /\ kernel[t] = "joinable"
        /\ t \notin running
        /\ kernel' = [kernel EXCEPT ![t] = "free"]
     \/ /\ t = a \/ kernel[t] # "joinable"
        /\ UNCHANGED kernel
  /\ ResetHandleAndId(o)
  /\ Goto(a, "idle", None)
  /\ UNCHANGED <<life, ctor, callVars, running, crash>>

(* Mutant: ::pthread_detach is not called. *)
DetachForgotten(a, o) ==
  /\ Idle(a)
  /\ MayCall(a, o)
  /\ joinable(o)
  /\ ResetHandleAndId(o)
  /\ UNCHANGED <<life, ctor, actorVars, callVars, sysVars, crash>>

(* detach(): ::pthread_detach frees a thread that has ended already. *)
Detach(a, o) ==
  LET t == m_handle[o] IN
  /\ Idle(a)
  /\ MayCall(a, o)
  /\ joinable(o)
  /\ kernel' = [kernel EXCEPT ![t] =
       IF @ # "joinable" THEN @ ELSE IF t \in running THEN "detached" ELSE "free"]
  /\ ResetHandleAndId(o)
  /\ UNCHANGED <<life, ctor, actorVars, callVars, running, crash>>

(* terminate(): ::pthread_kill( m_handle, EXIT_FAILURE ) sends signal 1,   *)
(* SIGHUP.  Its default action ends the process; with a handler nothing    *)
(* happens to the thread, and joinImpl() waits for it to end by itself.    *)
Terminate(a, o) ==
  /\ Idle(a)
  /\ MayCall(a, o)
  /\ joinable(o)
  /\ IF HangupFatal /\ m_handle[o] \in running
       THEN ForceCrash(a, o, "hangup")
       ELSE /\ Goto(a, "join", o)
            /\ UNCHANGED <<objVars, callVars, running, crash>>
  /\ UNCHANGED kernel

(* threadProc returns; a detached thread is freed at once. *)
ExitThread(t) ==
  /\ at[t] = "leaving"
  /\ running' = running \ {t}
  /\ kernel' = [kernel EXCEPT ![t] = IF @ = "detached" THEN "free" ELSE @]
  /\ Goto(t, "absent", None)
  /\ UNCHANGED <<objVars, callVars, crash>>

Next ==
  \/ CommonNext
  \/ \E a \in Actor : CreateThread(a) \/ JoinImpl(a)
  \/ \E a \in Actor, o \in Obj : Detach(a, o) \/ Terminate(a, o)
  \/ \E t \in Slot : ExitThread(t)

Spec == Init /\ [][Next]_vars

-----------------------------------------------------------------------------
(* Every variable holds a value of its type. *)
TypeOK ==
  /\ CommonTypeOK
  /\ kernel \in [Slot -> {"free", "joinable", "detached"}]

(* No two objects hold the same pthread, so ::pthread_join is never called *)
(* twice on it, and whatever is held has been neither joined nor detached: *)
(* the calls whose results thread_mac.cpp:40-56 ignores cannot fail but    *)
(* for a thread that acts on itself.                                       *)
HeldIsJoinable ==
  \A o \in Obj : Holds(o) # None =>
    /\ kernel[Holds(o)] = "joinable"
    /\ \A p \in Obj \ {o} : Holds(p) # Holds(o)

(* Every pthread that still has to be joined or detached is in the reach   *)
(* of an object, or of the constructor that is making it.                  *)
NoPthreadLeak ==
  \A t \in Slot : kernel[t] = "joinable" => \E o \in Obj : Holds(o) = t

(* A step out of the wait of a join. *)
JoinStep ==
  \A a \in Actor : at[a] = "join" /\ at'[a] = "idle" =>
    LET t == m_handle[on[a]] IN
      t # a => t \in Slot \ running /\ callable[t] = "deleted"

(* join() returns, and so does terminate() when SIGHUP is handled, only    *)
(* after the other thread has ended and its Callable has been deleted.     *)
JoinWaits == [][JoinStep]_vars

(* Fairness: the system schedules every thread; a function given to a      *)
(* Thread returns, if only it is not busy with a join each time one looks  *)
(* (hence SF); a constructor or a join goes on as soon as it can.          *)
FairSpec ==
  /\ Spec
  /\ \A t \in Slot :
       /\ WF_vars(Execute(t) \/ SetValueReturns(t) \/ Apply(t) \/ ExitThread(t))
       /\ SF_vars(BodyReturns(t))
  /\ \A a \in Actor :
       WF_vars(\/ CreateFails(a) \/ CreateThread(a) \/ Release(a) \/ TieHandle(a)
               \/ TieId(a) \/ Await(a) \/ JoinImpl(a))

(* a waits in a cycle of threads each of which joins the next. *)
Deadlocked(a) ==
  \E S \in SUBSET Actor :
    a \in S /\ \A b \in S : at[b] = "join" /\ m_handle[on[b]] \in S \ {b}

(* join() returns, from whichever thread it is called, unless threads wait *)
(* for each other in a cycle: the class makes nobody else wait for ever,   *)
(* and the cycle of length one, which thread.cpp:48 looks for, ends too,   *)
(* since ::pthread_join refuses it.                                        *)
JoinReturns ==
  \A a \in Actor : at[a] = "join" ~> at[a] # "join" \/ Deadlocked(a)

(* Refinement: the handle is the thread. *)
ThreadView ==
  [t \in Slot |-> IF kernel[t] = "free" THEN "free"
                  ELSE IF t \in running THEN "live" ELSE "ended"]

Ownership == INSTANCE ThreadOwnership WITH own <- m_handle, thread <- ThreadView

(* ThreadMac implements ThreadOwnership. *)
ImplementsOwnership == Ownership!Spec
=============================================================================
