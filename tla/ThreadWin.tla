----------------------------- MODULE ThreadWin ------------------------------
(***************************************************************************)
(* rcp::Thread on Windows: src/threads/win/thread_win.cpp on top of the    *)
(* shared part, with CloseHandleAndCheck of src/win/win_common.cpp.        *)
(*                                                                         *)
(* The kernel is external: a table of open handles to thread objects.  A   *)
(* thread object is signalled once its thread has ended, and its id is     *)
(* used again only when no handle to it is open; closed handle values are  *)
(* used again at once.                                                     *)
(***************************************************************************)
EXTENDS Thread

CONSTANT ClientCloses   \* may a client close what native_handle() returned?

ASSUME WinAssumption == ClientCloses \in BOOLEAN

Init == CommonInit /\ kernel = [h \in Handle |-> None]

Open(h)     == h # None /\ kernel[h] # None
Signaled(h) == Open(h) /\ kernel[h] \notin running

-----------------------------------------------------------------------------
(* ::CreateThread succeeds with a fresh id and a fresh handle. *)
CreateThread(a) ==
  \E t \in Slot \ running, h \in Handle :
    /\ ~Open(h)
    /\ \A g \in Handle : kernel[g] # t
    /\ Created(a, t, h)
    /\ kernel' = [kernel EXCEPT ![h] = t]

(* CloseHandleAndCheck( m_handle ) where it returns: it throws, changing   *)
(* nothing, when the handle is not open.                                   *)
CloseHandleAndCheck(o) ==
  /\ Open(m_handle[o])
  /\ kernel' = [kernel EXCEPT ![m_handle[o]] = None]

(* Mutant: the wait has a timeout and its result is not looked at. *)
WaitTimesOut(a) ==
  /\ at[a] = "join"
  /\ Goto(a, "waited", on[a])
  /\ UNCHANGED <<objVars, callVars, sysVars, crash>>

(* joinImpl(): waitForThread() sees the thread end and returns. *)
WaitForThread(a) ==
  /\ at[a] = "join"
  /\ Signaled(m_handle[on[a]])
  /\ Goto(a, "waited", on[a])
  /\ UNCHANGED <<objVars, callVars, sysVars, crash>>

(* WAIT_FAILED: the handle is not open.  waitForThread() will look again. *)
WaitFails(a) ==
  /\ at[a] = "join"
  /\ ~Open(m_handle[on[a]])
  /\ Goto(a, "recheck", on[a])
  /\ UNCHANGED <<objVars, callVars, sysVars, crash>>

(* The second wait, with a timeout of 0.  WAIT_OBJECT_0: waitForThread()   *)
(* throws and leaves the members as they are.  Otherwise it takes the      *)
(* thread for one that does not exist and returns.                         *)
Recheck(a) ==
  LET o == on[a] IN
  /\ at[a] = "recheck"
  /\ IF Signaled(m_handle[o]) THEN Goto(a, "idle", None) ELSE Goto(a, "missing", o)
  /\ UNCHANGED <<objVars, callVars, sysVars, crash>>

(* Mutant: a failing CloseHandle() does not throw. *)
CloseUnchecked(a) ==
  LET o == on[a]  h == m_handle[o] IN
  /\ at[a] \in {"waited", "missing", "terminated"}
  /\ kernel' = [g \in Handle |-> IF g = h THEN None ELSE kernel[g]]
  /\ ResetHandleAndId(o)
  /\ Goto(a, "idle", None)
  /\ UNCHANGED <<life, ctor, callVars, running, crash>>

(* The rest of join() and terminate(): CloseHandleAndCheck() closes        *)
(* whatever the handle value refers to by now and the members are reset,   *)
(* or it throws, because the value refers to nothing, and leaves them.     *)
CloseAndReset(a) ==
  LET o == on[a] IN
  /\ at[a] \in {"waited", "missing", "terminated"}
  /\ IF Open(m_handle[o])
       THEN CloseHandleAndCheck(o) /\ ResetHandleAndId(o)
       ELSE UNCHANGED <<kernel, m_handle, m_id>>
  /\ Goto(a, "idle", None)
  /\ UNCHANGED <<life, ctor, callVars, running, crash>>

(* Mutant: the members are reset but the handle is not closed. *)
DetachWithoutClose(a, o) ==
  /\ Idle(a)
  /\ MayCall(a, o)
  /\ joinable(o)
  /\ ResetHandleAndId(o)
  /\ UNCHANGED <<life, ctor, actorVars, callVars, sysVars, crash>>

(* detach(): throws, changing nothing, when the handle is not open. *)
Detach(a, o) ==
  /\ Idle(a)
  /\ MayCall(a, o)
  /\ joinable(o)
  /\ CloseHandleAndCheck(o)
  /\ ResetHandleAndId(o)
  /\ UNCHANGED <<life, ctor, actorVars, callVars, running, crash>>

(* terminate(): throws, changing nothing, when TerminateThread() fails. A  *)
(* thread that terminates itself never gets to closing the handle.         *)
Terminate(a, o) ==
  /\ Idle(a)
  /\ MayCall(a, o)
  /\ joinable(o)
  /\ Open(m_handle[o])
  /\ Kill({kernel[m_handle[o]]} \cap running, a, "terminated", o)
  /\ UNCHANGED <<objVars, promise, args, crash, kernel>>

(* threadProc returns: the thread object becomes signalled. *)
ExitThread(t) ==
  /\ at[t] = "leaving"
  /\ running' = running \ {t}
  /\ Goto(t, "absent", None)
  /\ UNCHANGED <<objVars, callVars, crash, kernel>>

(* ::ExitProcess called by a client: every other thread is ended, then     *)
(* destructors run on the calling one.                                     *)
ExitProcess(a) ==
  /\ Idle(a)
  /\ Kill(Actor \ {a}, a, "idle", None)
  /\ UNCHANGED <<objVars, promise, args, crash, kernel>>

(* A client closes the "full handle" that native_handle() gave it. *)
ClientClosesHandle(o) ==
  /\ ClientCloses
  /\ crash = "none"
  /\ life[o] = "alive"
  /\ Open(m_handle[o])
  /\ kernel' = [kernel EXCEPT ![m_handle[o]] = None]
  /\ UNCHANGED <<objVars, actorVars, callVars, running, crash>>

Next ==
  \/ CommonNext
  \/ \E a \in Actor : \/ CreateThread(a)
                      \/ WaitForThread(a)
                      \/ WaitFails(a)
                      \/ Recheck(a)
                      \/ CloseAndReset(a)
                      \/ ExitProcess(a)
  \/ \E a \in Actor, o \in Obj : Detach(a, o) \/ Terminate(a, o)
  \/ \E t \in Slot : ExitThread(t)
  \/ \E o \in Obj : ClientClosesHandle(o)

Spec == Init /\ [][Next]_vars

-----------------------------------------------------------------------------
(* Every variable holds a value of its type. *)
TypeOK == CommonTypeOK /\ kernel \in [Handle -> Slot \cup {None}]

(* The thread that object o answers for. *)
Target(o) == IF joinable(o) THEN kernel[m_handle[o]] ELSE None

(* No two objects ever hold the same handle, so no thread is joined,       *)
(* detached or terminated through two of them, whatever is moved, swapped, *)
(* or cut short by a kill while it blocks (thread.cpp:24-27, 44-91).       *)
OwnershipExclusive ==
  \A o, p \in Obj : o # p /\ Holds(o) # None => Holds(o) # Holds(p)

(* A joinable object that is ready for use holds an open handle, and its   *)
(* m_id is the id of the thread behind that handle: the pair never splits, *)
(* and the id cannot have been given to another thread.                    *)
HandleMatchesId ==
  \A o \in Obj : life[o] = "alive" /\ joinable(o) =>
    /\ Open(m_handle[o])
    /\ m_id[o] = kernel[m_handle[o]]

(* Every open handle is held by an object, or by a constructor that is     *)
(* still running or was cut short by a kill: no operation leaks one.       *)
NoHandleLeak ==
  \A h \in Handle : Open(h) =>
    \E o \in Obj : Holds(o) = h

(* thread.cpp:48-51 crashes instead of waiting for itself forever: no      *)
(* thread blocks in the join of an object that is its own, whatever moved, *)
(* swapped or rebuilt the object since the thread was started.             *)
NoSelfWait ==
  \A a \in Slot : at[a] = "join" => Target(on[a]) # a

(* ... and crashes only if the thread really is the caller: an id that was *)
(* used again never makes a legal join look like a self-join.              *)
SelfJoinCrashIsReal ==
  crash = "selfJoin" =>
    \E a \in Slot : on[a] # None /\ Target(on[a]) = a

(* While a thread may still run the Callable, nobody has deleted it, in    *)
(* spite of the pointer crossing threads raw (thread_win.cpp:95-111).      *)
CallableAliveWhileUsed ==
  crash = "none" =>
    \A t \in running : at[t] # "leaving" => callable[t] = "alive"

(* A thread that has ended has had its Callable deleted, unless it was     *)
(* killed: nothing is leaked on the normal path.                           *)
CallableNotLeaked ==
  \A t \in Slot : callable[t] = "alive" => t \in running

(* The promise outlives both sides: the thread inside set_value() and the  *)
(* constructor in get_future().get() each keep it alive (thread.h:101-113).*)
PromiseAliveWhileUsed ==
  /\ \A t \in Slot : at[t] = "signal" => "callable" \in promise[t].refs
  /\ \A a \in Actor : at[a] = "await" =>
       "ctor" \in promise[ctor[on[a]].id].refs

(* A step in which join() or terminate() returns normally. *)
EndingStep ==
  \A a \in Actor :
    at[a] \in EndingLabel /\ at'[a] = "idle" /\ m_handle'[on[a]] = None =>
      /\ Target(on[a]) \notin running
      /\ \A t \in Slot : t = Target(on[a]) => callable[t] # "alive"

(* Where nobody else closes the handle: a join or a terminate that returns *)
(* normally, on whichever way through waitForThread(), leaves no thread    *)
(* behind it.  It has ended, whatever other threads did between the wait   *)
(* and the closing of the handle, and its Callable is not in use.          *)
JoinWaits == [][EndingStep]_vars

(* A step that touches the handles objects hold.  An object that loses its *)
(* handle has passed the pair on whole to another object, or has just      *)
(* closed the handle and lost its id with it.                              *)
GiveUpStep ==
  \A o \in Obj : joinable(o) /\ m_handle'[o] # m_handle[o] =>
    \/ \E p \in Obj \ {o} : /\ m_handle'[p] = m_handle[o] /\ m_id'[p] = m_id[o]
                             /\ kernel' = kernel
    \/ /\ Open(m_handle[o]) /\ kernel'[m_handle[o]] = None
       /\ m_handle'[o] = None /\ m_id'[o] = None

(* A step in which join() or terminate() returns, or ends in an exception: *)
(* the first has closed the handle, the second has changed nothing.        *)
AllOrNothing ==
  \A a \in Actor : at[a] \in EndingLabel /\ at'[a] = "idle" =>
    (m_handle'[on[a]] = None <=> kernel' # kernel)

(* An ending that fails half way, because somebody else has closed the     *)
(* handle before the wait, between the wait or TerminateThread() and       *)
(* CloseHandle(), or at any other point, leaves the object joinable with   *)
(* the pair it had; one that returns has closed what the object held.      *)
GivenUpOnlyWhenClosed == [][GiveUpStep /\ AllOrNothing]_vars

(* thread_win.cpp:34-35: WAIT_FAILED means that the thread does not exist, *)
(* and a join that finds this out returns with nothing left to join.       *)
JoinToleratesMissingThread ==
  [][\A a \in Actor :
       at[a] = "missing" /\ at'[a] = "idle" /\ ~Open(m_handle[on[a]])
         => m_handle'[on[a]] = None]_vars

(* thread.h:13: the interface is that of std::thread, whose constructor    *)
(* copies its arguments, so that nothing the new thread's function reads   *)
(* depends on the life of the caller's objects.                            *)
ArgumentsOutliveCall ==
  \A t \in running : callable[t] = "alive" => args[t] # "dead"

-----------------------------------------------------------------------------
(* Fairness: the system schedules every thread, functions given to a       *)
(* Thread return, and a thread inside a constructor or a join goes on as   *)
(* soon as it can.  Nothing obliges a client to start an operation.        *)
ThreadStep(t) ==
  Execute(t) \/ SetValueReturns(t) \/ Apply(t) \/ BodyReturns(t) \/ ExitThread(t)

BlockedStep(a) ==
  \/ CreateFails(a) \/ CreateThread(a)
  \/ Release(a) \/ TieHandle(a) \/ TieId(a) \/ Await(a)
  \/ WaitForThread(a) \/ WaitFails(a) \/ Recheck(a) \/ CloseAndReset(a)

FairSpec ==
  /\ Spec
  /\ \A t \in Slot : WF_vars(ThreadStep(t))
  /\ \A a \in Actor : WF_vars(BlockedStep(a))

(* A constructor with StartStrategy::Wait is never left waiting for a      *)
(* promise that nobody keeps.                                              *)
ConstructorReturns ==
  \A a \in Actor : at[a] \in CtorLabel ~> at[a] \notin CtorLabel

(* Where only the main thread uses Thread objects, and so cannot be part   *)
(* of a circle of joins, what it started returns: the wait of join() ends  *)
(* and so do the steps that join() and terminate() have after it.          *)
EndingReturns ==
  \A a \in Actor : at[a] \in EndingLabel ~> at[a] \notin EndingLabel

(* Refinement: an object owns the thread behind its handle, and the system *)
(* keeps a thread as long as it runs or a handle to it is open.            *)
ThreadView ==
  [t \in Slot |-> IF t \in running THEN "live"
                  ELSE IF \E h \in Handle : kernel[h] = t THEN "ended"
                  ELSE "free"]

Ownership == INSTANCE ThreadOwnership
               WITH own <- [o \in Obj |-> Target(o)], thread <- ThreadView

(* ThreadWin implements ThreadOwnership. *)
ImplementsOwnership == Ownership!Spec
=============================================================================
