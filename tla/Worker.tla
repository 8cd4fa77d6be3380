------------------------------- MODULE Worker -------------------------------
(***************************************************************************)
(* rcp::Thread and rcp::PromiseEx at work together, on Windows: the main   *)
(* thread gives a promise to the function of the first Thread that it      *)
(* makes, keeps what native_handle() returns, and calls                    *)
(* promise.get( handle ) at some time: while the worker runs, after it has *)
(* joined, detached or terminated it, or after the value of the handle has *)
(* gone to another of its threads.                                         *)
(*                                                                         *)
(* A step is a step of ThreadWin or one inside promise_ex_win.h.  Here the *)
(* waits of get() are for what the kernel's table has at the handle, not   *)
(* for the worker and the handle that PromiseEx assumes: the refinement at *)
(* the end says what those two are to the kernel.                          *)
(***************************************************************************)
EXTENDS ThreadWin

CONSTANTS Value, Zero   \* as in PromiseEx

ASSUME WorkerAssumption ==
  /\ Zero \notin Value
  /\ (Value \cup {Zero}) \cap {"none", "exception", "error", "terminated"} = {}

VARIABLES
  nativeHandle,  \* what native_handle() returned, None before there is a
                 \* worker
  job,           \* the id of the worker, the thread that has the promise
  over, lost,    \* history: the worker has ended; the value of its handle
                 \* has stopped denoting it
  m_val, m_exception, ready,  \* the promise, as in PromiseEx
  get,           \* where the call of get() is; "misled" is a wait that has
                 \* begun when the handle was lost
  awaited,       \* the thread that this wait is for, None once it has ended
  outcome        \* what the call returned or threw

memory     == <<m_val, m_exception, ready>>
getVars    == <<get, awaited, outcome>>
workerVars == <<nativeHandle, job, over, lost>>
allVars    == <<vars, memory, getVars, workerVars>>

WorkerInit ==
  /\ Init
  /\ nativeHandle = None /\ job = None /\ over = FALSE /\ lost = FALSE
  /\ m_val = Zero /\ m_exception = FALSE /\ ready = FALSE
  /\ get = "idle" /\ awaited = None /\ outcome = "none"

-----------------------------------------------------------------------------
(* What a step of the threads means for the worker: its id, the value of   *)
(* its handle and the object a wait is for may be somebody else's once the *)
(* system has been given them back.                                        *)
Observed ==
  /\ IF nativeHandle # None
       THEN /\ over' = (over \/ job \notin running')
            /\ lost' = (lost \/ kernel'[nativeHandle] # job)
            /\ UNCHANGED <<nativeHandle, job>>
       ELSE /\ \/ running' = {} /\ UNCHANGED <<nativeHandle, job>>
               \/ \E h \in Handle : /\ kernel'[h] \in running'
                                    /\ nativeHandle' = h
                                    /\ job' = kernel'[h]
            /\ UNCHANGED <<over, lost>>
  /\ awaited' = IF awaited \in running' THEN awaited ELSE None
  /\ UNCHANGED <<memory, get, outcome>>

(* The thread is inside PromiseEx: it does nothing else. *)
Inside(a, label) ==
  /\ at' = [at EXCEPT ![a] = label]
  /\ UNCHANGED <<objVars, on, callVars, sysVars, crash, workerVars>>

-----------------------------------------------------------------------------
(* The worker's function, which fulfils the promise at most once.          *)
AtWork(label) == nativeHandle # None /\ ~over /\ at[job] = label

Unfulfilled == m_val = Zero /\ ~m_exception

(* set(): the store, *)
SetValue(v) ==
  /\ AtWork("idle")
  /\ Unfulfilled
  /\ m_val' = v
  /\ Inside(job, "set_value")
  /\ UNCHANGED <<m_exception, ready, getVars>>

(* ... and m_event.Set(). *)
Signal ==
  /\ AtWork("set_value")
  /\ ready' = TRUE
  /\ Inside(job, "idle")
  /\ UNCHANGED <<m_val, m_exception, getVars>>

SetException ==
  /\ AtWork("idle")
  /\ Unfulfilled
  /\ m_exception' = TRUE
  /\ Inside(job, "idle")
  /\ UNCHANGED <<m_val, ready, getVars>>

-----------------------------------------------------------------------------
(* promise.get( handle ) on the main thread.                               *)

GoesOn(label) ==
  /\ get' = label
  /\ Inside(Main, "get")
  /\ UNCHANGED outcome

Returns(r) ==
  /\ get' = "done"
  /\ outcome' = r
  /\ Inside(Main, "idle")

CheckException ==
  /\ Idle(Main)
  /\ nativeHandle # None
  /\ get = "idle"
  /\ IF m_exception THEN Returns("exception") ELSE GoesOn("checked")
  /\ UNCHANGED <<memory, awaited>>

(* WaitForMultipleObjects() takes the handle's value for whatever it       *)
(* denotes by now, and keeps to that, or fails.                            *)
BeginWait ==
  /\ at[Main] = "get"
  /\ get = "checked"
  /\ IF Open(nativeHandle)
       THEN /\ GoesOn(IF lost THEN "misled" ELSE "waiting")
            /\ awaited' = IF Signaled(nativeHandle) THEN None
                                                    ELSE kernel[nativeHandle]
       ELSE GoesOn("failed") /\ UNCHANGED awaited
  /\ UNCHANGED memory

(* The second look, with a timeout of 0. *)
LookAgain ==
  /\ at[Main] = "get"
  /\ get = "failed"
  /\ Returns(IF Signaled(nativeHandle) THEN "error" ELSE "terminated")
  /\ UNCHANGED <<memory, awaited>>

Waiting == at[Main] = "get" /\ get \in {"waiting", "misled"}

(* WAIT_OBJECT_0: the event, which resets itself. *)
Woken ==
  /\ Waiting
  /\ ready
  /\ ready' = FALSE
  /\ GoesOn("woken")
  /\ UNCHANGED <<m_val, m_exception, awaited>>

(* Mutant: the thread's handle comes first in the array. *)
TerminatedFirst ==
  /\ Waiting
  /\ awaited = None
  /\ Returns("terminated")
  /\ UNCHANGED <<memory, awaited>>

(* Mutant: bWaitAll is TRUE. *)
TerminatedWaitAll ==
  /\ Waiting
  /\ awaited = None
  /\ ready
  /\ Returns("terminated")
  /\ UNCHANGED <<memory, awaited>>

(* WAIT_OBJECT_0 + 1: the thread has ended, and the event is not set. *)
Terminated ==
  /\ Waiting
  /\ awaited = None
  /\ ~ready
  /\ Returns("terminated")
  /\ UNCHANGED <<memory, awaited>>

ReadValue ==
  /\ at[Main] = "get"
  /\ get = "woken"
  /\ Returns(m_val)
  /\ UNCHANGED <<memory, awaited>>

GetGoesOn == BeginWait \/ LookAgain \/ Woken \/ Terminated \/ ReadValue

WorkerNext ==
  \/ Next /\ Observed
  \/ \E v \in Value : SetValue(v)
  \/ Signal \/ SetException \/ CheckException \/ GetGoesOn

(* Fairness: that of ThreadWin, and a thread inside PromiseEx goes on.     *)
(* Nothing obliges the worker to fulfil the promise.                       *)
WorkerSpec ==
  /\ WorkerInit
  /\ [][WorkerNext]_allVars
  /\ \A t \in Slot : WF_allVars(ThreadStep(t) /\ Observed)
  /\ \A a \in Actor : WF_allVars(BlockedStep(a) /\ Observed)
  /\ WF_allVars(Signal)
  /\ WF_allVars(GetGoesOn)

-----------------------------------------------------------------------------
(* Refinement.  The value has been taken by the call that the event woke;  *)
(* the worker is inside set_value() while what it has stored is nowhere to *)
(* be seen; and its handle is what the kernel says of the value.           *)
Taken == get = "woken" \/ outcome \in Value \cup {Zero}

WorkerView ==
  IF over THEN "ended"
  ELSE IF m_val # Zero /\ ~ready /\ ~Taken THEN "storing" ELSE "running"

HandleView ==
  IF ~lost THEN "open"
  ELSE IF kernel[nativeHandle] = None THEN "closed" ELSE "reused"

P == INSTANCE PromiseEx
       WITH Getter <- {Main}, Builds <- {"win"}, build <- "win",
            taker <- IF Taken THEN Main ELSE None,
            worker <- WorkerView, handle <- HandleView,
            at <- [g \in {Main} |-> get],
            outcome <- [g \in {Main} |-> outcome]

(* Every step of the kernel and of get() is one that PromiseEx allows: a   *)
(* wait that says "thread terminated" means the worker's own end as long   *)
(* as it began before the handle was lost, and a handle is never used      *)
(* again without having been closed, whatever becomes of the Thread object *)
(* (promise_ex_win.h:50-99, thread_win.cpp:63-114).                        *)
ImplementsPromiseEx == P!Init /\ [][P!Next]_(P!vars)

(* promise_ex.h:17-20: a get() on the handle of a Thread returns or throws *)
(* even if the worker never fulfils the promise, is terminated or falls to *)
(* ExitProcess, and also on a handle that belongs to another of the        *)
(* caller's threads by then; unless the process crashes meanwhile.         *)
GetAnswers == at[Main] = "get" ~> at[Main] # "get"
=============================================================================
