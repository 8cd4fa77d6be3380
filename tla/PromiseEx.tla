----------------------------- MODULE PromiseEx ------------------------------
(***************************************************************************)
(* rcp::PromiseEx: include/threads/promise_ex.h with its two builds,       *)
(* promise_ex_win.h (an auto-reset Event of win/sync.h next to a plain     *)
(* value) and promise_ex_std.h (std::promise).  One worker fulfils the     *)
(* promise at most once; any number of threads call get( threadHandle )    *)
(* with the worker's handle.  The worker can be ended at any point by      *)
(* TerminateThread or ExitProcess, which is what the class is for.         *)
(*                                                                         *)
(* The kernel's wait functions and std::promise are external.              *)
(***************************************************************************)
CONSTANTS
  Getter,   \* calls of get(), each on a thread of its own
  Value,    \* what set_value() may be given
  Zero,     \* what m_val holds before that
  None,     \* "no getter"
  Builds    \* the builds to consider, a subset of {"win", "std"}

ASSUME PromiseAssumption ==
  /\ Zero \notin Value
  /\ None \notin Getter
  /\ (Value \cup {Zero}) \cap {"none", "empty", "exception", "error",
                              "terminated", "future_error"} = {}
  /\ Builds \subseteq {"win", "std"}

VARIABLES
  build,        \* which header was compiled, never changes
  m_val,        \* member m_val; in the std build the future's value
  m_exception,  \* is an exception stored?
  ready,        \* is m_event signalled; is the future's state ready?
  taker,        \* the get() that consumed the event; the one that retrieved
                \* the future
  worker,       \* "running", "storing" (in set_value, before Set()), "ended"
  handle,       \* the worker's handle: "open", "closed", or "reused" if the
                \* value has become the handle of something else
  at,           \* [Getter] where the call is
  outcome       \* [Getter] what the call returned or threw

memory == <<m_val, m_exception, ready>>
vars   == <<build, m_val, m_exception, ready, taker, worker, handle, at, outcome>>

Outcome == Value \cup {Zero, "none", "exception", "terminated", "error",
                      "future_error"}

Init ==
  /\ build \in Builds
  /\ m_val = Zero
  /\ m_exception = FALSE
  /\ ready = FALSE
  /\ taker = None
  /\ worker = "running"
  /\ handle = "open"
  /\ at = [g \in Getter |-> "idle"]
  /\ outcome = [g \in Getter |-> "none"]

(* get() of g ends with r. *)
Finish(g, r) ==
  /\ at' = [at EXCEPT ![g] = "done"]
  /\ outcome' = [outcome EXCEPT ![g] = r]

Goto(g, label) ==
  /\ at' = [at EXCEPT ![g] = label]
  /\ UNCHANGED outcome

getters == <<at, outcome>>

-----------------------------------------------------------------------------
(* The worker.                                                             *)

Unfulfilled == worker = "running" /\ m_val = Zero /\ ~m_exception

(* Mutant: the event is set before the value is stored. *)
SetSignalsFirst(v) ==
  /\ Unfulfilled
  /\ build = "win"
  /\ ready' = TRUE
  /\ worker' = "storing"
  /\ UNCHANGED <<build, m_val, m_exception, taker, handle, getters>>

(* set_value().  In the Windows build this is the store to m_val only; in  *)
(* the std build the value and the readiness are published together.       *)
Set(v) ==
  /\ Unfulfilled
  /\ m_val' = v
  /\ IF build = "win" THEN worker' = "storing" /\ UNCHANGED ready
                      ELSE ready' = TRUE /\ UNCHANGED worker
  /\ UNCHANGED <<build, m_exception, taker, handle, getters>>

(* m_event.Set(). *)
Signal ==
  /\ worker = "storing"
  /\ ready' = TRUE
  /\ worker' = "running"
  /\ UNCHANGED <<build, m_val, m_exception, taker, handle, getters>>

(* set_exception().  The Windows build does not touch the event. *)
SetException ==
  /\ Unfulfilled
  /\ m_exception' = TRUE
  /\ ready' = (build = "std")
  /\ UNCHANGED <<build, m_val, taker, worker, handle, getters>>

(* The worker returns, or is terminated in the middle of set_value(). *)
WorkerEnds ==
  /\ worker # "ended"
  /\ worker' = "ended"
  /\ UNCHANGED <<build, memory, taker, handle, getters>>

(* Its handle is closed, by Thread::join(), detach(), or terminate() which *)
(* ends the worker as well; or whatever has the handle's value now is.     *)
CloseHandle ==
  /\ handle # "closed"
  /\ handle' = "closed"
  /\ worker' \in {worker, "ended"}
  /\ UNCHANGED <<build, memory, taker, getters>>

(* The system gives the value of the closed handle to another object. *)
ReuseHandle ==
  /\ handle = "closed"
  /\ handle' = "reused"
  /\ UNCHANGED <<build, memory, taker, worker, getters>>

(* ::ExitProcess called by the thread of g, which goes on to destructors   *)
(* that may still call get(), or by a thread that has nothing to do with   *)
(* the promise (None): every other thread ends where it stands.            *)
ExitProcess(g) ==
  /\ g # None => at[g] = "idle"
  /\ worker' = "ended"
  /\ at' = [x \in Getter |->
              IF x = g \/ at[x] = "done" THEN at[x] ELSE "killed"]
  /\ UNCHANGED <<build, memory, taker, handle, outcome>>

-----------------------------------------------------------------------------
(* get() in the Windows build.                                             *)

(* The only look at m_exception, before the wait. *)
CheckException(g) ==
  /\ build = "win"
  /\ at[g] = "idle"
  /\ IF m_exception THEN Finish(g, "exception") ELSE Goto(g, "checked")
  /\ UNCHANGED <<build, memory, taker, worker, handle>>

(* WaitForMultipleObjects( { m_event, threadHandle } ) begins.  It fails   *)
(* if the handle has been closed.  If the value is in use again the wait   *)
(* is for something else.  One that has begun keeps to the thread.         *)
BeginWait(g) ==
  /\ at[g] = "checked"
  /\ CASE handle = "open"   -> Goto(g, "waiting")
       [] handle = "reused" -> Goto(g, "misled")
       [] handle = "closed" -> Goto(g, "failed")
  /\ UNCHANGED <<build, memory, taker, worker, handle>>

(* WAIT_FAILED: the second look at the thread's handle fails too, and get() *)
(* throws "thread terminated"; or the value has been used again meanwhile  *)
(* for an object that is not signalled, or for one that is ("failed").     *)
LookAgain(g) ==
  /\ at[g] = "failed"
  /\ \/ Finish(g, "terminated")
     \/ handle = "reused" /\ Finish(g, "error")
  /\ UNCHANGED <<build, memory, taker, worker, handle>>

(* WAIT_OBJECT_0: the event, which resets itself.                          *)
Woken(g) ==
  /\ at[g] \in {"waiting", "misled"}
  /\ build = "win"
  /\ ready
  /\ ready' = FALSE
  /\ taker' = g
  /\ Goto(g, "woken")
  /\ UNCHANGED <<build, m_val, m_exception, worker, handle>>

(* Mutant: the thread's handle comes first in the array. *)
TerminatedFirst(g) ==
  /\ at[g] = "waiting"
  /\ build = "win"
  /\ worker = "ended"
  /\ Finish(g, "terminated")
  /\ UNCHANGED <<build, memory, taker, worker, handle>>

(* Mutant: bWaitAll is TRUE. *)
TerminatedWaitAll(g) ==
  /\ at[g] = "waiting"
  /\ build = "win"
  /\ ready
  /\ worker = "ended"
  /\ Finish(g, "terminated")
  /\ UNCHANGED <<build, memory, taker, worker, handle>>

(* WAIT_OBJECT_0 + 1: the thread has ended.  When both are signalled the   *)
(* lower index, the event, is reported.                                    *)
Terminated(g) ==
  /\ at[g] = "waiting"
  /\ build = "win"
  /\ ~ready
  /\ worker = "ended"
  /\ Finish(g, "terminated")
  /\ UNCHANGED <<build, memory, taker, worker, handle>>

(* The other object behind a reused handle is signalled, some time or      *)
(* never: get() says that the thread has terminated.                       *)
Misreported(g) ==
  /\ at[g] = "misled"
  /\ ~ready
  /\ Finish(g, "terminated")
  /\ UNCHANGED <<build, memory, taker, worker, handle>>

(* Mutant: what the wait returned is returned. *)
ReadWaitResult(g) ==
  /\ at[g] = "woken"
  /\ Finish(g, "WAIT_OBJECT_0")
  /\ UNCHANGED <<build, memory, taker, worker, handle>>

(* return m_val. *)
ReadValue(g) ==
  /\ at[g] = "woken"
  /\ Finish(g, m_val)
  /\ UNCHANGED <<build, memory, taker, worker, handle>>

-----------------------------------------------------------------------------
(* get() in the std build; threadHandle is ignored.                        *)

(* get_future() throws future_error for every call but the first. *)
GetFuture(g) ==
  /\ build = "std"
  /\ at[g] = "idle"
  /\ IF taker = None THEN taker' = g /\ Goto(g, "waiting")
                     ELSE Finish(g, "future_error") /\ UNCHANGED taker
  /\ UNCHANGED <<build, memory, worker, handle>>

(* The future's get() returns once the state is ready. *)
FutureReady(g) ==
  /\ build = "std"
  /\ at[g] = "waiting"
  /\ ready
  /\ Finish(g, IF m_exception THEN "exception" ELSE m_val)
  /\ UNCHANGED <<build, memory, taker, worker, handle>>

GetStep(g) ==
  \/ CheckException(g) \/ BeginWait(g) \/ LookAgain(g)
  \/ Woken(g) \/ Terminated(g) \/ ReadValue(g)
  \/ GetFuture(g) \/ FutureReady(g)

Next ==
  \/ \E v \in Value : Set(v)
  \/ Signal \/ SetException \/ WorkerEnds \/ CloseHandle \/ ReuseHandle
  \/ \E g \in Getter \cup {None} : ExitProcess(g)
  \/ \E g \in Getter : GetStep(g) \/ Misreported(g)

(* Fairness: a get() that has begun goes on as long as its thread lives    *)
(* and does not block.  Nothing obliges the worker to fulfil the promise,  *)
(* nor the object behind a reused handle to be signalled.                  *)
Spec ==
  /\ Init
  /\ [][Next]_vars
  /\ \A g \in Getter : WF_vars(at[g] # "idle" /\ GetStep(g))
  /\ WF_vars(Signal)

-----------------------------------------------------------------------------
(* Every variable holds a value of its type. *)
TypeOK ==
  /\ build \in Builds
  /\ m_val \in Value \cup {Zero}
  /\ m_exception \in BOOLEAN
  /\ ready \in BOOLEAN
  /\ taker \in Getter \cup {None}
  /\ worker \in {"running", "storing", "ended"}
  /\ handle \in {"open", "closed", "reused"}
  /\ at \in [Getter -> {"idle", "checked", "waiting", "misled", "failed",
                        "woken", "done", "killed"}]
  /\ outcome \in [Getter -> Outcome]

(* A get() that returns has the value the worker gave to set_value(), not  *)
(* the initial m_val: the unsynchronized store and load are ordered by the *)
(* event (promise_ex_win.h:31-32 and 99), also when the worker is killed   *)
(* between storing and signalling.                                         *)
ValueWasSet == \A g \in Getter : outcome[g] # Zero

(* A published value is never passed over: as long as the handle stays     *)
(* open, get() throws "thread terminated" only when no value is waiting,   *)
(* and none comes later (promise_ex_win.h:57-69).                          *)
ValueNotLost ==
  \A g \in Getter : outcome[g] = "terminated" /\ handle = "open" => ~ready

(* "thread terminated" is the truth unless the handle was closed.          *)
TerminatedIsTrue ==
  \A g \in Getter : outcome[g] = "terminated" =>
    worker = "ended" \/ handle # "open"

(* At most one get() returns the value, in both builds: the auto-reset     *)
(* event hands it out once, as std::promise's only future does.            *)
ValueTakenOnce ==
  \A g, h \in Getter : outcome[g] \in Value /\ outcome[h] \in Value => g = h

(* promise_ex.h:17-20: in the Windows build, once the worker has ended no  *)
(* get() is left waiting, and whatever its handle denotes by then, none is *)
(* left waiting for a value that is there, unless another get() takes it.  *)
(* One that waits for the wrong object may wait for ever otherwise.        *)
GetReturns ==
  /\ \A g \in Getter :
       (/\ build = "win" /\ worker = "ended"
        /\ at[g] \in {"checked", "waiting", "failed", "woken"})
         ~> at[g] \in {"misled", "done", "killed"}
  /\ \A g \in Getter :
       (build = "win" /\ ready /\ at[g] \in {"waiting", "misled"})
         ~> ~ready \/ at[g] = "killed"

(* Refinement: a value counts as given once the event is set, and is       *)
(* claimed by the get() that the event wakes, or that has the future.      *)
Content ==
  IF m_exception THEN "exception"
  ELSE IF ready \/ (build = "win" /\ taker # None) THEN m_val ELSE "empty"

Result ==
  [g \in Getter |-> IF outcome[g] \in {"terminated", "error", "future_error"}
                      THEN "error" ELSE outcome[g]]

Contract == INSTANCE OneShot
  WITH content <- Content,
       worker <- IF handle # "open" THEN "lost"
                 ELSE IF worker = "ended" THEN "ended" ELSE "alive",
       claim <- taker,
       result <- Result

(* PromiseEx implements OneShot. *)
ImplementsOneShot == Contract!Spec

(* promise_ex.h:17-20 sets the class apart from std::promise by what get() *)
(* throws if the worker ends without a result.  A worker that ends after   *)
(* set_exception() has left one: get() throws that.                        *)
ExceptionDelivered ==
  \A g \in Getter : outcome[g] = "terminated" /\ handle = "open" => ~m_exception
=============================================================================
