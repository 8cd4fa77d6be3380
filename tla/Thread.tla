------------------------------- MODULE Thread -------------------------------
(***************************************************************************)
(* rcp::Thread: the part every platform shares, from                       *)
(* include/threads/thread.h and src/threads/thread.cpp, and the threadProc *)
(* both platform files repeat.  A Thread object is a pair (m_handle, m_id) *)
(* naming an operating-system thread.  Its constructor hands a             *)
(* heap-allocated Callable to that thread and, with StartStrategy::Wait,   *)
(* blocks on a promise that both share.                                    *)
(*                                                                         *)
(* The modules ThreadWin and ThreadMac extend this one with the kernel's   *)
(* state and with initialize, joinImpl, detachImpl and terminateImpl.      *)
(***************************************************************************)

CONSTANTS
  Obj,       \* storage locations in which Thread objects are built
  Slot,      \* thread ids; an id is used again once the system has freed it
  Handle,    \* values of native_handle_type
  Main,      \* the process's first thread
  None,      \* the null handle, the empty id, "no object"
  Clients,   \* the threads whose code operates on Thread objects
  EarlyUse   \* may a callable use its own Thread while that is being built?

Actor == Slot \cup {Main}

ASSUME ThreadAssumption ==
  /\ None \notin Slot \cup Handle \cup Obj \cup {Main}
  /\ Main \notin Slot
  /\ Clients \subseteq Actor
  /\ EarlyUse \in BOOLEAN

VARIABLES
  life,      \* [Obj]   "raw" storage, under construction ("ctor"), "alive"
  ctor,      \* [Obj]   locals of a running constructor: arguments and the
             \*         pair initialize() returned
  m_handle,  \* [Obj]   member m_handle
  m_id,      \* [Obj]   member m_id
  at,        \* [Actor] where the thread's code is
  on,        \* [Actor] the object it is in the middle of an operation on
  callable,  \* [Slot]  the heap CallableImpl of the thread
  promise,   \* [Slot]  shared state of `started`: who holds a shared_ptr
             \*         to it, and whether set_value() was called
  args,      \* [Slot]  what the callable's arguments are: its own values,
             \*         references to the caller's objects, or dead ones
  running,   \* the threads that exist and have not ended
  kernel,    \* [Handle] what the system knows of a handle (ThreadWin: the
             \*          thread it is open for; ThreadMac: the pthread's state)
  crash      \* why the process has ended, "none" while it runs

objVars    == <<life, ctor, m_handle, m_id>>
actorVars  == <<at, on>>
callVars   == <<callable, promise, args>>
sysVars    == <<running, kernel>>
vars       == <<life, ctor, m_handle, m_id, at, on, callable, promise, args,
                running, kernel, crash>>

StartStrategy == {"Wait", "NoWait"}

NoCtor    == [startStrategy |-> "NoWait", arguments |-> "owned",
              handle |-> None, id |-> None]
NoPromise == [refs |-> {}, state |-> "pending"]

CtorLabel == {"create", "release", "tieHandle", "tieId", "await"}
ProcLabel == {"entry", "signal", "apply", "leaving"}
EndingLabel == {"join", "recheck", "missing", "waited", "terminated"}
Label     == CtorLabel \cup ProcLabel \cup EndingLabel
               \cup {"absent", "idle", "crashed"}

CommonInit ==
  /\ life = [o \in Obj |-> "raw"]
  /\ ctor = [o \in Obj |-> NoCtor]
  /\ m_handle = [o \in Obj |-> None]
  /\ m_id = [o \in Obj |-> None]
  /\ at = [a \in Actor |-> IF a = Main THEN "idle" ELSE "absent"]
  /\ on = [a \in Actor |-> None]
  /\ callable = [t \in Slot |-> "none"]
  /\ promise = [t \in Slot |-> NoPromise]
  /\ args = [t \in Slot |-> "owned"]
  /\ running = {}
  /\ crash = "none"

-----------------------------------------------------------------------------
(* Who may call what.  Like std::thread, a Thread object is not            *)
(* synchronized: it is used by one thread at a time.                       *)

joinable(o) == m_handle[o] # None

Idle(a)   == a \in Clients /\ at[a] = "idle"
Busy(o)   == \E b \in Actor : on[b] = o
MayUse(o) == life[o] = "alive" /\ ~Busy(o)

(* A callable that was given a reference to the Thread that runs it may    *)
(* call join, detach or terminate on it before the constructor returns.    *)
MayCall(a, o) ==
  \/ MayUse(o)
  \/ EarlyUse /\ life[o] = "ctor" /\ ctor[o].id = a

Goto(a, label, o) ==
  /\ at' = [at EXCEPT ![a] = label]
  /\ on' = [on EXCEPT ![a] = o]

(* The process ends while a is operating on o: nothing runs any more. *)
ForceCrash(a, o, why) ==
  /\ crash' = why
  /\ at' = [b \in Actor |-> "crashed"]
  /\ on' = [b \in Actor |-> IF b = a THEN o ELSE None]
  /\ UNCHANGED <<objVars, callVars, sysVars>>

ResetHandleAndId(o) ==
  /\ m_handle' = [m_handle EXCEPT ![o] = None]
  /\ m_id' = [m_id EXCEPT ![o] = None]

-----------------------------------------------------------------------------
(* The constructor template.                                               *)

(* Entry: the Callable and, for StartStrategy::Wait, the promise are made. *)
(* The arguments are "lent" if the caller passed lvalues, so that Function *)
(* and Args deduce to reference types and CallableImpl stores references.  *)
Construct(a, o, startStrategy, arguments) ==
  /\ Idle(a)
  /\ life[o] = "raw"
  /\ life' = [life EXCEPT ![o] = "ctor"]
  /\ ctor' = [ctor EXCEPT ![o] =
       [NoCtor EXCEPT !.startStrategy = startStrategy, !.arguments = arguments]]
  /\ m_handle' = [m_handle EXCEPT ![o] = None]
  /\ m_id' = [m_id EXCEPT ![o] = None]
  /\ Goto(a, "create", o)
  /\ UNCHANGED <<callVars, sysVars, crash>>

(* initialize() throws: its unique_ptr deletes the Callable, the object    *)
(* never comes to life.                                                    *)
CreateFails(a) ==
  /\ at[a] = "create"
  /\ life' = [life EXCEPT ![on[a]] = "raw"]
  /\ ctor' = [ctor EXCEPT ![on[a]] = NoCtor]
  /\ Goto(a, "idle", None)
  /\ UNCHANGED <<m_handle, m_id, callVars, sysVars, crash>>

(* Mutant: initialize() returns std::this_thread::get_id(). *)
CreatedWithOwnId(a, t, h) ==
  LET o == on[a] IN
  /\ at[a] = "create"
  /\ running' = running \cup {t}
  /\ ctor' = [ctor EXCEPT ![o].handle = h, ![o].id = a]
  /\ at' = [at EXCEPT ![a] = "release", ![t] = "entry"]
  /\ UNCHANGED <<life, m_handle, m_id, on, callVars, crash>>

(* The system call of initialize() succeeds: thread t exists from now on,  *)
(* before its creator has stored handle h or given up callablePtr.  The    *)
(* locals of a constructor and its promise are found by the id, so an id   *)
(* is not used again while a constructor that was given it has not         *)
(* returned.  The handle it holds sees to that, unless others may close it *)
(* (EarlyUse, clients that close handles): then it is a limit of the model. *)
Created(a, t, h) ==
  LET o == on[a] IN
  /\ at[a] = "create"
  /\ \A p \in Obj : ctor[p].id # t
  /\ running' = running \cup {t}
  /\ ctor' = [ctor EXCEPT ![o].handle = h, ![o].id = t]
  /\ at' = [at EXCEPT ![a] = "release", ![t] = "entry"]
  /\ callable' = [callable EXCEPT ![t] = "alive"]
  /\ promise' = [promise EXCEPT ![t] =
       [refs |-> IF ctor[o].startStrategy = "Wait"
                  THEN {"ctor", "callable"} ELSE {},
        state |-> "pending"]]
  /\ args' = [args EXCEPT ![t] = ctor[o].arguments]
  /\ UNCHANGED <<life, m_handle, m_id, on, crash>>

(* Mutant: callablePtr.release() is forgotten and the unique_ptr deletes   *)
(* the Callable when initialize() returns.                                 *)
ReleaseForgotten(a) ==
  /\ at[a] = "release"
  /\ callable' = [callable EXCEPT ![ctor[on[a]].id] = "deleted"]
  /\ Goto(a, "tieHandle", on[a])
  /\ UNCHANGED <<objVars, promise, args, sysVars, crash>>

(* callablePtr.release(): from here only the new thread owns the Callable. *)
Release(a) ==
  /\ at[a] = "release"
  /\ Goto(a, "tieHandle", on[a])
  /\ UNCHANGED <<objVars, callVars, sysVars, crash>>

(* std::tie( m_handle, m_id ) = initialize( ... ), member by member. *)
TieHandle(a) ==
  LET o == on[a] IN
  /\ at[a] = "tieHandle"
  /\ m_handle' = [m_handle EXCEPT ![o] = ctor[o].handle]
  /\ ctor' = [ctor EXCEPT ![o].handle = None]
  /\ Goto(a, "tieId", o)
  /\ UNCHANGED <<life, m_id, callVars, sysVars, crash>>

Constructed(a, o) ==
  /\ life' = [life EXCEPT ![o] = "alive"]
  /\ ctor' = [ctor EXCEPT ![o] = NoCtor]
  /\ Goto(a, "idle", None)

(* Mutant: the members of the pair are swapped. *)
TieIdToHandle(a) ==
  LET o == on[a] IN
  /\ at[a] = "tieId"
  /\ m_id' = [m_id EXCEPT ![o] = m_handle[o]]
  /\ IF ctor[o].startStrategy = "Wait"
       THEN Goto(a, "await", o) /\ UNCHANGED <<life, ctor>>
       ELSE Constructed(a, o)
  /\ UNCHANGED <<m_handle, callVars, sysVars, crash>>

TieId(a) ==
  LET o == on[a] IN
  /\ at[a] = "tieId"
  /\ m_id' = [m_id EXCEPT ![o] = ctor[o].id]
  /\ IF ctor[o].startStrategy = "Wait"
       THEN Goto(a, "await", o) /\ UNCHANGED <<life, ctor>>
       ELSE Constructed(a, o)
  /\ UNCHANGED <<m_handle, callVars, sysVars, crash>>

(* Mutant: the promise lives on the constructor's stack. *)
AwaitOnStack(a) ==
  LET o == on[a]  t == ctor[o].id IN
  /\ at[a] = "await"
  /\ promise[t].state = "ready"
  /\ promise' = [promise EXCEPT ![t].refs = {}]
  /\ Constructed(a, o)
  /\ UNCHANGED <<m_handle, m_id, callable, args, sysVars, crash>>

(* waitForStarted(): started->get_future().get(); on return the            *)
(* constructor drops its reference to the promise.                         *)
Await(a) ==
  LET o == on[a]  t == ctor[o].id IN
  /\ at[a] = "await"
  /\ promise[t].state = "ready"
  /\ promise' = [promise EXCEPT ![t].refs = @ \ {"ctor"}]
  /\ Constructed(a, o)
  /\ UNCHANGED <<m_handle, m_id, callable, args, sysVars, crash>>

(* The caller's objects, to which a Callable built from lvalues refers,    *)
(* may end as soon as the constructor has returned.                        *)
CallerLeavesScope(t) ==
  /\ crash = "none"
  /\ args[t] = "lent"
  /\ \A o \in Obj : ctor[o].id # t
  /\ args' = [args EXCEPT ![t] = "dead"]
  /\ UNCHANGED <<objVars, actorVars, callable, promise, sysVars, crash>>

-----------------------------------------------------------------------------
(* threadProc and CallableImpl::execute, on the new thread.                *)

(* Mutant: execute() runs the function without setting `started`. *)
ExecuteUnsignaled(t) ==
  /\ at[t] = "entry"
  /\ Goto(t, "apply", None)
  /\ UNCHANGED <<objVars, callVars, sysVars, crash>>

(* execute() begins; with a promise, set_value() has published the value   *)
(* but is still inside the shared state.                                   *)
Execute(t) ==
  /\ at[t] = "entry"
  /\ IF "callable" \in promise[t].refs
       THEN /\ promise' = [promise EXCEPT ![t].state = "ready"]
            /\ Goto(t, "signal", None)
       ELSE /\ Goto(t, "apply", None)
            /\ UNCHANGED promise
  /\ UNCHANGED <<objVars, callable, args, sysVars, crash>>

SetValueReturns(t) ==
  /\ at[t] = "signal"
  /\ Goto(t, "apply", None)
  /\ UNCHANGED <<objVars, callVars, sysVars, crash>>

(* std::apply: the user's function runs with the stored arguments. *)
Apply(t) ==
  /\ at[t] = "apply"
  /\ Goto(t, "idle", None)
  /\ UNCHANGED <<objVars, callVars, sysVars, crash>>

(* Mutant: the raw pointer is not put back into a unique_ptr. *)
BodyReturnsLeaking(t) ==
  /\ t \in Slot
  /\ at[t] = "idle"
  /\ promise' = [promise EXCEPT ![t].refs = @ \ {"callable"}]
  /\ Goto(t, "leaving", None)
  /\ UNCHANGED <<objVars, callable, args, sysVars, crash>>

(* Mutant: threadProc calls execute() in a loop. *)
BodyLoops(t) ==
  /\ t \in Slot
  /\ at[t] = "idle"
  /\ Goto(t, "entry", None)
  /\ UNCHANGED <<objVars, callVars, sysVars, crash>>

(* The function returns and threadProc's unique_ptr deletes the Callable,  *)
(* with it the Callable's reference to the promise.                        *)
BodyReturns(t) ==
  /\ t \in Slot
  /\ at[t] = "idle"
  /\ callable' = [callable EXCEPT ![t] = "deleted"]
  /\ promise' = [promise EXCEPT ![t].refs = @ \ {"callable"}]
  /\ Goto(t, "leaving", None)
  /\ UNCHANGED <<objVars, args, sysVars, crash>>

(* Nothing catches what the function throws: std::terminate. *)
BodyThrows(t) ==
  /\ t \in Slot
  /\ at[t] = "idle"
  /\ ForceCrash(t, None, "uncaught")

(* The system ends the threads in S where they stand: what they were in    *)
(* the middle of stays as it is and their Callables are never deleted.     *)
(* The caller a goes on at label with o, unless it has ended itself.       *)
Kill(S, a, label, o) ==
  /\ at' = [b \in Actor |-> IF b \in S THEN "absent"
                            ELSE IF b = a THEN label ELSE at[b]]
  /\ on' = [b \in Actor |-> IF b \in S THEN None
                            ELSE IF b = a THEN o ELSE on[b]]
  /\ callable' = [t \in Slot |-> IF t \in S /\ callable[t] = "alive"
                                   THEN "leaked" ELSE callable[t]]
  /\ running' = running \ S

-----------------------------------------------------------------------------
(* The operations of an object that make no system call.                   *)

DefaultConstruct(a, o) ==
  /\ Idle(a)
  /\ life[o] = "raw"
  /\ life' = [life EXCEPT ![o] = "alive"]
  /\ ResetHandleAndId(o)
  /\ UNCHANGED <<ctor, actorVars, callVars, sysVars, crash>>

(* Mutant: only the handles are exchanged. *)
ExchangeHandleOnly(o, p) ==
  /\ m_handle' = [m_handle EXCEPT ![o] = m_handle[p], ![p] = m_handle[o]]
  /\ UNCHANGED m_id

(* Mutant: the members are copied, p keeps its own. *)
ExchangeByCopy(o, p) ==
  /\ m_handle' = [m_handle EXCEPT ![o] = m_handle[p]]
  /\ m_id' = [m_id EXCEPT ![o] = m_id[p]]

Exchange(o, p) ==
  /\ m_handle' = [m_handle EXCEPT ![o] = m_handle[p], ![p] = m_handle[o]]
  /\ m_id' = [m_id EXCEPT ![o] = m_id[p], ![p] = m_id[o]]

(* Thread( Thread&& ): members start null, then swap( other ). *)
MoveConstruct(a, o, p) ==
  /\ Idle(a)
  /\ life[o] = "raw"
  /\ MayUse(p)
  /\ life' = [life EXCEPT ![o] = "alive"]
  /\ Exchange(o, p)
  /\ UNCHANGED <<ctor, actorVars, callVars, sysVars, crash>>

Swap(a, o, p) ==
  /\ Idle(a)
  /\ MayUse(o)
  /\ MayUse(p)
  /\ Exchange(o, p)
  /\ UNCHANGED <<life, ctor, actorVars, callVars, sysVars, crash>>

(* operator=( Thread&& ): crash rather than lose a joinable thread. *)
MoveAssign(a, o, p) ==
  \/ ~joinable(o) /\ Swap(a, o, p)
  \/ /\ Idle(a)
     /\ MayUse(o)
     /\ MayUse(p)
     /\ joinable(o)
     /\ ForceCrash(a, o, "assignJoinable")

(* Mutant: the destructor does not look at joinable(). *)
DestroyUnchecked(a, o) ==
  /\ Idle(a)
  /\ MayUse(o)
  /\ life' = [life EXCEPT ![o] = "raw"]
  /\ UNCHANGED <<ctor, m_handle, m_id, actorVars, callVars, sysVars, crash>>

(* ~Thread(): crash if joinable, like std::thread.  Raw storage has no     *)
(* members; the model keeps them null there.                               *)
Destroy(a, o) ==
  /\ Idle(a)
  /\ MayUse(o)
  /\ IF joinable(o)
       THEN ForceCrash(a, o, "destroyJoinable")
       ELSE /\ life' = [life EXCEPT ![o] = "raw"]
            /\ m_id' = [m_id EXCEPT ![o] = None]
            /\ UNCHANGED <<ctor, m_handle, actorVars, callVars, sysVars,
                           crash>>

(* Mutant: no comparison with this_thread::get_id(). *)
JoinUnchecked(a, o) ==
  /\ Idle(a)
  /\ MayCall(a, o)
  /\ joinable(o)
  /\ Goto(a, "join", o)
  /\ UNCHANGED <<objVars, callVars, sysVars, crash>>

(* join(), up to the wait of joinImpl(); a no-op unless joinable. *)
Join(a, o) ==
  /\ Idle(a)
  /\ MayCall(a, o)
  /\ joinable(o)
  /\ IF m_id[o] = a
       THEN ForceCrash(a, o, "selfJoin")
       ELSE /\ Goto(a, "join", o)
            /\ UNCHANGED <<objVars, callVars, sysVars, crash>>

CommonNext ==
  \/ \E a \in Actor, o \in Obj :
       \/ \E startStrategy \in StartStrategy, arguments \in {"owned", "lent"} :
            Construct(a, o, startStrategy, arguments)
       \/ DefaultConstruct(a, o)
       \/ Destroy(a, o)
       \/ Join(a, o)
       \/ \E p \in Obj : \/ MoveConstruct(a, o, p)
                         \/ MoveAssign(a, o, p)
                         \/ Swap(a, o, p)
  \/ \E a \in Actor : \/ CreateFails(a)
                      \/ Release(a)
                      \/ TieHandle(a)
                      \/ TieId(a)
                      \/ Await(a)
  \/ \E t \in Slot : \/ CallerLeavesScope(t)
                     \/ Execute(t)
                     \/ SetValueReturns(t)
                     \/ Apply(t)
                     \/ BodyReturns(t)
                     \/ BodyThrows(t)

-----------------------------------------------------------------------------
(* The handle value that o, or the constructor building it, holds. *)
Holds(o) == IF joinable(o) THEN m_handle[o] ELSE ctor[o].handle

CtorLocals ==
  [startStrategy : StartStrategy, arguments : {"owned", "lent"},
   handle : Handle \cup {None}, id : Slot \cup {None}]

SharedState ==
  [refs : SUBSET {"ctor", "callable"}, state : {"pending", "ready"}]

(* The type invariant of the shared state. *)
CommonTypeOK ==
  /\ life \in [Obj -> {"raw", "ctor", "alive"}]
  /\ ctor \in [Obj -> CtorLocals]
  /\ m_handle \in [Obj -> Handle \cup {None}]
  /\ m_id \in [Obj -> Slot \cup {None}]
  /\ at \in [Actor -> Label]
  /\ on \in [Actor -> Obj \cup {None}]
  /\ callable \in [Slot -> {"none", "alive", "deleted", "leaked"}]
  /\ promise \in [Slot -> SharedState]
  /\ args \in [Slot -> {"owned", "lent", "dead"}]
  /\ running \subseteq Slot
  /\ crash \in {"none", "destroyJoinable", "assignJoinable", "selfJoin",
                "uncaught", "hangup"}
=============================================================================
