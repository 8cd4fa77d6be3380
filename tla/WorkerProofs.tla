---------------------------- MODULE WorkerProofs -----------------------------
(***************************************************************************)
(* Worker implements PromiseEx: what PromiseEx takes for granted of the    *)
(* worker, of its handle and of the waits for them is what the threads and *)
(* the kernel's table of handles in ThreadWin come to.                     *)
(***************************************************************************)
EXTENDS Worker, TLAPS

KernelType ==
  /\ kernel \in [Handle -> Slot \cup {None}]
  /\ running \subseteq Slot
  /\ at = [a \in Actor |-> at[a]]

(* As long as the value of the worker's handle has not been lost it        *)
(* denotes the worker, and until the worker has ended it runs.             *)
JobInv ==
  /\ over \in BOOLEAN /\ lost \in BOOLEAN
  /\ nativeHandle = None => ~over /\ ~lost /\ get = "idle"
  /\ nativeHandle # None =>
       /\ nativeHandle \in Handle /\ job \in Slot
       /\ ~over => job \in running
       /\ ~lost => kernel[nativeHandle] = job

(* What the wait of get() is for, and what has become of the handle where  *)
(* the wait failed or began too late.                                      *)
WaitingInv ==
  /\ get \in {"failed", "misled"} => lost
  /\ get = "waiting" => awaited \in {None, job} /\ (awaited = None => over)
  /\ get # "done" => outcome = "none"

(* The event is set, and taken, after the store only.                      *)
MemoryInv ==
  /\ m_val \in Value \cup {Zero} /\ ready \in BOOLEAN
  /\ ready \/ Taken => m_val \in Value
  /\ \A t \in Actor : at[t] = "set_value" =>
       /\ nativeHandle # None /\ t = job
       /\ m_val \in Value /\ ~ready /\ ~Taken

WorkerInv == KernelType /\ JobInv /\ WaitingInv /\ MemoryInv

-----------------------------------------------------------------------------
(* The steps of ThreadWin. *)

(* A value given out anew denoted nothing before, and the step that does   *)
(* so ends no thread; every other step keeps or closes handles.            *)
ReusedByCreation ==
  \A h \in Handle : \/ kernel'[h] \in {kernel[h], None}
                    \/ kernel[h] = None /\ running \subseteq running'

(* No step of ThreadWin is one of set_value(). *)
NoneStores ==
  /\ at' = [a \in Actor |-> at'[a]]
  /\ \A t \in Actor : at'[t] = "set_value" => at[t] = "set_value"

(* The shared actions leave the kernel's state as it is, and store nothing. *)
LEMMA CommonKernel ==
  ASSUME KernelType, CommonNext
  PROVE  UNCHANGED <<running, kernel>> /\ NoneStores
<1> DEFINE Quiet == UNCHANGED <<running, kernel>> /\ NoneStores
<1>0. at = [a \in Actor |-> at[a]]
  BY DEF KernelType
<1>1. ASSUME UNCHANGED <<sysVars, actorVars>>
      PROVE  Quiet
  BY <1>0, <1>1 DEF NoneStores, sysVars, actorVars
<1>2. ASSUME NEW a, NEW o, NEW label, label # "set_value",
             UNCHANGED sysVars, Goto(a, label, o)
      PROVE  Quiet
  BY <1>0, <1>2 DEF NoneStores, sysVars, Goto
<1>3. ASSUME NEW a, NEW o, NEW why, ForceCrash(a, o, why)
      PROVE  Quiet
  BY <1>3 DEF NoneStores, sysVars, ForceCrash
<1> HIDE DEF Quiet
<1>4. ASSUME NEW a, NEW o,
             \/ \E startStrategy \in StartStrategy, arguments \in {"owned", "lent"} :
                  Construct(a, o, startStrategy, arguments)
             \/ DefaultConstruct(a, o)
      PROVE  Quiet
  <2>1. CASE DefaultConstruct(a, o)
    BY <1>1, <2>1, Zenon DEF DefaultConstruct
  <2>2. ASSUME NEW startStrategy, NEW arguments,
               Construct(a, o, startStrategy, arguments)
        PROVE  Quiet
    <3>1. UNCHANGED sysVars /\ Goto(a, "create", o)
      BY <2>2, Zenon DEF Construct
    <3>2. QED
      BY <1>2, <3>1
  <2>3. QED
    BY <1>4, <2>1, <2>2
<1>5. ASSUME NEW a, NEW o, Destroy(a, o) PROVE Quiet
  BY <1>1, <1>3, <1>5, Zenon DEF Destroy
<1>6. ASSUME NEW a, NEW o, Join(a, o) PROVE Quiet
  <2>1. CASE m_id[o] = a
    BY <1>3, <1>6, <2>1, Zenon DEF Join
  <2>2. CASE m_id[o] # a
    <3>1. UNCHANGED sysVars /\ Goto(a, "join", o)
      BY <1>6, <2>2, Zenon DEF Join
    <3>2. QED
      BY <1>2, <3>1
  <2>3. QED
    BY <2>1, <2>2
<1>7. ASSUME NEW a, NEW o, NEW p,
             MoveConstruct(a, o, p) \/ MoveAssign(a, o, p) \/ Swap(a, o, p)
      PROVE  Quiet
  BY <1>1, <1>3, <1>7, Zenon DEF MoveConstruct, MoveAssign, Swap
<1>8. ASSUME NEW a,
             CreateFails(a) \/ Release(a) \/ TieHandle(a) \/ TieId(a) \/ Await(a)
      PROVE  Quiet
  <2>1. /\ UNCHANGED sysVars
        /\ \/ Goto(a, "idle", None)
           \/ \E label \in {"tieHandle", "tieId", "await"} : Goto(a, label, on[a])
    BY <1>8 DEF CreateFails, Release, TieHandle, TieId, Await, Constructed
  <2>2. QED
    BY <1>2, <2>1
<1>9. ASSUME NEW t, BodyThrows(t) PROVE Quiet
  BY <1>3, <1>9 DEF BodyThrows
<1>10. ASSUME NEW t, CallerLeavesScope(t) PROVE Quiet
  BY <1>1, <1>10, Zenon DEF CallerLeavesScope
<1>11. ASSUME NEW t,
              Execute(t) \/ SetValueReturns(t) \/ Apply(t) \/ BodyReturns(t)
       PROVE  Quiet
  <2>1. /\ UNCHANGED sysVars
        /\ \E label \in {"signal", "apply", "idle", "leaving"} :
             Goto(t, label, None)
    BY <1>11 DEF Execute, SetValueReturns, Apply, BodyReturns
  <2>2. QED
    BY <1>2, <2>1
<1>12. Quiet
  BY <1>4, <1>5, <1>6, <1>7, <1>8, <1>9, <1>10, <1>11 DEF CommonNext
<1>13. QED
  BY <1>12 DEF Quiet

ThreadsStep == KernelType' /\ ReusedByCreation /\ NoneStores

(* Only CreateThread opens a handle; whatever else changes the table of    *)
(* handles closes one.                                                     *)
LEMMA NextKernel ==
  ASSUME KernelType, Next
  PROVE  ThreadsStep
<1> USE ThreadAssumption
<1>0. ASSUME running' \subseteq running, NoneStores,
             UNCHANGED kernel \/ \E h : kernel' = [kernel EXCEPT ![h] = None]
      PROVE  ThreadsStep
  BY <1>0 DEF ThreadsStep, KernelType, ReusedByCreation, NoneStores
<1>1. CASE CommonNext
  BY <1>0, <1>1, CommonKernel
<1>2. ASSUME NEW a \in Actor, CreateThread(a)
      PROVE  ThreadsStep
  <2>1. PICK t \in Slot, h \in Handle :
          /\ kernel[h] = None
          /\ running' = running \cup {t}
          /\ at' = [at EXCEPT ![a] = "release", ![t] = "entry"]
          /\ kernel' = [kernel EXCEPT ![h] = t]
    BY <1>2 DEF CreateThread, Created, Open
  <2>2. NoneStores
    BY <2>1 DEF NoneStores, KernelType
  <2>3. QED
    BY <2>1, <2>2 DEF ThreadsStep, KernelType, ReusedByCreation, NoneStores
<1>3. ASSUME NEW a, NEW o, NEW label, label # "set_value", Goto(a, label, o)
      PROVE  NoneStores
  BY <1>3 DEF NoneStores, Goto, KernelType
<1>4. ASSUME NEW a \in Actor, WaitForThread(a) \/ WaitFails(a) \/ Recheck(a)
      PROVE  ThreadsStep
  <2>1. /\ UNCHANGED <<running, kernel>>
        /\ \/ Goto(a, "idle", None)
           \/ \E label \in {"waited", "recheck", "missing"} : Goto(a, label, on[a])
    BY <1>4 DEF WaitForThread, WaitFails, Recheck, sysVars
  <2>2. NoneStores
    BY <1>3, <2>1
  <2>3. QED
    BY <1>0, <2>1, <2>2
<1>5. ASSUME NEW a \in Actor, CloseAndReset(a)
      PROVE  ThreadsStep
  <2>1. /\ UNCHANGED running /\ Goto(a, "idle", None)
        /\ UNCHANGED kernel \/ \E h : kernel' = [kernel EXCEPT ![h] = None]
    BY <1>5 DEF CloseAndReset, CloseHandleAndCheck
  <2>2. NoneStores
    BY <1>3, <2>1
  <2>3. QED
    BY <1>0, <2>1, <2>2
<1>6. ASSUME NEW S, NEW a, NEW label, NEW o, label # "set_value",
             Kill(S, a, label, o), UNCHANGED kernel
      PROVE  ThreadsStep
  <2>1. running' \subseteq running /\ NoneStores
    BY <1>6 DEF Kill, NoneStores
  <2>2. QED
    BY <1>0, <1>6, <2>1
<1>7. ASSUME NEW a \in Actor, ExitProcess(a)
      PROVE  ThreadsStep
  BY <1>6, <1>7 DEF ExitProcess
<1>8. ASSUME NEW a \in Actor, NEW o \in Obj, Terminate(a, o)
      PROVE  ThreadsStep
  BY <1>6, <1>8 DEF Terminate
<1>9. ASSUME UNCHANGED actorVars
      PROVE  NoneStores
  BY <1>9 DEF NoneStores, actorVars, KernelType
<1>10. ASSUME NEW a \in Actor, NEW o \in Obj, Detach(a, o)
       PROVE  ThreadsStep
  BY <1>0, <1>9, <1>10 DEF Detach, CloseHandleAndCheck
<1>11. ASSUME NEW t \in Slot, ExitThread(t)
       PROVE  ThreadsStep
  <2>1. running' \subseteq running /\ UNCHANGED kernel /\ Goto(t, "absent", None)
    BY <1>11 DEF ExitThread
  <2>2. QED
    BY <1>0, <1>3, <2>1
<1>12. ASSUME NEW o \in Obj, ClientClosesHandle(o)
       PROVE  ThreadsStep
  BY <1>0, <1>9, <1>12 DEF ClientClosesHandle
<1>13. QED
  BY <1>1, <1>2, <1>4, <1>5, <1>7, <1>8, <1>10, <1>11, <1>12 DEF Next

(* A step inside promise_ex_win.h leaves the kernel alone. *)
LEMMA InsideKeeps ==
  ASSUME NEW a, NEW label, Inside(a, label)
  PROVE  /\ UNCHANGED <<kernel, running, nativeHandle, job, over, lost>>
         /\ at' = [at EXCEPT ![a] = label]
  BY DEF Inside, sysVars, workerVars

-----------------------------------------------------------------------------
(* The invariant. *)

(* It holds at the start. *)
LEMMA InitWorkerInv == WorkerInit => WorkerInv
  BY ThreadAssumption, WorkerAssumption
     DEF WorkerInit, Init, CommonInit, WorkerInv, KernelType, JobInv, WaitingInv,
         MemoryInv, Taken

(* What the threads do, as the worker's history sees it. *)
LEMMA ObservedWorkerInv ==
  ASSUME WorkerInv, Next, Observed
  PROVE  WorkerInv'
<1> USE ThreadAssumption
<1>1. KernelType /\ ThreadsStep
  BY NextKernel DEF WorkerInv
<1>2. UNCHANGED <<m_val, m_exception, ready, get, outcome>> /\ (Taken' <=> Taken)
  BY DEF Observed, memory, Taken
<1>3. JobInv'
  <2>1. CASE nativeHandle = None
    BY <1>1, <1>2, <2>1 DEF ThreadsStep, KernelType, Observed, WorkerInv, JobInv
  <2>2. CASE nativeHandle # None
    BY <1>1, <1>2, <2>2 DEF ThreadsStep, KernelType, Observed, WorkerInv, JobInv
  <2>3. QED
    BY <2>1, <2>2
<1>4. WaitingInv'
  <2>1. CASE nativeHandle = None
    BY <1>2, <2>1 DEF WorkerInv, JobInv, WaitingInv
  <2>2. CASE nativeHandle # None
    <3>1. /\ over' = (over \/ job \notin running') /\ UNCHANGED job
          /\ lost' = (lost \/ kernel'[nativeHandle] # job)
          /\ awaited' = IF awaited \in running' THEN awaited ELSE None
      BY <2>2 DEF Observed
    <3>2. None \notin running'
      BY <1>1 DEF ThreadsStep, KernelType
    <3>3. QED
      BY <1>2, <3>1, <3>2 DEF WorkerInv, JobInv, WaitingInv
  <2>3. QED
    BY <2>1, <2>2
<1>5. MemoryInv'
  <2>1. nativeHandle # None => UNCHANGED <<nativeHandle, job>>
    BY DEF Observed
  <2>2. QED
    BY <1>1, <1>2, <2>1 DEF ThreadsStep, NoneStores, WorkerInv, MemoryInv
<1>6. QED
  BY <1>1, <1>3, <1>4, <1>5 DEF ThreadsStep, WorkerInv

(* A step inside promise_ex_win.h keeps what is true of the kernel, and    *)
(* of the worker in it.                                                    *)
LEMMA InsideWorkerInv ==
  ASSUME WorkerInv, NEW a \in Actor, NEW label, Inside(a, label),
         nativeHandle # None
  PROVE  KernelType' /\ JobInv'
  BY InsideKeeps DEF WorkerInv, KernelType, JobInv

(* set_value(): the store is to a promise that nothing is known of yet,    *)
(* and the event is set after it (promise_ex_win.h:28-33).                 *)
LEMMA SetWorkerInv ==
  ASSUME WorkerInv,
         (\E v \in Value : SetValue(v)) \/ Signal \/ SetException
  PROVE  WorkerInv'
<1> USE ThreadAssumption, WorkerAssumption
<1>1. nativeHandle # None /\ job \in Slot /\ job \in Actor
  BY DEF SetValue, Signal, SetException, AtWork, WorkerInv, JobInv, Actor
<1>2. PICK label : Inside(job, label)
  BY DEF SetValue, Signal, SetException
<1>3. KernelType' /\ JobInv'
  BY <1>1, <1>2, InsideWorkerInv
<1>4. UNCHANGED <<nativeHandle, job, over, lost, get, awaited, outcome>>
  BY <1>2, InsideKeeps DEF SetValue, Signal, SetException, getVars
<1>5. WaitingInv'
  BY <1>4 DEF WorkerInv, WaitingInv
<1>6. Taken' <=> Taken
  BY <1>4 DEF Taken
<1>7. ASSUME NEW v \in Value, SetValue(v) PROVE MemoryInv'
  <2>1. m_val = Zero /\ m_val' = v /\ UNCHANGED ready
        /\ at' = [at EXCEPT ![job] = "set_value"]
    BY <1>7, InsideKeeps DEF SetValue, Unfulfilled
  <2>2. QED
    BY <1>1, <1>4, <1>6, <2>1 DEF WorkerInv, KernelType, MemoryInv
<1>8. ASSUME Signal PROVE MemoryInv'
  <2>1. /\ at[job] = "set_value" /\ ready' = TRUE /\ UNCHANGED m_val
        /\ at' = [at EXCEPT ![job] = "idle"]
    BY <1>8, InsideKeeps DEF Signal, AtWork
  <2>2. QED
    BY <1>1, <1>4, <1>6, <2>1 DEF WorkerInv, KernelType, MemoryInv
<1>9. ASSUME SetException PROVE MemoryInv'
  <2>1. /\ UNCHANGED <<m_val, ready>>
        /\ at' = [at EXCEPT ![job] = "idle"]
    BY <1>9, InsideKeeps DEF SetException
  <2>2. QED
    BY <1>1, <1>4, <1>6, <2>1 DEF WorkerInv, KernelType, MemoryInv
<1>10. QED
  BY <1>3, <1>5, <1>7, <1>8, <1>9 DEF WorkerInv

(* get(): a wait that begins while the handle is the worker's is for the   *)
(* worker, or the worker has ended (promise_ex_win.h:50-99).               *)
LEMMA GetWorkerInv ==
  ASSUME WorkerInv, CheckException \/ GetGoesOn
  PROVE  WorkerInv'
<1> USE ThreadAssumption, WorkerAssumption
<1>1. nativeHandle # None
  BY DEF CheckException, GetGoesOn, BeginWait, LookAgain, Waiting, Woken,
         Terminated, ReadValue, WorkerInv, JobInv
<1>2. PICK label \in {"get", "idle"} : Inside(Main, label)
  BY DEF CheckException, GetGoesOn, BeginWait, LookAgain, Woken,
         Terminated, ReadValue, GoesOn, Returns
<1>3. Main \in Actor /\ KernelType' /\ JobInv'
  BY <1>1, <1>2, InsideWorkerInv DEF Actor
<1>4. /\ UNCHANGED <<kernel, running, nativeHandle, job, over, lost>>
      /\ at' = [at EXCEPT ![Main] = label]
  BY <1>2, InsideKeeps
<1>5. \A t \in Actor : at'[t] = "set_value" => at[t] = "set_value"
  BY <1>3, <1>4 DEF WorkerInv, KernelType
<1>6. UNCHANGED m_val
  BY DEF CheckException, GetGoesOn, BeginWait, LookAgain, Woken,
         Terminated, ReadValue, memory
<1> HIDE DEF GetGoesOn
<1>7. CASE CheckException
  <2>1. /\ get = "idle" /\ UNCHANGED <<ready, awaited>>
        /\ \/ get' = "done" /\ outcome' = "exception"
           \/ get' = "checked" /\ UNCHANGED outcome
    BY <1>7 DEF CheckException, Returns, GoesOn, memory
  <2>2. WaitingInv' /\ (Taken' => Taken)
    BY <2>1 DEF WorkerInv, WaitingInv, Taken
  <2>3. QED
    BY <1>3, <1>4, <1>5, <1>6, <2>1, <2>2 DEF WorkerInv, MemoryInv
<1>8. CASE BeginWait
  <2>1. /\ get = "checked" /\ UNCHANGED <<ready, outcome>>
        /\ \/ ~lost /\ get' = "waiting" /\ awaited' =
                IF Signaled(nativeHandle) THEN None ELSE kernel[nativeHandle]
           \/ lost /\ get' = "misled"
           \/ ~Open(nativeHandle) /\ get' = "failed"
    BY <1>8 DEF BeginWait, GoesOn, memory
  <2>2. ~lost => kernel[nativeHandle] = job /\ job # None /\ Open(nativeHandle)
    BY <1>1 DEF WorkerInv, JobInv, Open
  <2>3. ~lost => (Signaled(nativeHandle) => over)
    BY <1>1, <2>2 DEF WorkerInv, JobInv, Signaled
  <2>4. WaitingInv' /\ (Taken' => Taken)
    BY <1>4, <2>1, <2>2, <2>3 DEF WorkerInv, JobInv, WaitingInv, Taken
  <2>5. QED
    BY <1>3, <1>4, <1>5, <1>6, <2>1, <2>4 DEF WorkerInv, MemoryInv
<1>9. CASE LookAgain \/ Terminated
  <2>1. /\ get' = "done" /\ UNCHANGED ready
        /\ outcome' \in {"error", "terminated"}
    BY <1>9 DEF LookAgain, Terminated, Returns, memory
  <2>2. WaitingInv' /\ ~Taken'
    BY <2>1 DEF WaitingInv, Taken
  <2>3. QED
    BY <1>3, <1>4, <1>5, <1>6, <2>1, <2>2 DEF WorkerInv, MemoryInv
<1>10. CASE Woken
  <2>1. ready /\ ready' = FALSE /\ get' = "woken" /\ UNCHANGED outcome
        /\ get \in {"waiting", "misled"}
    BY <1>10 DEF Woken, Waiting, GoesOn
  <2>2. WaitingInv'
    BY <2>1 DEF WorkerInv, WaitingInv
  <2>3. QED
    BY <1>3, <1>4, <1>5, <1>6, <2>1, <2>2 DEF WorkerInv, MemoryInv
<1>11. CASE ReadValue
  <2>1. get = "woken" /\ get' = "done" /\ UNCHANGED ready
    BY <1>11 DEF ReadValue, Returns, memory
  <2>2. WaitingInv' /\ Taken
    BY <2>1 DEF WaitingInv, Taken
  <2>3. QED
    BY <1>3, <1>4, <1>5, <1>6, <2>1, <2>2 DEF WorkerInv, MemoryInv
<1>12. QED
  BY <1>7, <1>8, <1>9, <1>10, <1>11 DEF GetGoesOn

(* Every step keeps the invariant. *)
LEMMA NextWorkerInv ==
  ASSUME WorkerInv, [WorkerNext]_allVars
  PROVE  WorkerInv'
<1>1. CASE UNCHANGED allVars
  <2>1. UNCHANGED <<kernel, running, at, memory, getVars, workerVars>>
    BY <1>1 DEF allVars, vars
  <2>2. QED
    BY <2>1 DEF WorkerInv, KernelType, JobInv, WaitingInv, MemoryInv, Taken,
                memory, getVars, workerVars
<1>2. QED
  BY <1>1, ObservedWorkerInv, SetWorkerInv, GetWorkerInv DEF WorkerNext

-----------------------------------------------------------------------------
(* The refinement. *)

(* What a step of the threads means to PromiseEx: nothing, the end of the  *)
(* worker, or that its handle is closed or its value used again.           *)
LEMMA ObservedStep ==
  ASSUME WorkerInv, Next, Observed
  PROVE  [P!Next]_(P!vars)
<1> USE ThreadAssumption
<1>1. ThreadsStep
  BY NextKernel DEF WorkerInv
<1>2. /\ UNCHANGED <<m_val, m_exception, ready, get, outcome>>
      /\ Taken' <=> Taken
  BY DEF Observed, memory, Taken
<1>3. /\ UNCHANGED P!memory
      /\ UNCHANGED P!getters
      /\ UNCHANGED <<IF Taken THEN Main ELSE None>>
  BY <1>2 DEF P!memory, P!getters
<1>4. CASE nativeHandle = None
  <2>1. ~lost /\ UNCHANGED <<over, lost>>
    BY <1>4 DEF Observed, WorkerInv, JobInv
  <2>2. UNCHANGED <<WorkerView, HandleView>>
    BY <1>2, <2>1 DEF WorkerView, HandleView
  <2>3. QED
    BY <1>2, <1>3, <2>2 DEF P!vars
<1>5. CASE nativeHandle # None
  <2>1. /\ over' = (over \/ job \notin running') /\ UNCHANGED nativeHandle
        /\ lost' = (lost \/ kernel'[nativeHandle] # job)
    BY <1>5 DEF Observed
  <2>2. WorkerView' \in {WorkerView, "ended"}
    BY <1>2, <2>1 DEF WorkerView, WorkerInv, JobInv
  <2>3. CASE HandleView' = HandleView
    <3>1. CASE WorkerView' = WorkerView
      BY <1>2, <1>3, <2>3, <3>1 DEF P!vars
    <3>2. CASE WorkerView' # WorkerView
      <4>1. P!WorkerEnds
        BY <1>3, <2>2, <2>3, <3>2 DEF P!WorkerEnds
      <4>2. QED
        BY <4>1 DEF P!Next
    <3>3. QED
      BY <3>1, <3>2
  <2>4. CASE HandleView' = "closed" /\ HandleView # "closed"
    <3>1. P!CloseHandle
      BY <1>3, <2>2, <2>4 DEF P!CloseHandle
    <3>2. QED
      BY <3>1 DEF P!Next
  <2>5. CASE HandleView' # "closed" /\ HandleView' # HandleView
    <3>1. /\ nativeHandle \in Handle
          /\ ~lost => kernel[nativeHandle] = job /\ job # None
      BY <1>5 DEF WorkerInv, JobInv
    <3>2. lost' /\ kernel'[nativeHandle] # None /\ HandleView' = "reused"
      BY <2>1, <2>5 DEF HandleView
    <3>3. \/ kernel'[nativeHandle] \in {kernel[nativeHandle], None}
          \/ kernel[nativeHandle] = None /\ running \subseteq running'
      BY <1>1, <3>1 DEF ThreadsStep, ReusedByCreation
    <3>4. lost
      BY <2>1, <3>1, <3>2, <3>3
    <3>5. kernel[nativeHandle] = None /\ running \subseteq running'
      BY <2>5, <3>2, <3>3, <3>4 DEF HandleView
    <3>6. HandleView = "closed"
      BY <3>4, <3>5 DEF HandleView
    <3>7. over' <=> over
      BY <1>5, <2>1, <3>5 DEF WorkerInv, JobInv
    <3>8. WorkerView' = WorkerView
      BY <1>2, <3>7 DEF WorkerView
    <3>9. P!ReuseHandle
      BY <1>3, <3>2, <3>6, <3>8 DEF P!ReuseHandle
    <3>10. QED
      BY <3>9 DEF P!Next
  <2>6. QED
    BY <2>3, <2>4, <2>5
<1>6. QED
  BY <1>4, <1>5

(* set_value() and set_exception() are those of PromiseEx: the worker      *)
(* stores while what it has stored is nowhere to be seen.                  *)
LEMMA SetStep ==
  ASSUME WorkerInv,
         (\E v \in Value : SetValue(v)) \/ Signal \/ SetException
  PROVE  P!Next
<1> USE ThreadAssumption, WorkerAssumption
<1>1. nativeHandle # None /\ job \in Slot /\ job \in Actor /\ ~over
  BY DEF SetValue, Signal, SetException, AtWork, WorkerInv, JobInv, Actor
<1>2. UNCHANGED <<kernel, nativeHandle, over, lost, get, outcome>>
  BY InsideKeeps DEF SetValue, Signal, SetException, getVars
<1>3. /\ HandleView' = HandleView /\ (Taken' <=> Taken)
      /\ UNCHANGED P!getters
      /\ UNCHANGED <<IF Taken THEN Main ELSE None>>
  BY <1>2 DEF HandleView, Taken, P!getters
<1>4. ASSUME NEW v \in Value, SetValue(v) PROVE P!Set(v)
  <2>1. m_val = Zero /\ ~m_exception /\ m_val' = v /\ UNCHANGED <<m_exception, ready>>
    BY <1>4 DEF SetValue, Unfulfilled
  <2>2. ~ready /\ ~Taken
    BY <2>1 DEF WorkerInv, MemoryInv
  <2>3. WorkerView = "running" /\ WorkerView' = "storing"
    BY <1>1, <1>2, <1>3, <2>1, <2>2 DEF WorkerView
  <2>4. QED
    BY <1>3, <2>1, <2>3 DEF P!Set, P!Unfulfilled
<1>5. ASSUME Signal PROVE P!Signal
  <2>1. at[job] = "set_value" /\ ready' = TRUE /\ UNCHANGED <<m_val, m_exception>>
    BY <1>5 DEF Signal, AtWork
  <2>2. m_val \in Value /\ ~ready /\ ~Taken
    BY <1>1, <2>1 DEF WorkerInv, MemoryInv
  <2>3. WorkerView = "storing" /\ WorkerView' = "running"
    BY <1>1, <1>2, <2>1, <2>2 DEF WorkerView
  <2>4. QED
    BY <1>3, <2>1, <2>3 DEF P!Signal
<1>6. ASSUME SetException PROVE P!SetException
  <2>1. m_val = Zero /\ ~m_exception /\ m_exception' = TRUE
        /\ UNCHANGED <<m_val, ready>>
    BY <1>6 DEF SetException, Unfulfilled
  <2>2. ready = FALSE
    BY <2>1 DEF WorkerInv, MemoryInv
  <2>3. WorkerView = "running" /\ WorkerView' = "running"
    BY <1>1, <1>2, <2>1 DEF WorkerView
  <2>4. QED
    BY <1>3, <2>1, <2>2, <2>3 DEF P!SetException, P!Unfulfilled
<1>7. QED
  BY <1>4, <1>5, <1>6 DEF P!Next

(* get() is that of PromiseEx, on a handle that PromiseEx calls open,      *)
(* closed or reused as the kernel's table has it.                          *)
LEMMA GetStep ==
  ASSUME WorkerInv, CheckException \/ GetGoesOn
  PROVE  P!Next
<1> USE ThreadAssumption, WorkerAssumption
<1>1. nativeHandle # None
  BY DEF CheckException, GetGoesOn, BeginWait, LookAgain, Waiting, Woken,
         Terminated, ReadValue, WorkerInv, JobInv
<1>2. \E label : Inside(Main, label)
  BY DEF CheckException, GetGoesOn, BeginWait, LookAgain, Woken,
         Terminated, ReadValue, GoesOn, Returns
<1>3. UNCHANGED <<kernel, running, nativeHandle, over, lost>>
  BY <1>2, InsideKeeps
<1>4. HandleView' = HandleView
  BY <1>3 DEF HandleView
<1>5. HandleView = IF ~lost THEN "open"
                   ELSE IF Open(nativeHandle) THEN "reused" ELSE "closed"
  BY <1>1 DEF HandleView, Open
<1>6. ~lost => Open(nativeHandle)
  BY <1>1 DEF WorkerInv, JobInv, Open
<1>7. get # "done" => (Taken <=> get = "woken")
  BY DEF WorkerInv, WaitingInv, Taken
<1> HIDE DEF GetGoesOn
<1>8. CASE CheckException
  <2>1. /\ get = "idle" /\ UNCHANGED memory
        /\ IF m_exception THEN get' = "done" /\ outcome' = "exception"
                          ELSE get' = "checked" /\ UNCHANGED outcome
    BY <1>8 DEF CheckException, Returns, GoesOn
  <2>2. ~Taken /\ ~Taken'
    BY <1>7, <2>1 DEF Taken, WorkerInv, WaitingInv
  <2>3. WorkerView' = WorkerView
    BY <1>3, <2>1, <2>2 DEF WorkerView, memory
  <2>4. P!CheckException(Main)
    BY <1>4, <2>1, <2>2, <2>3
       DEF P!CheckException, P!Finish, P!Goto, P!memory, memory
  <2>5. QED
    BY <2>4 DEF P!Next, P!GetStep
<1>9. CASE BeginWait
  <2>1. /\ get = "checked" /\ UNCHANGED memory /\ UNCHANGED outcome
        /\ get' = IF Open(nativeHandle)
                    THEN IF lost THEN "misled" ELSE "waiting"
                    ELSE "failed"
    BY <1>9 DEF BeginWait, GoesOn
  <2>2. ~Taken /\ ~Taken'
    BY <1>7, <2>1 DEF Taken, WorkerInv, WaitingInv
  <2>3. WorkerView' = WorkerView
    BY <1>3, <2>1, <2>2 DEF WorkerView, memory
  <2>4. get' = CASE HandleView = "open" -> "waiting"
                 [] HandleView = "reused" -> "misled"
                 [] HandleView = "closed" -> "failed"
    BY <1>5, <1>6, <2>1
  <2>5. HandleView \in {"open", "reused", "closed"}
    BY <1>5
  <2>6. P!BeginWait(Main)
    BY <1>4, <2>1, <2>2, <2>3, <2>4, <2>5
       DEF P!BeginWait, P!Goto, P!memory, memory
  <2>7. QED
    BY <2>6 DEF P!Next, P!GetStep
<1>10. CASE LookAgain
  <2>1. /\ get = "failed" /\ get' = "done" /\ UNCHANGED memory
        /\ outcome' = IF Signaled(nativeHandle) THEN "error" ELSE "terminated"
    BY <1>10 DEF LookAgain, Returns
  <2>2. ~Taken /\ ~Taken' /\ lost
    BY <1>7, <2>1 DEF Taken, WorkerInv, WaitingInv
  <2>3. WorkerView' = WorkerView
    BY <1>3, <2>1, <2>2 DEF WorkerView, memory
  <2>4. Signaled(nativeHandle) => HandleView = "reused"
    BY <1>5, <2>2 DEF Signaled
  <2>5. P!LookAgain(Main)
    BY <1>4, <2>1, <2>2, <2>3, <2>4 DEF P!LookAgain, P!Finish, P!memory, memory
  <2>6. QED
    BY <2>5 DEF P!Next, P!GetStep
<1>11. CASE Woken
  <2>1. /\ get \in {"waiting", "misled"} /\ ready /\ ready' = FALSE
        /\ get' = "woken" /\ UNCHANGED <<m_val, m_exception, outcome>>
    BY <1>11 DEF Woken, Waiting, GoesOn
  <2>2. ~Taken /\ Taken'
    BY <1>7, <2>1 DEF Taken
  <2>3. WorkerView' = WorkerView
    BY <1>3, <2>1, <2>2 DEF WorkerView
  <2>4. P!Woken(Main)
    BY <1>4, <2>1, <2>2, <2>3 DEF P!Woken, P!Goto
  <2>5. QED
    BY <2>4 DEF P!Next, P!GetStep
<1>12. CASE Terminated
  <2>1. /\ get \in {"waiting", "misled"} /\ awaited = None /\ ~ready
        /\ get' = "done" /\ outcome' = "terminated" /\ UNCHANGED memory
    BY <1>12 DEF Terminated, Waiting, Returns
  <2>2. ~Taken /\ ~Taken'
    BY <1>7, <2>1 DEF Taken
  <2>3. WorkerView' = WorkerView
    BY <1>3, <2>1, <2>2 DEF WorkerView, memory
  <2>4. CASE get = "waiting"
    <3>1. WorkerView = "ended"
      BY <2>1, <2>4 DEF WorkerView, WorkerInv, WaitingInv
    <3>2. P!Terminated(Main)
      BY <1>4, <2>1, <2>2, <2>3, <2>4, <3>1
         DEF P!Terminated, P!Finish, P!memory, memory
    <3>3. QED
      BY <3>2 DEF P!Next, P!GetStep
  <2>5. CASE get = "misled"
    <3>1. P!Misreported(Main)
      BY <1>4, <2>1, <2>2, <2>3, <2>5 DEF P!Misreported, P!Finish, P!memory, memory
    <3>2. QED
      BY <3>1 DEF P!Next
  <2>6. QED
    BY <2>1, <2>4, <2>5
<1>13. CASE ReadValue
  <2>1. get = "woken" /\ get' = "done" /\ outcome' = m_val /\ UNCHANGED memory
    BY <1>13 DEF ReadValue, Returns
  <2>2. Taken /\ m_val \in Value /\ Taken'
    BY <2>1 DEF Taken, WorkerInv, MemoryInv
  <2>3. WorkerView' = WorkerView
    BY <1>3, <2>1, <2>2 DEF WorkerView, memory
  <2>4. P!ReadValue(Main)
    BY <1>4, <2>1, <2>2, <2>3 DEF P!ReadValue, P!Finish, P!memory, memory
  <2>5. QED
    BY <2>4 DEF P!Next, P!GetStep
<1>14. QED
  BY <1>8, <1>9, <1>10, <1>11, <1>12, <1>13 DEF GetGoesOn

(* What PromiseEx assumes of the worker's life, of its handle and of the   *)
(* waits for it is so for every number of threads, objects and handles,    *)
(* also with callables that use their own Thread early and clients that    *)
(* close handles (promise_ex_win.h:28-99, thread_win.cpp:63-114).          *)
THEOREM ImplementsPromise == WorkerSpec => ImplementsPromiseEx
<1>1. WorkerInit => P!Init
  BY WorkerAssumption
     DEF WorkerInit, P!Init, WorkerView, HandleView, Taken
<1>2. WorkerInv /\ [WorkerNext]_allVars => [P!Next]_(P!vars)
  <2> SUFFICES ASSUME WorkerInv, [WorkerNext]_allVars
               PROVE  [P!Next]_(P!vars)
    OBVIOUS
  <2>1. CASE UNCHANGED allVars
    <3>1. UNCHANGED <<kernel, m_val, m_exception, ready, get, outcome,
                      nativeHandle, over, lost>>
      BY <2>1 DEF allVars, vars, memory, getVars, workerVars
    <3>2. UNCHANGED <<WorkerView, HandleView>> /\ (Taken' <=> Taken)
      BY <3>1 DEF WorkerView, HandleView, Taken
    <3>3. QED
      BY <3>1, <3>2 DEF P!vars
  <2>2. QED
    BY <2>1, ObservedStep, SetStep, GetStep DEF WorkerNext
<1>3. QED
  BY <1>1, <1>2, InitWorkerInv, NextWorkerInv, PTL
     DEF WorkerSpec, ImplementsPromiseEx
=============================================================================
