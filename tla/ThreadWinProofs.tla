-------------------------- MODULE ThreadWinProofs ---------------------------
(***************************************************************************)
(* Theorems about ThreadWin, for any number of Thread objects, threads and *)
(* handles: what holds whatever clients do with handles, what holds where  *)
(* no client closes a handle behind the back of the object that holds it,  *)
(* and that ThreadWin then implements ThreadOwnership.                     *)
(***************************************************************************)
EXTENDS ThreadWin, ThreadProofs

-----------------------------------------------------------------------------
(* Whatever clients do.                                                    *)

(* Each open handle is the only one for its thread. *)
KernelInv ==
  /\ kernel \in [Handle -> Slot \cup {None}]
  /\ \A g, h \in Handle : kernel[g] # None /\ kernel[g] = kernel[h] => g = h

WinInv == SharedInv /\ NoSelfJoin /\ KernelInv

(* At the start no handle is open. *)
LEMMA InitWinInv == Init => WinInv
  BY InitSharedInv
     DEF Init, CommonInit, WinInv, KernelInv, NoSelfJoin, EndingLabel

(* ExitProcess and TerminateThread end threads where they stand; the       *)
(* caller is done with it, or has the rest of terminate() before it        *)
(* (thread_win.cpp:75-90).                                                 *)
LEMMA KillSharedInv ==
  ASSUME SharedInv, NEW a \in Actor, Idle(a), NEW S \in SUBSET Actor,
         NEW label, NEW o, Kill(S, a, label, o),
         UNCHANGED <<objVars, promise, args, crash>>,
         \/ label = "idle" /\ o = None
         \/ label = "terminated" /\ o \in Obj /\ MayCall(a, o) /\ joinable(o)
  PROVE  /\ SharedInv' /\ (NoSelfJoin => NoSelfJoin')
         /\ label = "idle" => EndedStay
<1> USE ThreadAssumption DEF SharedType, CommonTypeOK, OnObject, Actor
<1>1. /\ crash = "none" /\ crash' = "none" /\ at[a] = "idle"
      /\ at' = [b \in Actor |-> IF b \in S THEN "absent"
                                ELSE IF b = a THEN label ELSE at[b]]
      /\ on' = [b \in Actor |-> IF b \in S THEN None
                                ELSE IF b = a THEN o ELSE on[b]]
      /\ callable' = [t \in Slot |-> IF t \in S /\ callable[t] = "alive"
                                       THEN "leaked" ELSE callable[t]]
      /\ running' = running \ S
      /\ UNCHANGED <<life, ctor, m_handle, m_id, promise, args>>
  BY DEF SharedInv, ThreadInv, LabelInv, Idle, Kill, objVars
<1>2. label \in {"idle", "terminated"}
  OBVIOUS
<1>3. SharedType'
  <2>1. at' \in [Actor -> Label]
    BY <1>1, <1>2 DEF SharedInv, Label, EndingLabel
  <2>2. on' \in [Actor -> Obj \cup {None}]
    BY <1>1 DEF SharedInv
  <2>3. OnObject'
    BY <1>1, <1>2 DEF SharedInv, CtorLabel, EndingLabel
  <2>4. callable' \in [Slot -> {"none", "alive", "deleted", "leaked"}]
    BY <1>1 DEF SharedInv
  <2>5. QED
    BY <1>1, <2>1, <2>2, <2>3, <2>4 DEF SharedInv
<1>4. ThreadInv'
  <2>1. LabelInv'
    BY <1>1, <1>2 DEF SharedInv, ThreadInv, LabelInv
  <2>2. CallableInv'
    BY <1>1, <1>2 DEF SharedInv, ThreadInv, CallableInv
  <2>3. SignalInv'
    BY <1>1, <1>2 DEF SharedInv, ThreadInv, SignalInv
  <2>4. QED
    BY <2>1, <2>2, <2>3 DEF ThreadInv
<1>5. OthersStay
  BY <1>1, <1>2 DEF OthersStay, CtorLabel
<1>6. BuildInv'
  BY <1>1, <1>5, FrameBuildInv DEF SharedInv, BuildInv, HolderInv
<1>7. \A b \in Actor : b # a /\ at'[b] \in EndingLabel =>
        at[b] = at'[b] /\ on'[b] = on[b] /\ on[b] \in Obj
  BY <1>1 DEF EndingLabel, SharedInv
<1>8. at'[a] \in EndingLabel =>
        /\ label = "terminated" /\ at'[a] = label /\ on'[a] = o
        /\ o \in Obj /\ m_handle[o] # None
        /\ \/ life[o] = "alive" /\ \A b \in Actor : on[b] # o
           \/ EarlyUse /\ life[o] = "ctor" /\ ctor[o].id = a
  BY <1>1 DEF EndingLabel, MayCall, MayUse, Busy, joinable
<1>9. at'[a] \in EndingLabel =>
        \A b \in Actor : b # a /\ at[b] \in EndingLabel => on[b] # o
  BY <1>8 DEF SharedInv, WaitInv, JoinInv
<1>10. JoinInv'
  <2> SUFFICES ASSUME NEW b \in Actor, at'[b] \in EndingLabel
               PROVE  /\ life[on'[b]] = "alive" \/
                           (life[on'[b]] = "ctor" /\ ctor[on'[b]].id = b)
                      /\ m_handle[on'[b]] # None
                      /\ \A c \in Actor : c # b /\ at'[c] \in EndingLabel
                                            => on'[c] # on'[b]
                      /\ ~EarlyUse => life[on'[b]] = "alive"
    BY <1>1 DEF JoinInv
  <2>1. CASE b = a
    BY <2>1, <1>7, <1>8, <1>9
  <2>2. CASE b # a
    BY <2>2, <1>7, <1>8, <1>9 DEF SharedInv, WaitInv, JoinInv
  <2>3. QED
    BY <2>1, <2>2
<1>11. CrashInv'
  BY <1>1 DEF CrashInv
<1>12. NoSelfJoin => NoSelfJoin'
  BY <1>1, <1>2 DEF NoSelfJoin
<1>13. label = "idle" => EndedStay
  BY <1>1, <1>7 DEF EndedStay, EndingLabel
<1>14. QED
  BY <1>3, <1>4, <1>6, <1>10, <1>11, <1>12, <1>13 DEF SharedInv, WaitInv

(* waitForThread() goes on: from its wait to the second look, or to its    *)
(* return (thread_win.cpp:24-42).                                          *)
LEMMA WaitsOnSharedInv ==
  ASSUME SharedInv, NEW a \in Actor, at[a] \in EndingLabel,
         NEW label \in EndingLabel \ {"join"}, Goto(a, label, on[a]),
         UNCHANGED <<objVars, callVars, sysVars, crash>>
  PROVE  SharedInv' /\ (NoSelfJoin => NoSelfJoin')
<1> USE DEF SharedType, CommonTypeOK, OnObject
<1>1. /\ at[a] \in EndingLabel /\ on[a] \in Obj
      /\ at' = [at EXCEPT ![a] = label] /\ on' = on
      /\ at[a] \in {"join", "recheck", "missing", "waited", "terminated"}
      /\ label \in {"recheck", "missing", "waited", "terminated"}
      /\ UNCHANGED <<life, ctor, m_handle, m_id, callable, promise, args,
                     running, crash>>
  BY DEF Goto, objVars, callVars, sysVars, SharedInv, EndingLabel
<1>2. crash = "none"
  BY <1>1 DEF SharedInv, ThreadInv, LabelInv
<1>3. SharedType'
  <2>1. at' \in [Actor -> Label]
    BY <1>1 DEF SharedInv, Label, EndingLabel
  <2>2. OnObject'
    BY <1>1 DEF SharedInv, EndingLabel, CtorLabel
  <2>3. QED
    BY <1>1, <2>1, <2>2 DEF SharedInv
<1>4. ThreadInv'
  BY <1>1, <1>2, FrameThreadInv DEF SharedInv, ThreadInv, SignalInv, Actor
<1>5. OthersStay
  BY <1>1 DEF OthersStay, CtorLabel, SharedInv
<1>6. BuildInv'
  BY <1>1, <1>5, FrameBuildInv DEF SharedInv, BuildInv, HolderInv
<1>7. \A b \in Actor : at'[b] \in EndingLabel => at[b] \in EndingLabel
  BY <1>1
<1>8. JoinInv'
  BY <1>1, <1>7 DEF SharedInv, WaitInv, JoinInv
<1>9. CrashInv'
  BY <1>1, <1>2 DEF CrashInv
<1>10. NoSelfJoin => NoSelfJoin'
  BY <1>1 DEF NoSelfJoin, SharedInv
<1>11. QED
  BY <1>3, <1>4, <1>6, <1>8, <1>9, <1>10 DEF SharedInv, WaitInv

(* The steps that bring a thread into the later part of an ending. *)
StayOrMove ==
  \/ EndedStay
  \/ \E a \in Actor : \/ WaitForThread(a) \/ WaitFails(a) \/ Recheck(a)
                      \/ \E o \in Obj : Terminate(a, o)

NextShared == SharedInv' /\ (NoSelfJoin => NoSelfJoin') /\ StayOrMove

(* Every action keeps the shared invariant. *)
LEMMA NextSharedInv ==
  ASSUME SharedInv, [Next]_vars
  PROVE  NextShared
<1>0. SharedStep => NextShared
  BY DEF SharedStep, NextShared, StayOrMove
<1>1. ASSUME CommonNext PROVE NextShared
  BY <1>0, <1>1, CommonSharedInv
<1>2. ASSUME NEW a \in Actor,
            CreateThread(a)
      PROVE  NextShared
  BY <1>0, <1>2, CreatedSharedInv DEF CreateThread
<1>3. ASSUME NEW a \in Actor,
            WaitForThread(a)
      PROVE  NextShared
  <2>1. /\ at[a] \in EndingLabel /\ "waited" \in EndingLabel \ {"join"}
        /\ Goto(a, "waited", on[a])
        /\ UNCHANGED <<objVars, callVars, sysVars, crash>>
    BY <1>3 DEF WaitForThread, EndingLabel
  <2>2. SharedInv' /\ (NoSelfJoin => NoSelfJoin')
    BY <2>1, WaitsOnSharedInv
  <2>3. QED
    BY <1>3, <2>2 DEF NextShared, StayOrMove
<1>4. ASSUME NEW a \in Actor,
            WaitFails(a)
      PROVE  NextShared
  <2>1. /\ at[a] \in EndingLabel /\ "recheck" \in EndingLabel \ {"join"}
        /\ Goto(a, "recheck", on[a])
        /\ UNCHANGED <<objVars, callVars, sysVars, crash>>
    BY <1>4 DEF WaitFails, EndingLabel
  <2>2. SharedInv' /\ (NoSelfJoin => NoSelfJoin')
    BY <2>1, WaitsOnSharedInv
  <2>3. QED
    BY <1>4, <2>2 DEF NextShared, StayOrMove
<1>5. ASSUME NEW a \in Actor,
            Recheck(a)
      PROVE  NextShared
  <2>1. /\ at[a] \in EndingLabel /\ "missing" \in EndingLabel \ {"join"}
        /\ Goto(a, "idle", None) \/ Goto(a, "missing", on[a])
        /\ UNCHANGED <<objVars, callVars, sysVars, crash>>
    BY <1>5 DEF Recheck, EndingLabel
  <2>2. CASE Goto(a, "idle", None)
    BY <1>0, <2>1, <2>2, JoinEndsSharedInv DEF objVars, sysVars
  <2>3. CASE Goto(a, "missing", on[a])
    <3>1. SharedInv' /\ (NoSelfJoin => NoSelfJoin')
      BY <2>1, <2>3, WaitsOnSharedInv
    <3>2. QED
      BY <1>5, <3>1 DEF NextShared, StayOrMove
  <2>4. QED
    BY <2>1, <2>2, <2>3
<1>6. ASSUME NEW a \in Actor,
            CloseAndReset(a)
      PROVE  NextShared
  <2>1. /\ at[a] \in EndingLabel
        /\ ResetHandleAndId(on[a]) \/ UNCHANGED <<m_handle, m_id>>
        /\ Goto(a, "idle", None)
        /\ UNCHANGED <<life, ctor, callVars, running, crash>>
    BY <1>6 DEF CloseAndReset, EndingLabel
  <2>2. QED
    BY <1>0, <2>1, JoinEndsSharedInv
<1>7. ASSUME NEW a \in Actor,
            ExitProcess(a)
      PROVE  NextShared
  <2>1. /\ Idle(a) /\ Kill(Actor \ {a}, a, "idle", None)
        /\ Actor \ {a} \in SUBSET Actor
        /\ UNCHANGED <<objVars, promise, args, crash>>
    BY <1>7, Zenon DEF ExitProcess
  <2>2. SharedInv' /\ (NoSelfJoin => NoSelfJoin') /\ EndedStay
    BY <2>1, KillSharedInv
  <2>3. QED
    BY <2>2 DEF NextShared, StayOrMove
<1>8. ASSUME NEW a \in Actor, NEW o \in Obj,
            Detach(a, o)
      PROVE  NextShared
  BY <1>0, <1>8, DetachSharedInv DEF Detach
<1>9. ASSUME NEW a \in Actor, NEW o \in Obj,
            Terminate(a, o)
      PROVE  NextShared
  <2> DEFINE S == {kernel[m_handle[o]]} \cap running
  <2>1. S \in SUBSET Actor
    BY DEF SharedInv, SharedType, CommonTypeOK, Actor
  <2>2. /\ Idle(a) /\ MayCall(a, o) /\ joinable(o)
        /\ Kill(S, a, "terminated", o)
        /\ UNCHANGED <<objVars, promise, args, crash>>
    BY <1>9, Zenon DEF Terminate
  <2> HIDE DEF S
  <2>3. SharedInv' /\ (NoSelfJoin => NoSelfJoin')
    BY <2>1, <2>2, KillSharedInv
  <2>4. QED
    BY <1>9, <2>3 DEF NextShared, StayOrMove
<1>10. ASSUME NEW t \in Slot,
            ExitThread(t)
      PROVE  NextShared
  BY <1>0, <1>10, ExitSharedInv DEF ExitThread
<1>11. ASSUME NEW o \in Obj,
            ClientClosesHandle(o)
      PROVE  NextShared
  BY <1>0, <1>11, KernelSharedInv DEF ClientClosesHandle
<1>12. CASE UNCHANGED vars
  BY <1>0, <1>12, KernelSharedInv DEF vars, objVars, actorVars, callVars
<1>13. QED
  BY <1>1, <1>2, <1>3, <1>4, <1>5, <1>6, <1>7, <1>8, <1>9, <1>10, <1>11, <1>12
     DEF Next

(* o closes the handle it holds and resets; the thread behind it goes on   *)
(* or has ended before.                                                    *)
GivesUp(o) ==
  /\ m_handle[o] # None
  /\ kernel[m_handle[o]] # None
  /\ kernel' = [kernel EXCEPT ![m_handle[o]] = None]
  /\ ResetHandleAndId(o)
  /\ UNCHANGED <<life, ctor, callable, running>>

(* Threads end, or nothing of note happens. *)
KeepsHandles ==
  running' \subseteq running /\ UNCHANGED <<life, ctor, m_handle, m_id, kernel>>

NextEffect ==
  \/ CommonEffect
  \/ \E a \in Actor : CreateThread(a)
  \/ \E o \in Obj : GivesUp(o)
  \/ KeepsHandles
  \/ \E o \in Obj : ClientClosesHandle(o)

(* What any step does to the handles. *)
LEMMA NextEffects ==
  ASSUME SharedInv, [Next]_vars
  PROVE  NextEffect
<1> USE DEF objVars, actorVars, callVars, sysVars
<1>1. ASSUME CommonNext PROVE NextEffect
  BY <1>1, CommonEffects DEF NextEffect
<1>2. ASSUME NEW a \in Actor,
            CreateThread(a)
      PROVE  NextEffect
  BY <1>2 DEF NextEffect
<1>3. ASSUME NEW a \in Actor,
            WaitForThread(a)
      PROVE  NextEffect
  BY <1>3 DEF WaitForThread, KeepsHandles, NextEffect
<1>4. ASSUME NEW a \in Actor,
            WaitFails(a)
      PROVE  NextEffect
  BY <1>4 DEF WaitFails, KeepsHandles, NextEffect
<1>5. ASSUME NEW a \in Actor,
            Recheck(a)
      PROVE  NextEffect
  BY <1>5 DEF Recheck, KeepsHandles, NextEffect
<1>6. ASSUME NEW a \in Actor,
            CloseAndReset(a)
      PROVE  NextEffect
  <2>1. on[a] \in Obj
    BY <1>6 DEF CloseAndReset, SharedInv, SharedType, OnObject, EndingLabel
  <2>2. GivesUp(on[a]) \/ KeepsHandles
    BY <1>6 DEF CloseAndReset, CloseHandleAndCheck, Open, GivesUp, KeepsHandles
  <2>3. QED
    BY <2>1, <2>2 DEF NextEffect
<1>7. ASSUME NEW a \in Actor,
            ExitProcess(a)
      PROVE  NextEffect
  BY <1>7 DEF ExitProcess, Kill, KeepsHandles, NextEffect
<1>8. ASSUME NEW a \in Actor, NEW o \in Obj,
            Detach(a, o)
      PROVE  NextEffect
  <2>1. GivesUp(o)
    BY <1>8 DEF Detach, CloseHandleAndCheck, Open, GivesUp
  <2>2. QED
    BY <2>1 DEF NextEffect
<1>9. ASSUME NEW a \in Actor, NEW o \in Obj,
            Terminate(a, o)
      PROVE  NextEffect
  BY <1>9 DEF Terminate, Kill, KeepsHandles, NextEffect
<1>10. ASSUME NEW t \in Slot,
            ExitThread(t)
      PROVE  NextEffect
  BY <1>10 DEF ExitThread, KeepsHandles, NextEffect
<1>11. ASSUME NEW o \in Obj,
            ClientClosesHandle(o)
      PROVE  NextEffect
  BY <1>11 DEF NextEffect
<1>12. CASE UNCHANGED vars
  BY <1>12 DEF vars, KeepsHandles, NextEffect
<1>13. QED
  BY <1>1, <1>2, <1>3, <1>4, <1>5, <1>6, <1>7, <1>8, <1>9, <1>10, <1>11, <1>12
     DEF Next

(* Handles are opened for new threads only, and otherwise only closed. *)
LEMMA NextWinInv == WinInv /\ [Next]_vars => WinInv'
<1> SUFFICES ASSUME WinInv, [Next]_vars PROVE WinInv'
  OBVIOUS
<1>1. SharedInv /\ SharedInv' /\ NoSelfJoin' /\ NextEffect
  BY NextSharedInv, NextEffects DEF WinInv, NextShared
<1> USE ThreadAssumption DEF WinInv, KernelInv
<1>2. CASE CommonEffect
  BY <1>1, <1>2 DEF CommonEffect
<1>3. ASSUME NEW a \in Actor, CreateThread(a) PROVE KernelInv'
  BY <1>3 DEF CreateThread
<1>4. ASSUME NEW o \in Obj, GivesUp(o) PROVE KernelInv'
  BY <1>4 DEF GivesUp
<1>5. CASE KeepsHandles
  BY <1>1, <1>5 DEF KeepsHandles
<1>6. ASSUME NEW o \in Obj, ClientClosesHandle(o) PROVE KernelInv'
  BY <1>6 DEF ClientClosesHandle
<1> HIDE DEF KernelInv
<1>7. QED
  BY <1>1, <1>2, <1>3, <1>4, <1>5, <1>6 DEF NextEffect

(* Types, threads, constructors and joins, throughout. *)
LEMMA WinInvariance == Spec => []WinInv
  BY InitWinInv, NextWinInv, PTL DEF Spec

(* Every variable keeps its type (thread.h:61-69 and the kernel that       *)
(* thread_win.cpp speaks to).                                              *)
THEOREM TypeCorrect == Spec => []TypeOK
<1>1. WinInv => TypeOK
  BY DEF WinInv, KernelInv, SharedInv, SharedType, TypeOK
<1>2. QED
  BY <1>1, WinInvariance, PTL

(* No thread ends by itself and leaves its Callable behind: threadProc     *)
(* owns what initialize has released (thread_win.cpp:12-17, 92-114).       *)
THEOREM NoCallableLeak == Spec => []CallableNotLeaked
<1>1. WinInv => CallableNotLeaked
  BY DEF WinInv, SharedInv, ThreadInv, CallableInv, CallableNotLeaked
<1>2. QED
  BY <1>1, WinInvariance, PTL

(* No thread uses a Callable that has been deleted, from the creation of   *)
(* the thread to the end of execute() (thread_win.cpp:14-15, 94-110).      *)
THEOREM CallableOutlivesUse == Spec => []CallableAliveWhileUsed
<1>1. WinInv => CallableAliveWhileUsed
  BY DEF WinInv, SharedInv, ThreadInv, CallableInv, CallableAliveWhileUsed,
         SharedType, CommonTypeOK
<1>2. QED
  BY <1>1, WinInvariance, PTL

(* Neither side of `started` is left with a promise that is gone, though   *)
(* the creator may be killed while it waits (thread.h:92-113).             *)
THEOREM PromiseOutlivesUse == Spec => []PromiseAliveWhileUsed
<1>1. WinInv => PromiseAliveWhileUsed
  BY DEF WinInv, SharedInv, ThreadInv, SignalInv, BuildInv, CtorInv, CtorLabel,
         PromiseAliveWhileUsed
<1>2. QED
  BY <1>1, WinInvariance, PTL

(* A handle that is no longer held has just been closed, and one that has  *)
(* just been opened is held.                                               *)
LEMMA NextHeld ==
  ASSUME WinInv, [Next]_vars
  PROVE  \A h \in Handle : /\ Held(h) /\ ~Held(h)' => Open(h) /\ ~Open(h)'
                           /\ Open(h)' => Open(h) \/ Held(h)'
<1> DEFINE HeldStep ==
      \A h \in Handle : /\ Held(h) /\ ~Held(h)' => Open(h) /\ ~Open(h)'
                        /\ Open(h)' => Open(h) \/ Held(h)'
<1> USE ThreadAssumption
        DEF WinInv, KernelInv, SharedInv, SharedType, CommonTypeOK
<1>1. NextEffect
  BY NextEffects
<1>2. CASE CommonEffect
  <2>1. kernel' = kernel
    BY <1>2 DEF CommonEffect
  <2>2. \A h \in Handle : Held(h) => Held(h)'
    BY <1>2, PairsMoveHeld DEF CommonEffect
  <2>3. QED
    BY <2>1, <2>2 DEF Open
<1>3. ASSUME NEW a \in Actor, CreateThread(a) PROVE HeldStep
  <2>1. PICK t \in Slot, h \in Handle :
          /\ Created(a, t, h)
          /\ kernel' = [kernel EXCEPT ![h] = t]
    BY <1>3 DEF CreateThread
  <2>2. /\ on[a] \in Obj /\ Holds(on[a]) = None /\ Holds(on[a])' = h
        /\ \A p \in Obj : p # on[a] => Holds(p)' = Holds(p)
        /\ UNCHANGED on
    BY <2>1, CreatedHolds
  <2>3. ASSUME NEW g \in Handle, Held(g) PROVE Held(g)'
    <3>1. PICK p \in Obj : Holds(p) = g
      BY <2>3 DEF Held
    <3>2. Holds(p)' = g
      BY <2>2, <3>1
    <3>3. QED
      BY <3>2 DEF Held
  <2>4. Held(h)'
    BY <2>2 DEF Held
  <2>5. \A g \in Handle : g # h => kernel'[g] = kernel[g]
    BY <2>1
  <2>6. QED
    BY <2>3, <2>4, <2>5 DEF Open
<1>4. ASSUME NEW o \in Obj, GivesUp(o) PROVE HeldStep
  <2>1. /\ m_handle[o] \in Handle /\ Open(m_handle[o]) /\ Holds(o) = m_handle[o]
        /\ kernel' = [kernel EXCEPT ![m_handle[o]] = None]
    BY <1>4, ResetHolds DEF GivesUp, Open
  <2>2. \A p \in Obj : p # o => Holds(p)' = Holds(p)
    BY <1>4, ResetHolds DEF GivesUp
  <2>3. \A h \in Handle : h # m_handle[o] => (Held(h) => Held(h)')
    BY <2>1, <2>2 DEF Held
  <2>4. QED
    BY <2>1, <2>3 DEF Open
<1>5. CASE KeepsHandles
  BY <1>5 DEF KeepsHandles, Held, Holds, joinable, Open
<1>6. ASSUME NEW o \in Obj, ClientClosesHandle(o) PROVE HeldStep
  BY <1>6 DEF ClientClosesHandle, objVars, Held, Holds, joinable, Open
<1>7. QED
  BY <1>1, <1>2, <1>3, <1>4, <1>5, <1>6 DEF NextEffect

(* Only these steps let a join() or a terminate() return. *)
LEMMA NextEnds ==
  ASSUME SharedInv, [Next]_vars
  PROVE  StillJoining \/ \E a \in Actor : CloseAndReset(a) \/ Recheck(a)
<1> USE ThreadAssumption
        DEF SharedInv, SharedType, CommonTypeOK, StillJoining, EndingLabel
<1>1. ASSUME CommonNext PROVE StillJoining
  BY <1>1, CommonEffects DEF CommonEffect
<1>2. ASSUME NEW a \in Actor,
            CreateThread(a)
      PROVE  StillJoining
  BY <1>2 DEF CreateThread, Created
<1>3. ASSUME NEW a \in Actor,
            WaitForThread(a) \/ WaitFails(a)
      PROVE  StillJoining
  BY <1>3 DEF WaitForThread, WaitFails, Goto
<1>4. ASSUME NEW a \in Actor,
            ExitProcess(a)
      PROVE  StillJoining
  BY <1>4 DEF ExitProcess, Kill, Idle
<1>5. ASSUME NEW a \in Actor, NEW o \in Obj,
            Detach(a, o)
      PROVE  StillJoining
  BY <1>5 DEF Detach, actorVars
<1>6. ASSUME NEW a \in Actor, NEW o \in Obj,
            Terminate(a, o)
      PROVE  StillJoining
  BY <1>6 DEF Terminate, Kill
<1>7. ASSUME NEW t \in Slot,
            ExitThread(t)
      PROVE  StillJoining
  BY <1>7 DEF ExitThread, Goto, Actor
<1>8. ASSUME NEW o \in Obj,
            ClientClosesHandle(o)
      PROVE  StillJoining
  BY <1>8 DEF ClientClosesHandle, actorVars
<1>9. CASE UNCHANGED vars
  BY <1>9 DEF vars
<1> HIDE DEF SharedInv, StillJoining
<1>10. QED
  BY <1>1, <1>2, <1>3, <1>4, <1>5, <1>6, <1>7, <1>8, <1>9 DEF Next

(* The only thread that returns is the one that takes the step. *)
LEMMA OneReturns ==
  ASSUME SharedInv, NEW a \in Actor, at[a] \in EndingLabel,
         Goto(a, "idle", None) \/ Goto(a, "missing", on[a])
  PROVE  \A b \in Actor : at[b] \in EndingLabel /\ at'[b] = "idle" => b = a
  BY DEF SharedInv, SharedType, CommonTypeOK, Goto, EndingLabel

(* What an object has, and what it gives up (thread.cpp:44-97). *)
LEMMA NextGiveUp ==
  ASSUME WinInv, [Next]_vars
  PROVE  GiveUpStep
<1> USE DEF WinInv, SharedInv, SharedType, CommonTypeOK, joinable
<1>1. NextEffect
  BY NextEffects
<1>2. CASE CommonEffect
  <2>1. kernel' = kernel /\ MembersMove
    BY <1>2 DEF CommonEffect
  <2>2. CASE m_handle' = m_handle
    BY <2>2 DEF GiveUpStep
  <2>3. ASSUME NEW p \in Obj, NEW q \in Obj,
               m_handle' = [m_handle EXCEPT ![p] = m_handle[q], ![q] = m_handle[p]],
               m_id' = [m_id EXCEPT ![p] = m_id[q], ![q] = m_id[p]]
        PROVE  GiveUpStep
    BY <2>1, <2>3 DEF GiveUpStep
  <2>4. ASSUME NEW p \in Obj, m_handle[p] = None,
               m_handle' = [m_handle EXCEPT ![p] = ctor[p].handle]
        PROVE  GiveUpStep
    BY <2>4 DEF GiveUpStep
  <2>5. QED
    BY <2>1, <2>2, <2>3, <2>4 DEF MembersMove
<1>3. ASSUME NEW a \in Actor, CreateThread(a) PROVE GiveUpStep
  BY <1>3 DEF CreateThread, Created, GiveUpStep
<1>4. ASSUME NEW o \in Obj, GivesUp(o) PROVE GiveUpStep
  BY <1>4 DEF GivesUp, ResetHandleAndId, Open, KernelInv, GiveUpStep
<1>5. CASE KeepsHandles
  BY <1>5 DEF KeepsHandles, GiveUpStep
<1>6. ASSUME NEW o \in Obj, ClientClosesHandle(o) PROVE GiveUpStep
  BY <1>6 DEF ClientClosesHandle, objVars, GiveUpStep
<1>7. QED
  BY <1>1, <1>2, <1>3, <1>4, <1>5, <1>6 DEF NextEffect

(* An ending throws before it has changed anything, or it returns          *)
(* (thread_win.cpp:63-90).                                                 *)
LEMMA NextAllOrNothing ==
  ASSUME WinInv, [Next]_vars
  PROVE  AllOrNothing
<1> USE ThreadAssumption DEF WinInv
<1>0. CASE StillJoining
  BY <1>0 DEF StillJoining, AllOrNothing
<1>1. ASSUME NEW a \in Actor, at[a] \in EndingLabel
      PROVE  on[a] \in Obj /\ m_handle[on[a]] # None
                /\ m_handle[on[a]] \in Handle
  BY <1>1 DEF SharedInv, SharedType, CommonTypeOK, OnObject, WaitInv, JoinInv
<1>2. ASSUME NEW a \in Actor, CloseAndReset(a) PROVE AllOrNothing
  <2>1. at[a] \in EndingLabel /\ Goto(a, "idle", None)
    BY <1>2 DEF CloseAndReset, EndingLabel
  <2>2. m_handle'[on[a]] = None <=> kernel' # kernel
    <3>1. CASE Open(m_handle[on[a]])
      BY <1>1, <1>2, <2>1, <3>1
         DEF CloseAndReset, CloseHandleAndCheck, ResetHandleAndId, Open,
             KernelInv, SharedInv, SharedType, CommonTypeOK
    <3>2. CASE ~Open(m_handle[on[a]])
      BY <1>1, <1>2, <2>1, <3>2 DEF CloseAndReset
    <3>3. QED
      BY <3>1, <3>2
  <2>3. QED
    BY <2>1, <2>2, OneReturns DEF AllOrNothing
<1>3. ASSUME NEW a \in Actor, Recheck(a) PROVE AllOrNothing
  <2>1. /\ at[a] \in EndingLabel
        /\ Goto(a, "idle", None) \/ Goto(a, "missing", on[a])
        /\ m_handle' = m_handle /\ kernel' = kernel
    BY <1>3 DEF Recheck, EndingLabel, objVars, sysVars
  <2>2. \A b \in Actor : at[b] \in EndingLabel /\ at'[b] = "idle" => b = a
    BY <2>1, OneReturns
  <2>3. QED
    BY <1>1, <2>1, <2>2 DEF AllOrNothing
<1>4. QED
  BY <1>0, <1>2, <1>3, NextEnds

(* Only closing a handle, or passing the pair on, takes it from an object  *)
(* that holds it, and the three endings change all or nothing, also when   *)
(* clients close handles between the system calls of one of them           *)
(* (thread.cpp:44-74, thread_win.cpp:63-90).                               *)
THEOREM HandlesGivenUpClosed == Spec => GivenUpOnlyWhenClosed
<1>1. WinInv /\ [Next]_vars => [GiveUpStep /\ AllOrNothing]_vars
  BY NextGiveUp, NextAllOrNothing
<1>2. QED
  BY <1>1, WinInvariance, PTL DEF Spec, GivenUpOnlyWhenClosed

(* No open handle is out of the reach of every object, whichever way       *)
(* constructors, moves and the three endings go (thread.cpp:24-97).        *)
THEOREM HandlesNotLeaked == Spec => []NoHandleLeak
<1>1. Init => NoHandleLeak
  BY DEF Init, NoHandleLeak, Open
<1>2. WinInv /\ NoHandleLeak /\ [Next]_vars => NoHandleLeak'
  BY NextHeld DEF NoHandleLeak, Held
<1>3. QED
  BY <1>1, <1>2, WinInvariance, PTL DEF Spec

-----------------------------------------------------------------------------
(* Ownership of handles, where no client closes a handle behind the back   *)
(* of the object that holds it.                                            *)

(* A handle that an object or a constructor holds is open, for the thread  *)
(* whose id it keeps with the handle.                                      *)
PairInv ==
  \A o \in Obj : Holds(o) # None =>
    /\ kernel[Holds(o)] # None
    /\ kernel[Holds(o)] = Partner(o)

OwnInv == PairInv /\ OwnershipExclusive

(* At the start nobody holds a handle. *)
LEMMA InitOwnInv == Init => OwnInv
  BY DEF Init, CommonInit, OwnInv, PairInv, OwnershipExclusive, Holds, joinable,
         NoCtor

(* Every step keeps each handle with one holder, and open with its id. *)
LEMMA NextOwnInv ==
  ASSUME ~ClientCloses, WinInv, OwnInv, [Next]_vars
  PROVE  OwnInv'
<1> USE ThreadAssumption
        DEF WinInv, KernelInv, SharedInv, SharedType, CommonTypeOK
<1>1. NextEffect
  BY NextEffects
<1>2. CASE CommonEffect
  <2>1. kernel' = kernel /\ PairsMove
    BY <1>2 DEF CommonEffect
  <2>2. CASE \A o \in Obj : PairStays(o)
    BY <2>1, <2>2 DEF PairStays, OwnInv, PairInv, OwnershipExclusive
  <2>3. ASSUME NEW o \in Obj, NEW p \in Obj, PairMoves(o, p), PairMoves(p, o),
               \A q \in Obj \ {o, p} : PairStays(q)
        PROVE  OwnInv'
    BY <2>1, <2>3 DEF PairStays, PairMoves, OwnInv, PairInv, OwnershipExclusive
  <2>4. QED
    BY <2>1, <2>2, <2>3 DEF PairsMove
<1>3. ASSUME NEW a \in Actor, CreateThread(a) PROVE OwnInv'
  <2>1. PICK t \in Slot, h \in Handle :
          /\ kernel[h] = None
          /\ Created(a, t, h)
          /\ kernel' = [kernel EXCEPT ![h] = t]
    BY <1>3 DEF CreateThread, Open
  <2>2. /\ on[a] \in Obj /\ Holds(on[a])' = h /\ Partner(on[a])' = t
        /\ \A p \in Obj : p # on[a] =>
             Holds(p)' = Holds(p) /\ Partner(p)' = Partner(p)
        /\ UNCHANGED on
    BY <2>1, CreatedHolds
  <2>3. /\ \A p \in Obj : Holds(p) # h
        /\ \A p \in Obj : Holds(p) # None => kernel'[Holds(p)] = kernel[Holds(p)]
    BY <2>1 DEF OwnInv, PairInv, Holds, joinable, CtorLocals
  <2>4. kernel'[h] = t /\ t # None
    BY <2>1
  <2>5. PairInv'
    BY <2>2, <2>3, <2>4 DEF OwnInv, PairInv
  <2>6. OwnershipExclusive'
    BY <2>2, <2>3 DEF OwnInv, OwnershipExclusive
  <2>7. QED
    BY <2>5, <2>6 DEF OwnInv
<1>4. ASSUME NEW o \in Obj, GivesUp(o) PROVE OwnInv'
  <2>1. /\ Holds(o) = m_handle[o] /\ Holds(o) # None /\ Holds(o)' = None
        /\ \A p \in Obj : p # o => Holds(p)' = Holds(p) /\ Partner(p)' = Partner(p)
    BY <1>4, ResetHolds DEF GivesUp
  <2>2. \A p \in Obj : p # o /\ Holds(p) # None =>
          kernel'[Holds(p)] = kernel[Holds(p)]
    BY <1>4, <2>1
       DEF GivesUp, OwnInv, OwnershipExclusive, Holds, joinable, CtorLocals
  <2>3. QED
    BY <2>1, <2>2 DEF OwnInv, PairInv, OwnershipExclusive
<1>5. CASE KeepsHandles
  BY <1>5 DEF KeepsHandles, OwnInv, PairInv, OwnershipExclusive, Holds, Partner,
              joinable
<1>6. ASSUME NEW o \in Obj, ClientClosesHandle(o) PROVE OwnInv'
  BY <1>6 DEF ClientClosesHandle
<1>7. QED
  BY <1>1, <1>2, <1>3, <1>4, <1>5, <1>6 DEF NextEffect

(* In the later part of join() or terminate() the thread has ended: where  *)
(* handles stay open, the second look of waitForThread() is never taken.   *)
EndedInv ==
  \A a \in Actor : at[a] \in EndingLabel \ {"join"} =>
    /\ at[a] \in {"waited", "terminated"}
    /\ Target(on[a]) \notin running

(* A step keeps the thread behind such a handle where it is: ended. *)
LEMMA NextEndedInv ==
  ASSUME ~ClientCloses, WinInv, OwnInv, EndedInv, [Next]_vars
  PROVE  EndedInv'
<1> USE ThreadAssumption
<1>1. NextEffect /\ StayOrMove
  BY NextEffects, NextSharedInv DEF WinInv, NextShared
<1>2. ASSUME NEW b \in Actor, at[b] \in EndingLabel
      PROVE  /\ on[b] \in Obj /\ m_handle[on[b]] # None
             /\ m_handle[on[b]] \in Handle /\ kernel[m_handle[on[b]]] # None
             /\ Target(on[b]) = kernel[m_handle[on[b]]]
  <2>1. /\ on[b] \in Obj /\ m_handle[on[b]] # None
        /\ m_handle[on[b]] \in Handle
    BY <1>2 DEF WinInv, SharedInv, SharedType, CommonTypeOK, OnObject, WaitInv,
                JoinInv
  <2>2. QED
    BY <2>1 DEF OwnInv, PairInv, Holds, Target, joinable
<1>3. CASE EndedStay
  <2> SUFFICES ASSUME NEW b \in Actor, at'[b] \in EndingLabel \ {"join"}
               PROVE  /\ at'[b] \in {"waited", "terminated"}
                      /\ Target(on[b])' \notin running'
    BY DEF EndedInv, Target, joinable
  <2> DEFINE o == on[b]  h == m_handle[on[b]]
  <2>1. /\ at'[b] = at[b] /\ on'[b] = o /\ m_handle'[o] = h
        /\ at[b] \in {"waited", "terminated"} /\ Target(o) \notin running
    BY <1>3 DEF EndedStay, EndedInv
  <2>2. /\ o \in Obj /\ h # None /\ h \in Handle /\ kernel[h] # None
        /\ Target(o) = kernel[h]
    BY <1>2, <2>1 DEF EndingLabel
  <2>3. Target(on[b])' = kernel'[h]
    BY <2>1, <2>2 DEF Target, joinable
  <2>4. kernel'[h] \notin running'
    <3>1. CASE CommonEffect
      BY <2>1, <2>2, <3>1 DEF CommonEffect
    <3>2. ASSUME NEW a \in Actor, CreateThread(a)
          PROVE  kernel'[h] \notin running'
      <4>1. PICK t \in Slot, g \in Handle :
              /\ kernel[g] = None /\ kernel[h] # t
              /\ running' = running \cup {t}
              /\ kernel' = [kernel EXCEPT ![g] = t]
        BY <2>2, <3>2 DEF CreateThread, Created, Open
      <4>2. QED
        BY <2>1, <2>2, <4>1
    <3>3. ASSUME NEW p \in Obj, GivesUp(p)
          PROVE  kernel'[h] \notin running'
      <4>1. kernel'[h] \in {kernel[h], None} /\ running' = running
        BY <2>2, <3>3 DEF GivesUp, WinInv, KernelInv
      <4>2. None \notin running
        BY DEF WinInv, SharedInv, SharedType, CommonTypeOK
      <4>3. QED
        BY <2>1, <2>2, <4>1, <4>2
    <3>4. CASE KeepsHandles
      BY <2>1, <2>2, <3>4 DEF KeepsHandles
    <3>5. ASSUME NEW p \in Obj, ClientClosesHandle(p)
          PROVE  kernel'[h] \notin running'
      BY <3>5 DEF ClientClosesHandle
    <3>6. QED
      BY <1>1, <3>1, <3>2, <3>3, <3>4, <3>5 DEF NextEffect
  <2>5. QED
    BY <2>1, <2>3, <2>4
<1>4. ASSUME NEW a \in Actor, WaitForThread(a) PROVE EndedInv'
  <2>1. /\ at[a] = "join" /\ on[a] \in Obj
        /\ kernel[m_handle[on[a]]] \notin running
        /\ Target(on[a]) = kernel[m_handle[on[a]]]
    BY <1>2, <1>4 DEF WaitForThread, Signaled, EndingLabel
  <2>2. /\ at' = [at EXCEPT ![a] = "waited"] /\ on' = on
        /\ m_handle' = m_handle /\ kernel' = kernel /\ running' = running
    BY <1>4 DEF WaitForThread, Goto, objVars, sysVars, WinInv, SharedInv,
                SharedType, CommonTypeOK
  <2>3. QED
    BY <2>1, <2>2
       DEF EndedInv, Target, joinable, WinInv, SharedInv, SharedType, CommonTypeOK
<1>5. ASSUME NEW a \in Actor, WaitFails(a) PROVE FALSE
  BY <1>2, <1>5 DEF WaitFails, Open, EndingLabel
<1>6. ASSUME NEW a \in Actor, Recheck(a) PROVE FALSE
  BY <1>6 DEF Recheck, EndedInv, EndingLabel
<1>7. ASSUME NEW a \in Actor, NEW o \in Obj, Terminate(a, o) PROVE EndedInv'
  <2> DEFINE t == kernel[m_handle[o]]
  <2>1. /\ m_handle[o] # None /\ m_handle' = m_handle /\ kernel' = kernel
        /\ running' = running \ ({t} \cap running)
        /\ at' = [b \in Actor |-> IF b \in {t} \cap running THEN "absent"
                                  ELSE IF b = a THEN "terminated" ELSE at[b]]
        /\ on' = [b \in Actor |-> IF b \in {t} \cap running THEN None
                                  ELSE IF b = a THEN o ELSE on[b]]
    BY <1>7 DEF Terminate, Kill, joinable, objVars
  <2>2. \A p : Target(p)' = Target(p)
    BY <2>1 DEF Target, joinable
  <2>3. Target(o) = t /\ t \notin running'
    BY <2>1 DEF Target, joinable
  <2> SUFFICES ASSUME NEW b \in Actor, at'[b] \in EndingLabel \ {"join"}
               PROVE  /\ at'[b] \in {"waited", "terminated"}
                      /\ Target(on'[b]) \notin running'
    BY <2>1 DEF EndedInv, Target, joinable
  <2> HIDE DEF t
  <2>4. b \notin {t} \cap running
    BY <2>1 DEF EndingLabel
  <2>5. CASE b = a
    BY <2>1, <2>3, <2>4, <2>5
  <2>6. CASE b # a
    BY <2>1, <2>4, <2>6 DEF EndedInv
  <2>7. QED
    BY <2>5, <2>6
<1>8. QED
  BY <1>1, <1>3, <1>4, <1>5, <1>6, <1>7 DEF StayOrMove

(* Types and ownership, throughout. *)
LEMMA OwnInvariance ==
  ASSUME ~ClientCloses
  PROVE  Spec => [](WinInv /\ OwnInv /\ EndedInv)
<1>1. Init => WinInv /\ OwnInv /\ EndedInv
  BY InitWinInv, InitOwnInv DEF Init, CommonInit, EndedInv, EndingLabel
<1>2. WinInv /\ OwnInv /\ EndedInv /\ [Next]_vars => (WinInv /\ OwnInv /\ EndedInv)'
  BY NextWinInv, NextOwnInv, NextEndedInv
<1>3. QED
  BY <1>1, <1>2, PTL DEF Spec

(* A join() that returns has waited for the thread to end, and a           *)
(* terminate() has ended it: no other thread gets its handle value or its  *)
(* id before the handle is closed, and waitForThread() returns in no other *)
(* way (thread.cpp:44-74, thread_win.cpp:19-90).                           *)
THEOREM JoinHasWaited ==
  ASSUME ~ClientCloses
  PROVE  Spec => JoinWaits
<1>1. WinInv /\ EndedInv /\ [Next]_vars => [EndingStep]_vars
  <2> SUFFICES ASSUME WinInv, EndedInv, [Next]_vars PROVE EndingStep
    OBVIOUS
  <2>1. CASE StillJoining
    BY <2>1 DEF StillJoining, EndingStep
  <2>2. ASSUME NEW a \in Actor, CloseAndReset(a) PROVE EndingStep
    <3>1. /\ at[a] \in EndingLabel \ {"join"} /\ Goto(a, "idle", None)
      BY <2>2 DEF CloseAndReset, EndingLabel
    <3>2. \A b \in Actor : at[b] \in EndingLabel /\ at'[b] = "idle" => b = a
      BY <3>1, OneReturns DEF WinInv
    <3>3. Target(on[a]) \notin running
      BY <3>1 DEF EndedInv
    <3>4. \A t \in Slot : callable[t] = "alive" => t \in running
      BY DEF WinInv, SharedInv, ThreadInv, CallableInv
    <3>5. QED
      BY <3>2, <3>3, <3>4 DEF EndingStep
  <2>3. ASSUME NEW a \in Actor, Recheck(a) PROVE FALSE
    BY <2>3 DEF Recheck, EndedInv, EndingLabel
  <2>4. QED
    BY <2>1, <2>2, <2>3, NextEnds DEF WinInv
<1>2. QED
  BY <1>1, OwnInvariance, PTL DEF Spec, JoinWaits

(* No handle is ever held by two objects, also when its value is used      *)
(* again (thread.cpp:24-27, 76-97).                                        *)
THEOREM HandlesExclusive ==
  ASSUME ~ClientCloses
  PROVE  Spec => []OwnershipExclusive
<1>1. OwnInv => OwnershipExclusive
  BY DEF OwnInv
<1>2. QED
  BY <1>1, OwnInvariance, PTL

(* m_id is always the id of the thread behind m_handle, which              *)
(* Thread::join relies on (thread.cpp:48, thread.h:108).                   *)
THEOREM HandleAndIdMatch ==
  ASSUME ~ClientCloses
  PROVE  Spec => []HandleMatchesId
<1>1. OwnInv => HandleMatchesId
  BY DEF OwnInv, PairInv, HandleMatchesId, Holds, Partner, joinable, Open
<1>2. QED
  BY <1>1, OwnInvariance, PTL

(* No thread waits for itself, where no callable uses a Thread that is     *)
(* still being built (thread.cpp:48-51).                                   *)
THEOREM NeverWaitsForItself ==
  ASSUME ~ClientCloses, ~EarlyUse
  PROVE  Spec => []NoSelfWait
<1>1. WinInv /\ OwnInv => NoSelfWait
  <2> SUFFICES ASSUME WinInv, OwnInv, NEW a \in Slot, at[a] = "join"
               PROVE  Target(on[a]) # a
    BY DEF NoSelfWait
  <2>1. a \in Actor /\ on[a] \in Obj
    BY DEF WinInv, SharedInv, SharedType, OnObject, EndingLabel, Actor
  <2>2. m_handle[on[a]] # None /\ life[on[a]] = "alive" /\ m_id[on[a]] # a
    BY <2>1 DEF WinInv, NoSelfJoin, SharedInv, WaitInv, JoinInv, EndingLabel
  <2>3. QED
    BY <2>1, <2>2 DEF OwnInv, PairInv, Holds, Partner, Target, joinable
<1>2. QED
  BY <1>1, OwnInvariance, PTL

(* The crash for a self-join strikes only threads that join themselves     *)
(* (thread.cpp:48-51).                                                     *)
THEOREM SelfJoinOnlyIfSelf ==
  ASSUME ~ClientCloses
  PROVE  Spec => []SelfJoinCrashIsReal
<1>1. WinInv /\ OwnInv => SelfJoinCrashIsReal
  <2> SUFFICES ASSUME WinInv, OwnInv, crash = "selfJoin"
               PROVE  \E a \in Slot : on[a] # None /\ Target(on[a]) = a
    BY DEF SelfJoinCrashIsReal
  <2>1. PICK a \in Slot : /\ on[a] \in Obj
                          /\ m_handle[on[a]] # None
                          /\ Partner(on[a]) = a
    BY DEF WinInv, SharedInv, WaitInv, CrashInv
  <2>2. Target(on[a]) = a
    BY <2>1 DEF OwnInv, PairInv, Holds, Target, joinable
  <2>3. QED
    BY <2>1, <2>2, ThreadAssumption
<1>2. QED
  BY <1>1, OwnInvariance, PTL

-----------------------------------------------------------------------------
(* ThreadWin implements ThreadOwnership, where no client closes handles.   *)

(* What an owned thread has: an open handle, the only one, and one owner.  *)
LEMMA OwnedThreads ==
  ASSUME WinInv, OwnInv
  PROVE  /\ \A o \in Obj : m_handle[o] # None =>
              /\ m_handle[o] \in Handle /\ Holds(o) = m_handle[o]
              /\ Target(o) = kernel[m_handle[o]] /\ Target(o) \in Slot
         /\ \A o \in Obj : m_handle[o] = None => Target(o) = None
         /\ \A g, h \in Handle : kernel[g] # None /\ kernel[g] = kernel[h] => g = h
         /\ \A o, p \in Obj : o # p /\ m_handle[o] # None => m_handle[o] # m_handle[p]
<1> USE ThreadAssumption
        DEF WinInv, KernelInv, SharedInv, SharedType, CommonTypeOK
<1>1. \A o \in Obj : m_handle[o] # None =>
        m_handle[o] \in Handle /\ Holds(o) = m_handle[o]
  BY DEF Holds, joinable
<1>2. \A o \in Obj : m_handle[o] # None => kernel[m_handle[o]] \in Slot
  BY <1>1 DEF OwnInv, PairInv
<1>3. \A o, p \in Obj : o # p /\ m_handle[o] # None => m_handle[o] # m_handle[p]
  BY <1>1 DEF OwnInv, OwnershipExclusive
<1>4. QED
  BY <1>1, <1>2, <1>3 DEF Target, joinable

(* ThreadView is a table of the threads, before a step and after it. *)
LEMMA ViewIsTable ==
  /\ ThreadView = [t \in Slot |-> ThreadView[t]]
  /\ ThreadView' = [t \in Slot |-> ThreadView'[t]]
  BY DEF ThreadView

(* The shared actions leave the system alone and either move nothing, swap *)
(* two objects, or store the handle of the thread a constructor started.   *)
LEMMA CommonOwnership ==
  ASSUME WinInv, OwnInv, CommonEffect
  PROVE  [Ownership!Next]_(Ownership!vars)
<1> USE ThreadAssumption
        DEF WinInv, KernelInv, SharedInv, SharedType, CommonTypeOK
<1>1. ThreadView' = ThreadView /\ kernel' = kernel
  BY DEF CommonEffect, ThreadView
<1>2. CASE m_handle' = m_handle
  BY <1>1, <1>2 DEF Ownership!vars, Target, joinable
<1>3. ASSUME NEW o \in Obj, NEW p \in Obj,
             m_handle' = [m_handle EXCEPT ![o] = m_handle[p], ![p] = m_handle[o]]
      PROVE  Ownership!Exchange(o, p)
  <2>1. /\ Target(o)' = Target(p) /\ Target(p)' = Target(o)
        /\ \A q \in Obj \ {o, p} : Target(q)' = Target(q)
    BY <1>1, <1>3 DEF Target, joinable
  <2>2. QED
    BY <1>1, <2>1 DEF Ownership!Exchange
<1>4. ASSUME NEW o \in Obj, m_handle[o] = None, ctor[o].handle # None,
             m_handle' = [m_handle EXCEPT ![o] = ctor[o].handle]
      PROVE  \E t \in Slot : Ownership!Take(o, t)
  <2> DEFINE h == ctor[o].handle
  <2>1. Holds(o) = h /\ h \in Handle
    BY <1>4 DEF Holds, joinable, CtorLocals
  <2>2. kernel[h] \in Slot
    BY <1>4, <2>1 DEF OwnInv, PairInv
  <2>3. \A p \in Obj : Target(p) # kernel[h]
    BY <1>4, <2>1, <2>2, OwnedThreads DEF OwnInv, OwnershipExclusive
  <2>4. /\ Target(o) = None /\ Target(o)' = kernel[h]
        /\ \A p \in Obj : p # o => Target(p)' = Target(p)
    BY <1>1, <1>4, <2>1 DEF Target, joinable
  <2>5. ThreadView[kernel[h]] # "free"
    BY <2>1, <2>2 DEF ThreadView
  <2>6. Ownership!Take(o, kernel[h])
    <3>1. kernel[h] \notin Ownership!Owned
      BY <2>3 DEF Ownership!Owned
    <3>2. [q \in Obj |-> Target(q)]' = [[q \in Obj |-> Target(q)]
                                          EXCEPT ![o] = kernel[h]]
      BY <2>4
    <3>3. QED
      BY <1>1, <2>4, <2>5, <3>1, <3>2 DEF Ownership!Take
  <2>7. QED
    BY <2>2, <2>6
<1>5. QED
  BY <1>2, <1>3, <1>4 DEF CommonEffect, MembersMove, Ownership!Next

(* ::CreateThread finds an id that no handle and no thread uses. *)
LEMMA CreateOwnership ==
  ASSUME WinInv, OwnInv, NEW a \in Actor, CreateThread(a)
  PROVE  \E t \in Slot : Ownership!Start(t)
<1> USE ThreadAssumption
        DEF WinInv, KernelInv, SharedInv, SharedType, CommonTypeOK
<1>1. PICK t \in Slot, h \in Handle :
        /\ t \notin running /\ kernel[h] = None
        /\ \A g \in Handle : kernel[g] # t
        /\ running' = running \cup {t} /\ m_handle' = m_handle
        /\ kernel' = [kernel EXCEPT ![h] = t]
  BY DEF CreateThread, Created, Open
<1>2. \A o \in Obj : Target(o)' = Target(o)
  BY <1>1, OwnedThreads DEF Target, joinable
<1>3. ThreadView[t] = "free" /\ ThreadView' = [ThreadView EXCEPT ![t] = "live"]
  <2>1. ThreadView'[t] = "live"
    BY <1>1 DEF ThreadView
  <2>2. \A u \in Slot : u # t => ThreadView'[u] = ThreadView[u]
    BY <1>1 DEF ThreadView
  <2>3. ThreadView[t] = "free"
    BY <1>1 DEF ThreadView
  <2>4. QED
    BY <2>1, <2>2, <2>3, ViewIsTable, ChangedAt
<1>4. Ownership!Start(t)
  BY <1>2, <1>3 DEF Ownership!Start
<1>5. QED
  BY <1>4

(* A thread whose handle is closed is detached or has ended. *)
LEMMA GiveUpOwnership ==
  ASSUME WinInv, OwnInv, NEW o \in Obj, GivesUp(o)
  PROVE  Ownership!Detach(o)
<1> DEFINE h == m_handle[o]  t == kernel[h]
<1> USE ThreadAssumption
        DEF WinInv, KernelInv, SharedInv, SharedType, CommonTypeOK
<1>1. /\ h \in Handle /\ t \in Slot /\ Target(o) = t
      /\ kernel' = [kernel EXCEPT ![h] = None]
      /\ m_handle' = [m_handle EXCEPT ![o] = None]
  BY OwnedThreads DEF GivesUp, ResetHandleAndId
<1>2. /\ Target(o)' = None
      /\ \A p \in Obj : p # o => Target(p)' = Target(p)
  BY <1>1, OwnedThreads DEF Target, joinable
<1>3. \A g \in Handle : kernel'[g] # t
  BY <1>1, OwnedThreads
<1>4. \A u \in Slot : u # t =>
        ((\E g \in Handle : kernel'[g] = u) <=> (\E g \in Handle : kernel[g] = u))
  BY <1>1
<1>5. running' = running
  BY DEF GivesUp
<1>6. ThreadView'[t] = IF ThreadView[t] = "live" THEN "live" ELSE "free"
  BY <1>1, <1>3, <1>5 DEF ThreadView
<1>7. \A u \in Slot : u # t => ThreadView'[u] = ThreadView[u]
  BY <1>4, <1>5 DEF ThreadView
<1>8. ThreadView' = [ThreadView EXCEPT
        ![t] = IF ThreadView[t] = "live" THEN "live" ELSE "free"]
  BY <1>1, <1>6, <1>7, ViewIsTable, ChangedAt
<1> HIDE DEF h, t
<1>9. QED
  BY <1>1, <1>2, <1>8 DEF Ownership!Detach

(* Threads end; those that are owned have an open handle. *)
LEMMA EndOwnership ==
  ASSUME WinInv, OwnInv, KeepsHandles
  PROVE  Ownership!End(running \ running')
<1> DEFINE S == running \ running'
           F == {t \in S : \A h \in Handle : kernel[h] # t}
<1> USE ThreadAssumption
        DEF WinInv, KernelInv, SharedInv, SharedType, CommonTypeOK
<1>1. /\ running' \subseteq running /\ S \subseteq Slot
      /\ UNCHANGED <<m_handle, kernel>>
  BY DEF KeepsHandles
<1>2. \A t \in S : ThreadView[t] = "live"
  BY <1>1 DEF ThreadView
<1>3. \A o \in Obj : Target(o)' = Target(o)
  BY <1>1 DEF Target, joinable
<1>4. \A o \in Obj : Target(o) \notin F
  BY <1>1, OwnedThreads
<1>5. ThreadView' = [t \in Slot |-> IF t \in F THEN "free"
                                   ELSE IF t \in S THEN "ended" ELSE ThreadView[t]]
  BY <1>1 DEF ThreadView
<1> HIDE DEF S
<1>6. F \in SUBSET (S \ Ownership!Owned)
  BY <1>4 DEF Ownership!Owned
<1> HIDE DEF F
<1>7. Ownership!End(S)
  <2>1. [o \in Obj |-> Target(o)'] = [o \in Obj |-> Target(o)]
    BY <1>3, Zenon
  <2> QED
    BY <1>2, <1>5, <1>6, <2>1 DEF Ownership!End
<1>8. QED
  BY <1>7 DEF S

(* Every object answers for the thread it was built for, and for no other  *)
(* object's: whatever clients do but close handles themselves              *)
(* (thread.h:61-69, thread.cpp:24-97).                                     *)
THEOREM ImplementsThreadOwnership ==
  ASSUME ~ClientCloses
  PROVE  Spec => ImplementsOwnership
<1>1. Init => Ownership!Init
  BY ThreadAssumption
     DEF Init, CommonInit, Ownership!Init, Target, joinable, ThreadView
<1>2. WinInv /\ OwnInv /\ [Next]_vars => [Ownership!Next]_(Ownership!vars)
  <2> SUFFICES ASSUME WinInv, OwnInv, [Next]_vars
               PROVE  [Ownership!Next]_(Ownership!vars)
    OBVIOUS
  <2>1. NextEffect /\ running \subseteq Slot
    BY NextEffects DEF WinInv, SharedInv, SharedType, CommonTypeOK
  <2>2. CASE CommonEffect
    BY <2>2, CommonOwnership
  <2>3. ASSUME NEW a \in Actor, CreateThread(a)
        PROVE  Ownership!Next
    BY <2>3, CreateOwnership DEF Ownership!Next
  <2>4. ASSUME NEW o \in Obj, GivesUp(o)
        PROVE  Ownership!Next
    BY <2>4, GiveUpOwnership DEF Ownership!Next
  <2>5. CASE KeepsHandles
    BY <2>1, <2>5, EndOwnership DEF Ownership!Next
  <2>6. ASSUME NEW o \in Obj, ClientClosesHandle(o)
        PROVE  FALSE
    BY <2>6 DEF ClientClosesHandle
  <2>7. QED
    BY <2>1, <2>2, <2>3, <2>4, <2>5, <2>6 DEF NextEffect
<1>3. QED
  BY <1>1, <1>2, OwnInvariance, PTL DEF Spec, ImplementsOwnership, Ownership!Spec
=============================================================================
