-------------------------- MODULE ThreadMacProofs ---------------------------
(***************************************************************************)
(* Theorems about ThreadMac, for any number of Thread objects and threads: *)
(* a pthread_t that an object holds can be joined or detached, a join has  *)
(* waited, ThreadMac implements ThreadOwnership, and, where SIGHUP ends    *)
(* the process and no callable uses a Thread that is still being built, no *)
(* pthread is lost.                                                        *)
(***************************************************************************)
EXTENDS ThreadMac, ThreadProofs

-----------------------------------------------------------------------------
(* What the pthread library knows of the threads. *)

(* A thread that runs has not been freed; a detached one is freed when it  *)
(* ends; one that has ended and is still known has deleted its Callable.   *)
PthreadInv ==
  /\ kernel \in [Slot -> {"free", "joinable", "detached"}]
  /\ \A t \in Slot :
       /\ kernel[t] = "free" => t \notin running
       /\ kernel[t] = "detached" => t \in running
       /\ kernel[t] # "free" /\ t \notin running => callable[t] = "deleted"

(* The handle is the id. *)
PairInv == \A o \in Obj : Holds(o) # None => Holds(o) = Partner(o)

MacInv == SharedInv /\ PthreadInv /\ PairInv /\ HeldIsJoinable

(* At the start nobody holds a pthread. *)
LEMMA InitMacInv == Init => MacInv
  BY InitSharedInv
     DEF Init, CommonInit, MacInv, PthreadInv, PairInv, HeldIsJoinable, Holds,
         joinable, NoCtor

-----------------------------------------------------------------------------
(* The steps. *)

(* terminate() with a handler for SIGHUP waits as join() does. *)
LEMMA JoinBegins ==
  ASSUME SharedInv, NEW a \in Actor, NEW o \in Obj, Idle(a), MayCall(a, o),
         joinable(o), Goto(a, "join", o),
         UNCHANGED <<objVars, callVars, running, crash>>
  PROVE  SharedInv'
<1> USE ThreadAssumption
        DEF SharedType, CommonTypeOK, OnObject, objVars, callVars, Actor
<1>1. /\ at[a] = "idle" /\ m_handle[o] # None
      /\ at' = [at EXCEPT ![a] = "join"] /\ on' = [on EXCEPT ![a] = o]
      /\ \/ life[o] = "alive" /\ \A b \in Actor : on[b] # o
         \/ EarlyUse /\ life[o] = "ctor" /\ ctor[o].id = a
  BY DEF Idle, MayCall, MayUse, Busy, joinable, Goto
<1>2. crash = "none"
  BY <1>1 DEF SharedInv, ThreadInv, LabelInv
<1>3. SharedType'
  BY <1>1 DEF SharedInv, Label, CtorLabel, EndingLabel
<1>4. ThreadInv'
  BY <1>1, <1>2, FrameThreadInv DEF SharedInv, ThreadInv, SignalInv
<1>5. OthersStay
  BY <1>1 DEF OthersStay, CtorLabel, SharedInv
<1>6. BuildInv'
  BY <1>5, FrameBuildInv DEF SharedInv, BuildInv, HolderInv
<1>7. \A b \in Actor : b # a /\ at[b] \in EndingLabel => on[b] # o
  BY <1>1 DEF SharedInv, WaitInv, JoinInv
<1>8. JoinInv'
  BY <1>1, <1>7 DEF SharedInv, WaitInv, JoinInv, EndingLabel
<1>9. CrashInv'
  BY <1>2 DEF CrashInv
<1>10. QED
  BY <1>3, <1>4, <1>6, <1>8, <1>9 DEF SharedInv, WaitInv

(* o lets go of its thread, which pthread_join or pthread_detach has freed *)
(* or marked; or the call was a no-op, of a thread that joins itself.      *)
GivesUp(o) ==
  LET t == m_handle[o] IN
  /\ t # None
  /\ \/ kernel' = [kernel EXCEPT ![t] = IF t \in running THEN "detached"
                                                        ELSE "free"]
     \/ t \in running /\ kernel' = kernel
  /\ ResetHandleAndId(o)
  /\ UNCHANGED <<life, ctor, callable, running>>

NextEffect ==
  \/ CommonEffect /\ CallablesKept
  \/ \E a \in Actor : CreateThread(a)
  \/ \E o \in Obj : GivesUp(o)
  \/ \E t \in Slot : ExitThread(t)

(* What joinImpl() does with a thread that is joinable. *)
LEMMA JoinImplEffect ==
  ASSUME MacInv, NEW a \in Actor, JoinImpl(a)
  PROVE  LET t == m_handle[on[a]] IN
           /\ on[a] \in Obj
           /\ t \in Slot /\ Holds(on[a]) = t /\ kernel[t] = "joinable"
           /\ \/ t # a /\ t \notin running
                 /\ kernel' = [kernel EXCEPT ![t] = "free"]
              \/ t = a /\ t \in running /\ kernel' = kernel
<1> USE ThreadAssumption, MacAssumption
        DEF MacInv, SharedInv, SharedType, CommonTypeOK
<1>1. /\ at[a] = "join" /\ on[a] \in Obj /\ m_handle[on[a]] # None
  BY DEF JoinImpl, OnObject, WaitInv, JoinInv, EndingLabel
<1>2. Holds(on[a]) = m_handle[on[a]] /\ m_handle[on[a]] \in Slot
  BY <1>1 DEF Holds, joinable
<1>3. kernel[m_handle[on[a]]] = "joinable"
  BY <1>1, <1>2 DEF HeldIsJoinable
<1>4. a \in Slot => a \in running
  BY <1>1 DEF ThreadInv, LabelInv
<1>5. QED
  BY <1>1, <1>2, <1>3, <1>4 DEF JoinImpl

(* Every action keeps the shared invariant, and what it does otherwise. *)
LEMMA NextEffects ==
  ASSUME MacInv, [Next]_vars
  PROVE  SharedInv' /\ NextEffect
<1> USE DEF MacInv, objVars, actorVars, callVars, sysVars
<1>1. ASSUME CommonNext PROVE SharedInv' /\ NextEffect
  BY <1>1, CommonSharedInv, CommonEffects, CommonCallables
     DEF SharedStep, NextEffect
<1>2. ASSUME NEW a \in Actor, CreateThread(a)
      PROVE  SharedInv' /\ NextEffect
  BY <1>2, CreatedSharedInv, MacAssumption
     DEF CreateThread, PthreadInv, SharedStep, NextEffect
<1>3. ASSUME NEW a \in Actor, JoinImpl(a)
      PROVE  SharedInv' /\ NextEffect
  <2>1. SharedInv'
    BY <1>3, JoinEndsSharedInv DEF JoinImpl, EndingLabel, SharedStep
  <2>2. on[a] \in Obj /\ GivesUp(on[a])
    BY <1>3, JoinImplEffect, ThreadAssumption DEF JoinImpl, GivesUp
  <2>3. QED
    BY <2>1, <2>2 DEF NextEffect
<1>4. ASSUME NEW a \in Actor, NEW o \in Obj, Detach(a, o)
      PROVE  SharedInv' /\ NextEffect
  <2>1. SharedInv'
    BY <1>4, DetachSharedInv DEF Detach, SharedStep
  <2>2. kernel[m_handle[o]] = "joinable"
    BY <1>4 DEF Detach, HeldIsJoinable, Holds, joinable
  <2>3. m_handle[o] \in Slot
    BY <1>4, MacAssumption
       DEF Detach, joinable, SharedInv, SharedType, CommonTypeOK
  <2>4. GivesUp(o)
    BY <1>4, <2>2, <2>3 DEF Detach, joinable, GivesUp, PthreadInv
  <2>5. QED
    BY <2>1, <2>4 DEF NextEffect
<1>5. ASSUME NEW a \in Actor, NEW o \in Obj, Terminate(a, o)
      PROVE  SharedInv' /\ NextEffect
  <2>1. CASE HangupFatal /\ m_handle[o] \in running
    <3>1. ForceCrash(a, o, "hangup")
      BY <1>5, <2>1 DEF Terminate
    <3>2. CommonEffect /\ CallablesKept
      BY <3>1, CrashEffect DEF ForceCrash, CallablesKept
    <3>3. QED
      BY <3>1, <3>2, CrashSharedInv DEF SharedStep, NextEffect
  <2>2. CASE ~(HangupFatal /\ m_handle[o] \in running)
    <3>1. /\ Idle(a) /\ MayCall(a, o) /\ joinable(o)
          /\ Goto(a, "join", o)
          /\ UNCHANGED <<objVars, callVars, running, crash, kernel>>
      BY <1>5, <2>2 DEF Terminate
    <3>2. SharedInv'
      BY <3>1, JoinBegins
    <3>3. StillJoining
      BY <3>1 DEF StillJoining, Goto, SharedInv, SharedType, CommonTypeOK, EndingLabel
    <3>4. CommonEffect /\ CallablesKept
      BY <3>1, <3>3, FrameEffect DEF CallablesKept
    <3>5. QED
      BY <3>2, <3>4 DEF NextEffect
  <2>3. QED
    BY <2>1, <2>2
<1>6. ASSUME NEW t \in Slot, ExitThread(t)
      PROVE  SharedInv' /\ NextEffect
  BY <1>6, ExitSharedInv DEF ExitThread, SharedStep, NextEffect
<1>7. CASE UNCHANGED vars
  <2>1. SharedInv'
    BY <1>7, KernelSharedInv DEF vars, SharedStep
  <2>2. CommonEffect /\ CallablesKept
    BY <1>7, FrameEffect DEF vars, StillJoining, CallablesKept, EndingLabel
  <2>3. QED
    BY <2>1, <2>2 DEF NextEffect
<1>8. QED
  BY <1>1, <1>2, <1>3, <1>4, <1>5, <1>6, <1>7 DEF Next

(* A pthread is held by one object from its creation on, until it is given *)
(* up; only what is not held is freed or marked.                           *)
LEMMA NextMacInv == MacInv /\ [Next]_vars => MacInv'
<1> SUFFICES ASSUME MacInv, [Next]_vars PROVE MacInv'
  OBVIOUS
<1>1. SharedInv /\ SharedInv' /\ NextEffect
  BY NextEffects DEF MacInv
<1> DEFINE OwnStep == PthreadInv' /\ PairInv' /\ HeldIsJoinable'
<1> USE ThreadAssumption, MacAssumption
        DEF MacInv, SharedInv, SharedType, CommonTypeOK
<1>2. ASSUME CommonEffect, CallablesKept PROVE OwnStep
  <2>1. PthreadInv'
    BY <1>2 DEF CommonEffect, CallablesKept, PthreadInv
  <2>2. kernel' = kernel /\ PairsMove
    BY <1>2 DEF CommonEffect
  <2>3. CASE \A o \in Obj : PairStays(o)
    BY <2>1, <2>2, <2>3 DEF PairStays, PairInv, HeldIsJoinable
  <2>4. ASSUME NEW o \in Obj, NEW p \in Obj, PairMoves(o, p), PairMoves(p, o),
               \A q \in Obj \ {o, p} : PairStays(q)
        PROVE  PairInv' /\ HeldIsJoinable'
    BY <2>2, <2>4 DEF PairStays, PairMoves, PairInv, HeldIsJoinable
  <2>5. QED
    BY <2>1, <2>2, <2>3, <2>4 DEF PairsMove
<1>3. ASSUME NEW a \in Actor, CreateThread(a) PROVE OwnStep
  <2>1. PICK t \in Slot :
          /\ kernel[t] = "free"
          /\ Created(a, t, t)
          /\ kernel' = [kernel EXCEPT ![t] = "joinable"]
    BY <1>3 DEF CreateThread
  <2>2. /\ on[a] \in Obj /\ Holds(on[a])' = t /\ Partner(on[a])' = t
        /\ \A p \in Obj : p # on[a] =>
             Holds(p)' = Holds(p) /\ Partner(p)' = Partner(p)
        /\ UNCHANGED on
    BY <2>1, CreatedHolds
  <2>3. \A p \in Obj : Holds(p) # None => Holds(p) # t /\ Holds(p) \in Slot
    BY <2>1 DEF HeldIsJoinable, Holds, joinable, CtorLocals
  <2>4. PthreadInv'
    BY <2>1 DEF Created, PthreadInv
  <2>5. PairInv'
    BY <2>2 DEF PairInv
  <2>6. HeldIsJoinable'
    BY <2>1, <2>2, <2>3 DEF HeldIsJoinable, PthreadInv
  <2>7. QED
    BY <2>4, <2>5, <2>6
<1>4. ASSUME NEW o \in Obj, GivesUp(o) PROVE OwnStep
  <2>1. /\ m_handle[o] \in Slot /\ Holds(o) = m_handle[o] /\ Holds(o)' = None
        /\ \A p \in Obj : p # o => Holds(p)' = Holds(p) /\ Partner(p)' = Partner(p)
    BY <1>4, ResetHolds DEF GivesUp
  <2>2. kernel[m_handle[o]] = "joinable"
    BY <1>4, <2>1 DEF HeldIsJoinable
  <2>3. \A p \in Obj : p # o /\ Holds(p) # None =>
          Holds(p) # m_handle[o] /\ kernel'[Holds(p)] = kernel[Holds(p)]
    BY <1>4, <2>1
       DEF GivesUp, HeldIsJoinable, PthreadInv, Holds, joinable, CtorLocals
  <2>4. PthreadInv'
    BY <1>4, <2>1, <2>2 DEF GivesUp, PthreadInv
  <2>5. PairInv' /\ HeldIsJoinable'
    BY <2>1, <2>3 DEF PairInv, HeldIsJoinable
  <2>6. QED
    BY <2>4, <2>5
<1>5. ASSUME NEW t \in Slot, ExitThread(t) PROVE OwnStep
  <2>1. /\ running' = running \ {t}
        /\ kernel' = [kernel EXCEPT ![t] = IF kernel[t] = "detached" THEN "free"
                                                                   ELSE kernel[t]]
        /\ UNCHANGED <<life, ctor, m_handle, m_id, callable>>
    BY <1>5 DEF ExitThread, objVars, callVars
  <2>2. callable[t] = "deleted"
    BY <1>5 DEF ExitThread, ThreadInv, CallableInv
  <2>3. t \in running
    BY <1>5 DEF ExitThread, ThreadInv, LabelInv, Actor
  <2>4. PthreadInv'
    BY <2>1, <2>2, <2>3 DEF PthreadInv
  <2>5. \A o \in Obj : Holds(o)' = Holds(o) /\ Partner(o)' = Partner(o)
    BY <2>1 DEF Holds, Partner, joinable
  <2>6. \A u \in Slot : kernel[u] = "joinable" => kernel'[u] = "joinable"
    BY <2>1 DEF PthreadInv
  <2>7. \A o \in Obj : Holds(o) # None => Holds(o) \in Slot
    BY DEF Holds, joinable, CtorLocals
  <2>8. PairInv' /\ HeldIsJoinable'
    BY <2>5, <2>6, <2>7 DEF PairInv, HeldIsJoinable
  <2>9. QED
    BY <2>4, <2>8
<1> HIDE DEF SharedInv
<1>6. QED
  BY <1>1, <1>2, <1>3, <1>4, <1>5 DEF NextEffect

(* Types, threads, constructors, joins and pthreads, throughout. *)
LEMMA MacInvariance == Spec => []MacInv
  BY InitMacInv, NextMacInv, PTL DEF Spec

(* Every variable keeps its type (thread.h:61-69 and the pthreads that     *)
(* thread_mac.cpp speaks to).                                              *)
THEOREM TypeCorrect == Spec => []TypeOK
<1>1. MacInv => TypeOK
  BY DEF MacInv, PthreadInv, SharedInv, SharedType, TypeOK
<1>2. QED
  BY <1>1, MacInvariance, PTL

(* The pthread functions are only called on threads they can succeed for,  *)
(* and no thread is held twice: it does no harm that joinImpl, detachImpl  *)
(* and terminateImpl look at no result (thread_mac.cpp:40-56).             *)
THEOREM HeldJoinable == Spec => []HeldIsJoinable
<1>1. MacInv => HeldIsJoinable
  BY DEF MacInv
<1>2. QED
  BY <1>1, MacInvariance, PTL

(* JoinImpl is the only way out of a join, and pthread_join returns for    *)
(* another thread only once that has ended.                                *)
LEMMA NextJoinStep ==
  ASSUME MacInv, [Next]_vars
  PROVE  JoinStep
<1> USE DEF objVars, actorVars, callVars, sysVars
<1>0. StillJoining => JoinStep
  BY DEF StillJoining, JoinStep, EndingLabel
<1>1. ASSUME CommonNext PROVE JoinStep
  BY <1>0, <1>1, CommonEffects DEF CommonEffect, MacInv
<1> USE ThreadAssumption
        DEF MacInv, SharedInv, SharedType, CommonTypeOK, Actor
<1>2. ASSUME NEW a \in Actor, CreateThread(a) PROVE JoinStep
  BY <1>0, <1>2 DEF CreateThread, Created, StillJoining, EndingLabel
<1>3. ASSUME NEW a \in Actor, JoinImpl(a) PROVE JoinStep
  <2> DEFINE t == m_handle[on[a]]
  <2>1. \A b \in Actor : at[b] = "join" /\ at'[b] = "idle" => b = a
    BY <1>3 DEF JoinImpl, Goto
  <2>2. /\ t \in Slot /\ kernel[t] = "joinable"
        /\ t # a => t \notin running
    BY <1>3, JoinImplEffect
  <2>3. t # a => callable[t] = "deleted"
    BY <2>2 DEF PthreadInv
  <2>4. QED
    BY <2>1, <2>2, <2>3 DEF JoinStep
<1>4. ASSUME NEW a \in Actor, NEW o \in Obj, Detach(a, o) PROVE JoinStep
  BY <1>0, <1>4 DEF Detach, StillJoining, EndingLabel
<1>5. ASSUME NEW a \in Actor, NEW o \in Obj, Terminate(a, o) PROVE JoinStep
  BY <1>0, <1>5 DEF Terminate, ForceCrash, Goto, StillJoining, EndingLabel
<1>6. ASSUME NEW t \in Slot, ExitThread(t) PROVE JoinStep
  BY <1>0, <1>6 DEF ExitThread, Goto, StillJoining, EndingLabel
<1>7. CASE UNCHANGED vars
  BY <1>0, <1>7 DEF vars, StillJoining, EndingLabel
<1> HIDE DEF MacInv
<1>8. QED
  BY <1>1, <1>2, <1>3, <1>4, <1>5, <1>6, <1>7 DEF Next

(* A join() that returns has waited for the thread to end and to delete    *)
(* its Callable, and so has a terminate() that did not end the process     *)
(* (thread_mac.cpp:40-56).                                                 *)
THEOREM JoinHasWaited == Spec => JoinWaits
<1>1. MacInv /\ [Next]_vars => [JoinStep]_vars
  BY NextJoinStep
<1>2. QED
  BY <1>1, MacInvariance, PTL DEF Spec, JoinWaits

-----------------------------------------------------------------------------
(* No pthread is lost.                                                     *)

(* Under HangupFatal terminate() waits only for a thread that has ended,   *)
(* which the calling thread has not.                                       *)
LEMMA NextNoSelfJoin ==
  ASSUME HangupFatal, ~EarlyUse, MacInv, NoSelfJoin, [Next]_vars
  PROVE  NoSelfJoin'
<1> USE DEF MacInv, SharedStep
<1>1. ASSUME CommonNext PROVE NoSelfJoin'
  BY <1>1, CommonSharedInv
<1>2. ASSUME NEW a \in Actor, CreateThread(a) PROVE NoSelfJoin'
  BY <1>2, CreatedSharedInv, MacAssumption DEF CreateThread, PthreadInv
<1>3. ASSUME NEW a \in Actor, JoinImpl(a) PROVE NoSelfJoin'
  BY <1>3, JoinEndsSharedInv DEF JoinImpl, EndingLabel
<1>4. ASSUME NEW a \in Actor, NEW o \in Obj, Detach(a, o) PROVE NoSelfJoin'
  BY <1>4, DetachSharedInv DEF Detach
<1>5. ASSUME NEW a \in Actor, NEW o \in Obj, Terminate(a, o) PROVE NoSelfJoin'
  <2>1. CASE m_handle[o] \in running
    <3>1. ForceCrash(a, o, "hangup")
      BY <1>5, <2>1 DEF Terminate
    <3>2. QED
      BY <3>1, CrashSharedInv
  <2>2. CASE m_handle[o] \notin running
    <3>1. /\ at[a] = "idle" /\ life[o] = "alive" /\ m_handle[o] # None
          /\ at' = [at EXCEPT ![a] = "join"] /\ on' = [on EXCEPT ![a] = o]
          /\ m_id' = m_id
      BY <1>5, <2>2
         DEF Terminate, Idle, MayCall, MayUse, joinable, Goto, objVars
    <3>2. m_id[o] = m_handle[o]
      BY <3>1 DEF PairInv, Holds, Partner, joinable
    <3>3. a \in Slot => a \in running
      BY <3>1 DEF SharedInv, ThreadInv, LabelInv
    <3>4. m_handle[o] \in Slot
      BY <3>1, MacAssumption DEF SharedInv, SharedType, CommonTypeOK
    <3>5. m_id[o] # a
      BY <2>2, <3>2, <3>3, <3>4
    <3>6. QED
      BY <3>1, <3>5
         DEF NoSelfJoin, EndingLabel, SharedInv, SharedType, CommonTypeOK
  <2>3. QED
    BY <2>1, <2>2
<1>6. ASSUME NEW t \in Slot, ExitThread(t) PROVE NoSelfJoin'
  BY <1>6, ExitSharedInv DEF ExitThread
<1>7. CASE UNCHANGED vars
  BY <1>7 DEF vars, NoSelfJoin
<1>8. QED
  BY <1>1, <1>2, <1>3, <1>4, <1>5, <1>6, <1>7 DEF Next

(* A joinable thread is held by the object it was created for, or the one  *)
(* it was moved to, up to the call that joins or detaches it.              *)
LEMMA NextNoPthreadLeak ==
  ASSUME ~EarlyUse, MacInv, NoSelfJoin, NoPthreadLeak, [Next]_vars
  PROVE  NoPthreadLeak'
<1> USE ThreadAssumption, MacAssumption
        DEF MacInv, SharedInv, SharedType, CommonTypeOK, objVars
<1>1. ASSUME CommonEffect PROVE NoPthreadLeak'
  BY <1>1, PairsMoveHeld DEF CommonEffect, NoPthreadLeak, Held
<1> HIDE DEF SharedInv
<1>2. ASSUME CommonNext PROVE NoPthreadLeak'
  BY <1>1, <1>2, CommonEffects
<1>3. ASSUME NEW a \in Actor, CreateThread(a) PROVE NoPthreadLeak'
  <2>1. PICK t \in Slot :
          Created(a, t, t) /\ kernel' = [kernel EXCEPT ![t] = "joinable"]
    BY <1>3 DEF CreateThread
  <2>2. /\ on[a] \in Obj /\ Holds(on[a]) = None /\ Holds(on[a])' = t
        /\ \A p \in Obj : p # on[a] => Holds(p)' = Holds(p)
        /\ UNCHANGED on
    BY <2>1, CreatedHolds
  <2>3. Held(t)'
    BY <2>2 DEF Held
  <2>4. ASSUME NEW u \in Slot, Held(u) PROVE Held(u)'
    <3>1. PICK p \in Obj : Holds(p) = u
      BY <2>4 DEF Held
    <3>2. Holds(p)' = u
      BY <2>2, <3>1
    <3>3. QED
      BY <3>2 DEF Held
  <2>5. \A u \in Slot : u # t => kernel'[u] = kernel[u]
    BY <2>1
  <2>6. QED
    BY <2>3, <2>4, <2>5 DEF NoPthreadLeak, Held
<1> USE DEF SharedInv
<1>4. ASSUME NEW o \in Obj, m_handle[o] # None, ResetHandleAndId(o),
             UNCHANGED <<life, ctor>>, kernel'[m_handle[o]] # "joinable",
             \A u \in Slot : u # m_handle[o] => kernel'[u] = kernel[u]
      PROVE  NoPthreadLeak'
  BY <1>4, ResetHolds DEF NoPthreadLeak
<1>5. ASSUME NEW a \in Actor, JoinImpl(a) PROVE NoPthreadLeak'
  <2>1. /\ on[a] \in Obj /\ m_handle[on[a]] \in Slot
        /\ \/ kernel' = [kernel EXCEPT ![m_handle[on[a]]] = "free"]
           \/ m_handle[on[a]] = a
    BY <1>5, JoinImplEffect
  <2>2. /\ life[on[a]] = "alive" /\ m_id[on[a]] # a
    BY <1>5 DEF JoinImpl, EndingLabel, WaitInv, JoinInv, NoSelfJoin
  <2>3. m_handle[on[a]] # a
    BY <2>1, <2>2 DEF PairInv, Holds, Partner, joinable
  <2>4. QED
    BY <1>4, <1>5, <2>1, <2>3 DEF JoinImpl, PthreadInv
<1>6. ASSUME NEW a \in Actor, NEW o \in Obj, Detach(a, o) PROVE NoPthreadLeak'
  <2>1. m_handle[o] \in Slot /\ kernel[m_handle[o]] = "joinable"
    BY <1>6 DEF Detach, HeldIsJoinable, Holds, joinable
  <2>2. QED
    BY <1>4, <1>6, <2>1 DEF Detach, joinable, PthreadInv
<1>7. ASSUME NEW a \in Actor, NEW o \in Obj, Terminate(a, o)
      PROVE  NoPthreadLeak'
  BY <1>7 DEF Terminate, ForceCrash, sysVars, NoPthreadLeak, Holds, joinable
<1>8. ASSUME NEW t \in Slot, ExitThread(t) PROVE NoPthreadLeak'
  BY <1>8 DEF ExitThread, NoPthreadLeak, PthreadInv, Holds, joinable
<1>9. CASE UNCHANGED vars
  BY <1>9 DEF vars, NoPthreadLeak, Holds, joinable
<1>10. QED
  BY <1>2, <1>3, <1>5, <1>6, <1>7, <1>8, <1>9 DEF Next

(* No pthread that has still to be joined or detached is out of reach      *)
(* (thread.h:108, thread_mac.cpp:22-56).  Where SIGHUP is handled a thread *)
(* may terminate() itself and join itself in vain: hence HangupFatal.      *)
THEOREM PthreadsNotLeaked ==
  ASSUME HangupFatal, ~EarlyUse
  PROVE  Spec => []NoPthreadLeak
<1> DEFINE Inv == MacInv /\ NoSelfJoin /\ NoPthreadLeak
<1>1. Init => Inv
  BY InitMacInv
     DEF Init, CommonInit, NoSelfJoin, NoPthreadLeak, EndingLabel
<1>2. Inv /\ [Next]_vars => Inv'
  BY NextMacInv, NextNoSelfJoin, NextNoPthreadLeak
<1>3. Inv => NoPthreadLeak
  OBVIOUS
<1> HIDE DEF Inv
<1>4. QED
  BY <1>1, <1>2, <1>3, PTL DEF Spec

-----------------------------------------------------------------------------
(* ThreadMac implements ThreadOwnership.                                   *)

(* The shared actions leave the pthreads alone and either move nothing,    *)
(* swap two objects, or store the thread a constructor has started.        *)
LEMMA CommonOwnership ==
  ASSUME MacInv, CommonEffect
  PROVE  [Ownership!Next]_(Ownership!vars)
<1> USE ThreadAssumption, MacAssumption
        DEF MacInv, SharedInv, SharedType, CommonTypeOK
<1>1. ThreadView' = ThreadView
  BY DEF CommonEffect, ThreadView
<1>2. CASE m_handle' = m_handle
  BY <1>1, <1>2 DEF Ownership!vars
<1>3. ASSUME NEW o \in Obj, NEW p \in Obj,
             m_handle' = [m_handle EXCEPT ![o] = m_handle[p], ![p] = m_handle[o]]
      PROVE  Ownership!Exchange(o, p)
  BY <1>1, <1>3 DEF Ownership!Exchange
<1>4. ASSUME NEW o \in Obj, m_handle[o] = None, ctor[o].handle # None,
             m_handle' = [m_handle EXCEPT ![o] = ctor[o].handle]
      PROVE  \E t \in Slot : Ownership!Take(o, t)
  <2> DEFINE t == ctor[o].handle
  <2>1. Holds(o) = t /\ t \in Slot
    BY <1>4 DEF Holds, joinable, CtorLocals
  <2>2. kernel[t] = "joinable"
    BY <2>1 DEF HeldIsJoinable
  <2>3. \A p \in Obj : m_handle[p] # t
    BY <1>4, <2>1 DEF HeldIsJoinable, Holds, joinable
  <2>4. ThreadView[t] # "free"
    BY <2>1, <2>2 DEF ThreadView
  <2>5. t \notin Ownership!Owned
    BY <2>3 DEF Ownership!Owned
  <2>6. Ownership!Take(o, t)
    BY <1>1, <1>4, <2>4, <2>5 DEF Ownership!Take
  <2>7. QED
    BY <2>1, <2>6
<1>5. QED
  BY <1>2, <1>3, <1>4 DEF CommonEffect, MembersMove, Ownership!Next

(* ThreadView is a table of the threads, before a step and after it. *)
LEMMA ViewIsTable ==
  /\ ThreadView = [t \in Slot |-> ThreadView[t]]
  /\ ThreadView' = [t \in Slot |-> ThreadView'[t]]
  BY DEF ThreadView

(* ::pthread_create finds an id that is free. *)
LEMMA CreateOwnership ==
  ASSUME MacInv, NEW a \in Actor, CreateThread(a)
  PROVE  \E t \in Slot : Ownership!Start(t)
<1> USE DEF MacInv, PthreadInv
<1>1. PICK t \in Slot :
        /\ kernel[t] = "free"
        /\ kernel' = [kernel EXCEPT ![t] = "joinable"]
        /\ running' = running \cup {t} /\ m_handle' = m_handle
  BY DEF CreateThread, Created
<1>2. ThreadView[t] = "free" /\ ThreadView'[t] = "live"
  BY <1>1 DEF ThreadView
<1>3. \A u \in Slot : u # t => ThreadView'[u] = ThreadView[u]
  BY <1>1 DEF ThreadView
<1>4. ThreadView' = [ThreadView EXCEPT ![t] = "live"]
  BY <1>2, <1>3, ViewIsTable, ChangedAt
<1>5. Ownership!Start(t)
  BY <1>1, <1>2, <1>4 DEF Ownership!Start
<1>6. QED
  BY <1>5

(* A thread that is given up goes on by itself, or is forgotten if it has  *)
(* ended, as after a join.                                                 *)
LEMMA GiveUpOwnership ==
  ASSUME MacInv, NEW o \in Obj, GivesUp(o)
  PROVE  Ownership!Detach(o)
<1> DEFINE t == m_handle[o]
<1> USE DEF MacInv, PthreadInv
<1>1. t # None /\ t \in Slot /\ kernel[t] = "joinable"
  BY ResetHolds, MacAssumption DEF GivesUp, HeldIsJoinable
<1>2. m_handle' = [m_handle EXCEPT ![o] = None] /\ running' = running
  BY DEF GivesUp, ResetHandleAndId
<1>3. ThreadView'[t] = IF ThreadView[t] = "live" THEN "live" ELSE "free"
  BY <1>1, <1>2 DEF GivesUp, ThreadView
<1>4. \A u \in Slot : u # t => ThreadView'[u] = ThreadView[u]
  BY <1>1, <1>2 DEF GivesUp, ThreadView
<1>5. ThreadView' = [ThreadView EXCEPT
        ![t] = IF ThreadView[t] = "live" THEN "live" ELSE "free"]
  BY <1>1, <1>3, <1>4, ViewIsTable, ChangedAt
<1>6. QED
  BY <1>1, <1>2, <1>5 DEF Ownership!Detach

(* Threads that end by themselves stay known as long as they are owned. *)
LEMMA ExitOwnership ==
  ASSUME MacInv, NEW t \in Slot, ExitThread(t)
  PROVE  Ownership!End({t})
<1> DEFINE F == IF kernel[t] = "detached" THEN {t} ELSE {}
<1> USE ThreadAssumption, MacAssumption
        DEF MacInv, SharedInv, SharedType, CommonTypeOK
<1>1. /\ t \in running /\ running' = running \ {t} /\ m_handle' = m_handle
      /\ kernel' = [kernel EXCEPT ![t] = IF kernel[t] = "detached" THEN "free"
                                                                 ELSE kernel[t]]
  BY DEF ExitThread, objVars, ThreadInv, LabelInv, Actor
<1>2. kernel[t] # "free" /\ ThreadView[t] = "live"
  BY <1>1 DEF PthreadInv, ThreadView
<1>3. \A o \in Obj : m_handle[o] \notin F
  BY DEF HeldIsJoinable, Holds, joinable
<1>4. F \in SUBSET ({t} \ Ownership!Owned)
  BY <1>3 DEF Ownership!Owned
<1>5. ThreadView' = [u \in Slot |-> IF u \in F THEN "free"
                                   ELSE IF u \in {t} THEN "ended" ELSE ThreadView[u]]
  BY <1>1, <1>2 DEF ThreadView, PthreadInv
<1> HIDE DEF F
<1>6. QED
  BY <1>1, <1>2, <1>4, <1>5 DEF Ownership!End

(* Every object answers for the thread it was built for, and for no other  *)
(* object's, whatever clients do (thread.h:61-69, thread.cpp:24-97).       *)
THEOREM ImplementsThreadOwnership == Spec => ImplementsOwnership
<1>1. Init => Ownership!Init
  BY DEF Init, CommonInit, Ownership!Init, ThreadView
<1>2. MacInv /\ [Next]_vars => [Ownership!Next]_(Ownership!vars)
  <2> SUFFICES ASSUME MacInv, [Next]_vars
               PROVE  [Ownership!Next]_(Ownership!vars)
    OBVIOUS
  <2>1. NextEffect
    BY NextEffects
  <2>2. CASE CommonEffect
    BY <2>2, CommonOwnership
  <2>3. ASSUME NEW a \in Actor, CreateThread(a) PROVE Ownership!Next
    BY <2>3, CreateOwnership DEF Ownership!Next
  <2>4. ASSUME NEW o \in Obj, GivesUp(o) PROVE Ownership!Next
    BY <2>4, GiveUpOwnership DEF Ownership!Next
  <2>5. ASSUME NEW t \in Slot, ExitThread(t) PROVE Ownership!Next
    BY <2>5, ExitOwnership DEF Ownership!Next
  <2>6. QED
    BY <2>1, <2>2, <2>3, <2>4, <2>5 DEF NextEffect
<1>3. QED
  BY <1>1, <1>2, MacInvariance, PTL DEF Spec, ImplementsOwnership, Ownership!Spec
=============================================================================
