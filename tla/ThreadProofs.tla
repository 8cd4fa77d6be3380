---------------------------- MODULE ThreadProofs ----------------------------
(***************************************************************************)
(* What the shared part of rcp::Thread keeps true on every platform, for   *)
(* any number of objects, threads and handles and whatever clients do:     *)
(* the invariant SharedInv, lemmas that every step of CommonNext keeps it, *)
(* lemmas for the steps both platforms have, and two lemmas that sum up    *)
(* what a step of CommonNext does to the handles.  ThreadWinProofs and     *)
(* ThreadMacProofs build on them.                                          *)
(***************************************************************************)
EXTENDS Thread, TLAPS

-----------------------------------------------------------------------------
(* Types.                                                                  *)

(* A thread inside a constructor, a join or a terminate is inside one of   *)
(* some object.                                                            *)
OnObject ==
  \A a \in Actor : at[a] \in CtorLabel \cup EndingLabel => on[a] \in Obj

SharedType == CommonTypeOK /\ OnObject

(* At the start no thread but the main one exists and all types hold. *)
LEMMA InitSharedType == CommonInit => SharedType
  BY ThreadAssumption
     DEF CommonInit, SharedType, CommonTypeOK, OnObject, NoCtor, StartStrategy,
         NoPromise, CtorLocals, SharedState, Label, CtorLabel, ProcLabel,
         EndingLabel, Actor

(* The crash of a client keeps the types. *)
LEMMA CrashSharedType ==
  ASSUME SharedType, NEW a \in Actor, NEW o \in Obj \cup {None},
         NEW why \in {"destroyJoinable", "assignJoinable", "selfJoin",
                      "uncaught", "hangup"},
         ForceCrash(a, o, why)
  PROVE  SharedType'
  BY DEF SharedType, CommonTypeOK, OnObject, ForceCrash, Label, CtorLabel,
         ProcLabel, EndingLabel, objVars, callVars, sysVars

(* The new thread and its creator have the types of their labels. *)
LEMMA CreatedSharedType ==
  ASSUME SharedType, NEW a \in Actor, NEW t \in Slot, NEW h \in Handle,
         Created(a, t, h)
  PROVE  SharedType'
<1> USE ThreadAssumption DEF Created, Actor
<1>1. ctor' \in [Obj -> CtorLocals]
  BY DEF SharedType, CommonTypeOK, OnObject, CtorLocals, CtorLabel
<1>2. promise' \in [Slot -> SharedState]
  BY DEF SharedType, CommonTypeOK, SharedState
<1>3. at' \in [Actor -> Label]
  BY DEF SharedType, CommonTypeOK, Label, CtorLabel, ProcLabel
<1>4. OnObject'
  BY DEF SharedType, CommonTypeOK, OnObject, CtorLabel, EndingLabel
<1>5. args' \in [Slot -> {"owned", "lent", "dead"}]
  BY DEF SharedType, CommonTypeOK, OnObject, CtorLocals, CtorLabel
<1>6. QED
  BY <1>1, <1>2, <1>3, <1>4, <1>5 DEF SharedType, CommonTypeOK

(* Every shared action keeps the types, and the threads on their objects. *)
LEMMA CommonSharedType == SharedType /\ CommonNext => SharedType'
<1> SUFFICES ASSUME SharedType, CommonNext PROVE SharedType'
  OBVIOUS
<1> USE ThreadAssumption
        DEF SharedType, CommonTypeOK, OnObject, Label, CtorLabel,
            ProcLabel, EndingLabel, Actor, objVars, actorVars, callVars, sysVars,
            NoCtor, StartStrategy
<1>1. ASSUME NEW a \in Actor, NEW o \in Obj,
            NEW startStrategy \in StartStrategy,
            NEW arguments \in {"owned", "lent"},
            Construct(a, o, startStrategy, arguments)
      PROVE  SharedType'
  BY <1>1 DEF Construct, Goto, CtorLocals
<1>2. ASSUME NEW a \in Actor, NEW o \in Obj,
            DefaultConstruct(a, o)
      PROVE  SharedType'
  BY <1>2 DEF DefaultConstruct, ResetHandleAndId
<1>3. ASSUME NEW a \in Actor, NEW o \in Obj,
            Destroy(a, o)
      PROVE  SharedType'
  <2>1. CASE joinable(o)
    BY <1>3, <2>1, CrashSharedType DEF Destroy
  <2>2. CASE ~joinable(o)
    BY <1>3, <2>2 DEF Destroy
  <2>3. QED
    BY <2>1, <2>2
<1>4. ASSUME NEW a \in Actor, NEW o \in Obj,
            Join(a, o)
      PROVE  SharedType'
  <2>1. CASE m_id[o] = a
    BY <1>4, <2>1, CrashSharedType DEF Join
  <2>2. CASE m_id[o] # a
    <3>1. /\ Goto(a, "join", o)
          /\ UNCHANGED <<objVars, callVars, sysVars, crash>>
      BY <1>4, <2>2 DEF Join
    <3>2. QED
      BY <3>1 DEF Goto
  <2>3. QED
    BY <2>1, <2>2
<1>5. ASSUME NEW a \in Actor, NEW o \in Obj, NEW p \in Obj,
            MoveConstruct(a, o, p)
      PROVE  SharedType'
  BY <1>5 DEF MoveConstruct, Exchange, MayUse
<1>6. ASSUME NEW a \in Actor, NEW o \in Obj, NEW p \in Obj,
            MoveAssign(a, o, p)
      PROVE  SharedType'
  <2>1. CASE joinable(o)
    BY <1>6, <2>1, CrashSharedType DEF MoveAssign
  <2>2. CASE ~joinable(o)
    <3>1. Swap(a, o, p)
      BY <1>6, <2>2 DEF MoveAssign
    <3>2. QED
      BY <3>1 DEF Swap, Exchange
  <2>3. QED
    BY <2>1, <2>2
<1>7. ASSUME NEW a \in Actor, NEW o \in Obj, NEW p \in Obj,
            Swap(a, o, p)
      PROVE  SharedType'
  BY <1>7 DEF Swap, Exchange, MayUse
<1>8. ASSUME NEW a \in Actor,
            CreateFails(a)
      PROVE  SharedType'
  BY <1>8 DEF CreateFails, Goto, CtorLocals
<1>9. ASSUME NEW a \in Actor,
            Release(a)
      PROVE  SharedType'
  BY <1>9 DEF Release, Goto
<1>10. ASSUME NEW a \in Actor,
            TieHandle(a)
      PROVE  SharedType'
  <2>1. /\ on[a] \in Obj
        /\ ctor[on[a]] \in CtorLocals
        /\ ctor[on[a]].handle \in Handle \cup {None}
    BY <1>10 DEF TieHandle, CtorLocals
  <2>2. [ctor[on[a]] EXCEPT !.handle = None] \in CtorLocals
    BY <2>1 DEF CtorLocals
  <2>3. ctor' = [ctor EXCEPT ![on[a]] = [ctor[on[a]] EXCEPT !.handle = None]]
    BY <1>10 DEF TieHandle
  <2>4. ctor' \in [Obj -> CtorLocals]
    BY <2>1, <2>2, <2>3
  <2>5. m_handle' \in [Obj -> Handle \cup {None}]
    BY <1>10, <2>1 DEF TieHandle
  <2>6. QED
    BY <1>10, <2>1, <2>4, <2>5 DEF TieHandle, Goto
<1>11. ASSUME NEW a \in Actor,
            TieId(a)
      PROVE  SharedType'
  <2>1. /\ on[a] \in Obj
        /\ ctor[on[a]].id \in Slot \cup {None}
        /\ ctor[on[a]].startStrategy \in StartStrategy
        /\ NoCtor \in CtorLocals
    BY <1>11 DEF TieId, CtorLocals
  <2>2. CASE ctor[on[a]].startStrategy = "Wait"
    BY <1>11, <2>1, <2>2 DEF TieId, Goto
  <2>3. CASE ctor[on[a]].startStrategy # "Wait"
    BY <1>11, <2>1, <2>3 DEF TieId, Constructed, Goto
  <2>4. QED
    BY <2>2, <2>3
<1>12. ASSUME NEW a \in Actor,
            Await(a)
      PROVE  SharedType'
  <2> DEFINE t == ctor[on[a]].id
  <2>1. /\ on[a] \in Obj
        /\ NoCtor \in CtorLocals
        /\ promise' = [promise EXCEPT ![t] =
             [promise[t] EXCEPT !.refs = promise[t].refs \ {"ctor"}]]
    BY <1>12 DEF Await, CtorLocals
  <2>2. \A u \in Slot :
          [promise[u] EXCEPT !.refs = promise[u].refs \ {"ctor"}] \in SharedState
    BY DEF SharedState
  <2>3. promise' \in [Slot -> SharedState]
    BY <2>1, <2>2
  <2>4. QED
    BY <1>12, <2>1, <2>3 DEF Await, Constructed, Goto
<1>13. ASSUME NEW t \in Slot,
            CallerLeavesScope(t)
      PROVE  SharedType'
  BY <1>13 DEF CallerLeavesScope
<1>14. ASSUME NEW t \in Slot,
            Execute(t)
      PROVE  SharedType'
  <2>1. CASE "callable" \in promise[t].refs
    <3>1. /\ promise' = [promise EXCEPT ![t] =
                           [promise[t] EXCEPT !.state = "ready"]]
          /\ Goto(t, "signal", None)
          /\ UNCHANGED <<objVars, callable, args, sysVars, crash>>
      BY <1>14, <2>1 DEF Execute
    <3>2. promise' \in [Slot -> SharedState]
      BY <3>1 DEF SharedState
    <3>3. QED
      BY <3>1, <3>2 DEF Goto
  <2>2. CASE "callable" \notin promise[t].refs
    <3>1. /\ Goto(t, "apply", None)
          /\ UNCHANGED <<objVars, callVars, sysVars, crash>>
      BY <1>14, <2>2 DEF Execute
    <3>2. QED
      BY <3>1 DEF Goto
  <2>3. QED
    BY <2>1, <2>2
<1>15. ASSUME NEW t \in Slot,
            SetValueReturns(t)
      PROVE  SharedType'
  BY <1>15 DEF SetValueReturns, Goto
<1>16. ASSUME NEW t \in Slot,
            Apply(t)
      PROVE  SharedType'
  BY <1>16 DEF Apply, Goto
<1>17. ASSUME NEW t \in Slot,
            BodyReturns(t)
      PROVE  SharedType'
  BY <1>17 DEF BodyReturns, Goto, SharedState
<1>18. ASSUME NEW t \in Slot,
            BodyThrows(t)
      PROVE  SharedType'
  BY <1>18 DEF BodyThrows, ForceCrash
<1> HIDE DEF SharedType
<1>19. QED
  BY <1>1, <1>2, <1>3, <1>4, <1>5, <1>6, <1>7, <1>8, <1>9, <1>10,
     <1>11, <1>12, <1>13, <1>14, <1>15, <1>16, <1>17, <1>18
     DEF CommonNext

-----------------------------------------------------------------------------
(* Threads, their Callables and their promises.                            *)

(* A thread exists as long as it is somewhere in its code; a process that  *)
(* has crashed stands still.                                               *)
LabelInv ==
  IF crash = "none" THEN \A t \in Slot : t \in running <=> at[t] # "absent"
                    ELSE \A a \in Actor : at[a] = "crashed"

(* A running thread has its Callable until it has deleted it itself, and   *)
(* it does so before it leaves threadProc.                                 *)
CallableInv ==
  \A t \in Slot :
    /\ callable[t] = "alive" => t \in running
    /\ at[t] = "leaving" => callable[t] = "deleted"
    /\ crash = "none" /\ t \in running /\ at[t] # "leaving"
         => callable[t] = "alive"

(* set_value() runs inside a promise that the Callable keeps alive. *)
SignalInv ==
  \A t \in Slot : at[t] = "signal" => "callable" \in promise[t].refs

ThreadInv == LabelInv /\ CallableInv /\ SignalInv

(* At the start there is no thread but the main one. *)
LEMMA InitThreadInv == CommonInit => ThreadInv
  BY ThreadAssumption
     DEF CommonInit, ThreadInv, LabelInv, CallableInv, SignalInv, Actor

(* A step of client code that starts, ends and signals no thread. *)
LEMMA FrameThreadInv ==
  ASSUME SharedType, ThreadInv, crash = "none",
         UNCHANGED <<callable, running, crash>>,
         \A t \in Slot : /\ at'[t] = at[t] \/
                            (/\ at[t] \notin {"absent", "leaving"}
                             /\ at'[t] \notin {"absent", "leaving"})
                         /\ at'[t] = "signal" => "callable" \in promise'[t].refs
  PROVE  ThreadInv'
  BY DEF ThreadInv, LabelInv, CallableInv, SignalInv

(* A crash stops every thread where it is. *)
LEMMA CrashThreadInv ==
  ASSUME SharedType, ThreadInv, NEW a \in Actor, NEW o \in Obj \cup {None},
         NEW why \in {"destroyJoinable", "assignJoinable", "selfJoin",
                      "uncaught", "hangup"},
         ForceCrash(a, o, why)
  PROVE  ThreadInv'
  BY DEF ThreadInv, LabelInv, CallableInv, SignalInv, ForceCrash, callVars,
         sysVars, Actor

(* The system creates threads only with ids that are not in use. *)
LEMMA CreatedThreadInv ==
  ASSUME SharedType, ThreadInv, NEW a \in Actor, NEW t \in Slot,
         NEW h \in Handle, t \notin running, Created(a, t, h)
  PROVE  ThreadInv'
<1>1. crash = "none" /\ at[t] = "absent" /\ a # t
  BY DEF ThreadInv, LabelInv, Created
<1>2. /\ running' = running \cup {t}
      /\ at' = [at EXCEPT ![a] = "release", ![t] = "entry"]
      /\ callable' = [callable EXCEPT ![t] = "alive"]
      /\ \A u \in Slot \ {t} : promise'[u] = promise[u]
      /\ crash' = crash
      /\ at[a] = "create"
  BY DEF Created, SharedType, CommonTypeOK
<1>3. LabelInv' /\ CallableInv' /\ SignalInv'
  BY <1>1, <1>2, ThreadAssumption
     DEF ThreadInv, LabelInv, CallableInv, SignalInv, SharedType, CommonTypeOK,
         Actor
<1>4. QED
  BY <1>3 DEF ThreadInv

(* Every shared action keeps the facts about threads. *)
LEMMA CommonThreadInv ==
  ASSUME SharedType, ThreadInv, CommonNext
  PROVE  ThreadInv'
<1> USE ThreadAssumption
        DEF SharedType, CommonTypeOK, Actor, objVars, actorVars, callVars,
            sysVars
<1>0. \A a \in Actor : at[a] # "crashed" => crash = "none"
  BY DEF ThreadInv, LabelInv
<1>1. ASSUME NEW a \in Actor, NEW o \in Obj,
            NEW startStrategy \in StartStrategy,
            NEW arguments \in {"owned", "lent"},
            Construct(a, o, startStrategy, arguments)
      PROVE  ThreadInv'
  BY <1>0, <1>1, FrameThreadInv DEF Construct, Idle, Goto, ThreadInv, SignalInv
<1>2. ASSUME NEW a \in Actor, NEW o \in Obj,
            DefaultConstruct(a, o)
      PROVE  ThreadInv'
  BY <1>0, <1>2, FrameThreadInv DEF DefaultConstruct, Idle, ThreadInv, SignalInv
<1>3. ASSUME NEW a \in Actor, NEW o \in Obj,
            Destroy(a, o)
      PROVE  ThreadInv'
  <2>1. CASE joinable(o)
    BY <1>3, <2>1, CrashThreadInv DEF Destroy
  <2>2. CASE ~joinable(o)
    BY <1>0, <1>3, <2>2, FrameThreadInv
       DEF Destroy, Idle, ThreadInv, SignalInv
  <2>3. QED
    BY <2>1, <2>2
<1>4. ASSUME NEW a \in Actor, NEW o \in Obj,
            Join(a, o)
      PROVE  ThreadInv'
  <2>1. CASE m_id[o] = a
    BY <1>4, <2>1, CrashThreadInv DEF Join
  <2>2. CASE m_id[o] # a
    BY <1>0, <1>4, <2>2, FrameThreadInv
       DEF Join, Goto, Idle, ThreadInv, SignalInv
  <2>3. QED
    BY <2>1, <2>2
<1>5. ASSUME NEW a \in Actor, NEW o \in Obj, NEW p \in Obj,
            MoveConstruct(a, o, p)
      PROVE  ThreadInv'
  BY <1>0, <1>5, FrameThreadInv DEF MoveConstruct, Idle, ThreadInv, SignalInv
<1>6. ASSUME NEW a \in Actor, NEW o \in Obj, NEW p \in Obj,
            MoveAssign(a, o, p)
      PROVE  ThreadInv'
  <2>1. CASE joinable(o)
    BY <1>6, <2>1, CrashThreadInv DEF MoveAssign
  <2>2. CASE ~joinable(o)
    BY <1>0, <1>6, <2>2, FrameThreadInv
       DEF MoveAssign, Swap, Idle, ThreadInv, SignalInv
  <2>3. QED
    BY <2>1, <2>2
<1>7. ASSUME NEW a \in Actor, NEW o \in Obj, NEW p \in Obj,
            Swap(a, o, p)
      PROVE  ThreadInv'
  BY <1>0, <1>7, FrameThreadInv DEF Swap, Idle, ThreadInv, SignalInv
<1>8. ASSUME NEW a \in Actor,
            CreateFails(a)
      PROVE  ThreadInv'
  BY <1>0, <1>8, FrameThreadInv DEF CreateFails, Goto, ThreadInv, SignalInv
<1>9. ASSUME NEW a \in Actor,
            Release(a)
      PROVE  ThreadInv'
  BY <1>0, <1>9, FrameThreadInv DEF Release, Goto, ThreadInv, SignalInv
<1>10. ASSUME NEW a \in Actor,
            TieHandle(a)
      PROVE  ThreadInv'
  BY <1>0, <1>10, FrameThreadInv DEF TieHandle, Goto, ThreadInv, SignalInv
<1>11. ASSUME NEW a \in Actor,
            TieId(a)
      PROVE  ThreadInv'
  <2>0. PICK label \in {"await", "idle"} : at' = [at EXCEPT ![a] = label]
    BY <1>11, Zenon DEF TieId, Constructed, Goto
  <2>1. at'[a] \in {"await", "idle"} /\ \A b \in Actor : b # a => at'[b] = at[b]
    BY <2>0
  <2>2. QED
    BY <1>0, <1>11, <2>1, FrameThreadInv DEF TieId, ThreadInv, SignalInv
<1>12. ASSUME NEW a \in Actor,
            Await(a)
      PROVE  ThreadInv'
  <2>1. \A u \in Slot : "callable" \in promise[u].refs
                          => "callable" \in promise'[u].refs
    BY <1>12 DEF Await, SharedState
  <2>2. QED
    BY <1>0, <1>12, <2>1, FrameThreadInv
       DEF Await, Constructed, Goto, ThreadInv, SignalInv
<1>13. ASSUME NEW t \in Slot,
            CallerLeavesScope(t)
      PROVE  ThreadInv'
  BY <1>13, FrameThreadInv DEF CallerLeavesScope, ThreadInv, SignalInv
<1>14. ASSUME NEW t \in Slot,
            Execute(t)
      PROVE  ThreadInv'
  <2>1. CASE "callable" \in promise[t].refs
    <3>1. \A u \in Slot : promise'[u].refs = promise[u].refs
      BY <1>14, <2>1 DEF Execute, SharedState
    <3>2. /\ at[t] = "entry" /\ at' = [at EXCEPT ![t] = "signal"]
          /\ UNCHANGED <<callable, running, crash>>
      BY <1>14, <2>1 DEF Execute, Goto
    <3>3. QED
      BY <1>0, <2>1, <3>1, <3>2, FrameThreadInv DEF ThreadInv, SignalInv
  <2>2. CASE "callable" \notin promise[t].refs
    BY <1>0, <1>14, <2>2, FrameThreadInv
       DEF Execute, Goto, ThreadInv, SignalInv
  <2>3. QED
    BY <2>1, <2>2
<1>15. ASSUME NEW t \in Slot,
            SetValueReturns(t)
      PROVE  ThreadInv'
  BY <1>0, <1>15, FrameThreadInv DEF SetValueReturns, Goto, ThreadInv, SignalInv
<1>16. ASSUME NEW t \in Slot,
            Apply(t)
      PROVE  ThreadInv'
  BY <1>0, <1>16, FrameThreadInv DEF Apply, Goto, ThreadInv, SignalInv
<1>17. ASSUME NEW t \in Slot,
            BodyReturns(t)
      PROVE  ThreadInv'
  <2>1. /\ crash = "none" /\ crash' = crash /\ running' = running
        /\ at[t] = "idle"
        /\ at' = [at EXCEPT ![t] = "leaving"]
        /\ callable' = [callable EXCEPT ![t] = "deleted"]
        /\ \A u \in Slot \ {t} : promise'[u] = promise[u]
    BY <1>0, <1>17 DEF BodyReturns, Goto
  <2>2. QED
    BY <2>1 DEF ThreadInv, LabelInv, CallableInv, SignalInv
<1>18. ASSUME NEW t \in Slot,
            BodyThrows(t)
      PROVE  ThreadInv'
  BY <1>18, CrashThreadInv DEF BodyThrows
<1> HIDE DEF SharedType, ThreadInv
<1>19. QED
  BY <1>1, <1>2, <1>3, <1>4, <1>5, <1>6, <1>7, <1>8, <1>9, <1>10, <1>11,
     <1>12, <1>13, <1>14, <1>15, <1>16, <1>17, <1>18
     DEF CommonNext

-----------------------------------------------------------------------------
(* Constructors.                                                           *)

(* Who can hold a handle: a member and a constructor's local never both    *)
(* do, and neither does so in storage that is not built.                   *)
HolderInv ==
  \A o \in Obj :
    /\ m_handle[o] = None \/ ctor[o].handle = None
    /\ life[o] # "ctor" => ctor[o].handle = None
    /\ life[o] = "raw" => m_handle[o] = None

(* Each constructor works on an object of its own; what it holds and what  *)
(* it has stored goes with how far it has come.  A callable may have       *)
(* detached the object in the meantime, hence "m_handle # None =>".  While *)
(* it may still wait for the promise, it keeps it alive.                   *)
CtorInv ==
  \A a \in Actor : at[a] \in CtorLabel =>
    /\ life[on[a]] = "ctor"
    /\ \A b \in Actor : b # a /\ at[b] \in CtorLabel => on[b] # on[a]
    /\ at[a] = "create" =>
         m_handle[on[a]] = None /\ ctor[on[a]].handle = None
    /\ at[a] # "create" => ctor[on[a]].id # None
    /\ at[a] \in {"release", "tieHandle"} =>
         m_handle[on[a]] = None /\ ctor[on[a]].handle # None
    /\ at[a] \in {"tieId", "await"} => ctor[on[a]].handle = None
    /\ at[a] = "await" =>
         /\ ctor[on[a]].startStrategy = "Wait"
         /\ m_handle[on[a]] # None => m_id[on[a]] = ctor[on[a]].id
    /\ at[a] # "create" /\ ctor[on[a]].startStrategy = "Wait" =>
         "ctor" \in promise[ctor[on[a]].id].refs

(* No two constructors, not even one that was cut short, have started the  *)
(* same thread.                                                            *)
IdInv ==
  \A o, p \in Obj : o # p /\ ctor[o].id # None => ctor[p].id # ctor[o].id

BuildInv == HolderInv /\ CtorInv /\ IdInv

(* At the start there is no handle, no object and no constructor. *)
LEMMA InitBuildInv == CommonInit => BuildInv
  BY ThreadAssumption
     DEF CommonInit, BuildInv, HolderInv, CtorInv, IdInv, NoCtor, CtorLabel

(* A step of no constructor, except that callablePtr.release() is one too. *)
OthersStay ==
  \A b \in Actor : at'[b] \in CtorLabel =>
    /\ on'[b] = on[b]
    /\ at'[b] = at[b] \/ (at[b] = "release" /\ at'[b] = "tieHandle")

(* A step that leaves the constructors, their locals and their promises    *)
(* alone; of the objects under construction it may only reset some.        *)
LEMMA FrameBuildInv ==
  ASSUME BuildInv, OthersStay, ctor' = ctor,
         \A o \in Obj : life[o] = "ctor" <=> life'[o] = "ctor",
         \A o \in Obj : life[o] = "ctor" =>
            \/ m_handle'[o] = m_handle[o] /\ m_id'[o] = m_id[o]
            \/ m_handle'[o] = None,
         \A o \in Obj : life'[o] = "raw" => m_handle'[o] = None,
         \A t \in Slot : "ctor" \in promise[t].refs
                          => "ctor" \in promise'[t].refs,
         OnObject, ctor \in [Obj -> CtorLocals]
  PROVE  BuildInv'
<1>1. HolderInv'
  BY DEF BuildInv, HolderInv
<1>2. \A a \in Actor : at[a] \in CtorLabel => on[a] \in Obj
  BY DEF OnObject
<1>3. \A o \in Obj : ctor[o].id \in Slot \cup {None}
  BY DEF CtorLocals
<1>4. CtorInv'
  BY <1>2, <1>3 DEF BuildInv, CtorInv, OthersStay, CtorLabel
<1>5. IdInv'
  BY DEF BuildInv, IdInv
<1>6. QED
  BY <1>1, <1>4, <1>5 DEF BuildInv

(* A crash leaves the objects as they are. *)
LEMMA CrashBuildInv ==
  ASSUME SharedType, BuildInv, NEW a \in Actor, NEW o, NEW why,
         ForceCrash(a, o, why)
  PROVE  BuildInv'
<1>1. OthersStay /\ UNCHANGED <<life, ctor, m_handle, m_id, promise>>
  BY DEF ForceCrash, OthersStay, CtorLabel, objVars, callVars
<1>2. QED
  BY <1>1, FrameBuildInv DEF SharedType, CommonTypeOK, BuildInv, HolderInv

(* The last step of a constructor. *)
LEMMA ConstructedBuildInv ==
  ASSUME SharedType, BuildInv, NEW a \in Actor, at[a] \in {"tieId", "await"},
         Constructed(a, on[a]), m_handle' = m_handle,
         \A o \in Obj : o # on[a] => m_id'[o] = m_id[o],
         \A t \in Slot : t # ctor[on[a]].id => promise'[t] = promise[t]
  PROVE  BuildInv'
<1> USE ThreadAssumption DEF SharedType, CommonTypeOK, OnObject
<1>1. /\ on[a] \in Obj
      /\ life' = [life EXCEPT ![on[a]] = "alive"]
      /\ ctor' = [ctor EXCEPT ![on[a]] = NoCtor]
      /\ at' = [at EXCEPT ![a] = "idle"]
      /\ on' = [on EXCEPT ![a] = None]
      /\ NoCtor.handle = None /\ NoCtor.id = None
  BY DEF Constructed, Goto, NoCtor, CtorLabel
<1>2. HolderInv'
  BY <1>1 DEF BuildInv, HolderInv
<1>3. IdInv'
  BY <1>1 DEF BuildInv, IdInv
<1>4. \A b \in Actor : at'[b] \in CtorLabel =>
        /\ b # a /\ at'[b] = at[b] /\ on'[b] = on[b]
        /\ on[b] \in Obj /\ on[b] # on[a]
  BY <1>1 DEF BuildInv, CtorInv, CtorLabel
<1>5. ctor[on[a]].id # None
  BY DEF BuildInv, CtorInv, CtorLabel
<1>6. \A b \in Actor : at'[b] \in CtorLabel /\ at[b] # "create" =>
        /\ ctor[on[b]].id \in Slot
        /\ promise'[ctor[on[b]].id] = promise[ctor[on[b]].id]
  BY <1>1, <1>4, <1>5 DEF BuildInv, IdInv, CtorInv, CtorLocals
<1>7. CtorInv'
  BY <1>1, <1>4, <1>6 DEF BuildInv, CtorInv
<1>8. QED
  BY <1>2, <1>3, <1>7 DEF BuildInv

(* A thread has been created for a constructor. *)
LEMMA CreatedBuildInv ==
  ASSUME SharedType, ThreadInv, BuildInv, NEW a \in Actor, NEW t \in Slot,
         NEW h \in Handle, t \notin running, Created(a, t, h)
  PROVE  BuildInv'
<1> USE ThreadAssumption DEF SharedType, CommonTypeOK, OnObject
<1>1. /\ a # t /\ at[t] = "absent" /\ at[a] = "create" /\ on[a] \in Obj
      /\ at' = [at EXCEPT ![a] = "release", ![t] = "entry"]
      /\ ctor'[on[a]].handle = h /\ ctor'[on[a]].id = t
      /\ ctor'[on[a]].startStrategy = ctor[on[a]].startStrategy
      /\ \A p \in Obj : p # on[a] => ctor'[p] = ctor[p]
      /\ UNCHANGED <<life, m_handle, m_id, on>>
      /\ \A p \in Obj : ctor[p].id # t
      /\ \A u \in Slot : u # t => promise'[u] = promise[u]
  BY DEF Created, ThreadInv, LabelInv, CtorLabel, CtorLocals, Actor
<1>2. ctor[on[a]].startStrategy = "Wait" => "ctor" \in promise'[t].refs
  BY DEF Created
<1>3. /\ life[on[a]] = "ctor" /\ m_handle[on[a]] = None
      /\ h # None /\ t # None
      /\ \A b \in Actor : b # a /\ at'[b] \in CtorLabel =>
           at'[b] = at[b] /\ on[b] \in Obj /\ on[b] # on[a]
  BY <1>1 DEF BuildInv, CtorInv, CtorLabel, Actor
<1>4. HolderInv'
  BY <1>1, <1>3 DEF BuildInv, HolderInv
<1>5. IdInv'
  BY <1>1 DEF BuildInv, IdInv
<1>6. \A b \in Actor : b # a /\ at'[b] \in CtorLabel /\ at[b] # "create" =>
        promise'[ctor[on[b]].id] = promise[ctor[on[b]].id]
  BY <1>1, <1>3 DEF BuildInv, CtorInv, CtorLocals
<1>7. CtorInv'
  BY <1>1, <1>2, <1>3, <1>6 DEF BuildInv, CtorInv, CtorLabel
<1>8. QED
  BY <1>4, <1>5, <1>7 DEF BuildInv

(* Every shared action keeps the facts about constructors. *)
LEMMA CommonBuildInv ==
  ASSUME SharedType, BuildInv, CommonNext
  PROVE  BuildInv'
<1> USE ThreadAssumption
        DEF SharedType, CommonTypeOK, OnObject, Actor, objVars, actorVars,
            callVars, sysVars
<1>1. ASSUME NEW a \in Actor, NEW o \in Obj,
            NEW startStrategy \in StartStrategy,
            NEW arguments \in {"owned", "lent"},
            Construct(a, o, startStrategy, arguments)
      PROVE  BuildInv'
  <2>1. /\ life[o] = "raw" /\ life' = [life EXCEPT ![o] = "ctor"]
        /\ m_handle' = [m_handle EXCEPT ![o] = None]
        /\ m_id' = [m_id EXCEPT ![o] = None]
        /\ ctor'[o].handle = None /\ ctor'[o].id = None
        /\ \A p \in Obj : p # o => ctor'[p] = ctor[p]
        /\ at[a] = "idle"
        /\ at' = [at EXCEPT ![a] = "create"] /\ on' = [on EXCEPT ![a] = o]
        /\ promise' = promise
    BY <1>1 DEF Construct, Idle, Goto, NoCtor
  <2>2. HolderInv'
    BY <2>1 DEF BuildInv, HolderInv
  <2>3. IdInv'
    BY <2>1 DEF BuildInv, IdInv
  <2>4. \A b \in Actor : b # a /\ at[b] \in CtorLabel =>
          on[b] \in Obj /\ on[b] # o
    BY <2>1 DEF BuildInv, CtorInv
  <2>5. CtorInv'
    BY <2>1, <2>4 DEF BuildInv, CtorInv, CtorLabel
  <2>6. QED
    BY <2>2, <2>3, <2>5 DEF BuildInv
<1>2. ASSUME NEW a \in Actor, NEW o \in Obj,
            DefaultConstruct(a, o)
      PROVE  BuildInv'
  <2>1. OthersStay
    BY <1>2 DEF DefaultConstruct, ResetHandleAndId, OthersStay, CtorLabel
  <2>2. QED
    BY <1>2, <2>1, FrameBuildInv DEF DefaultConstruct, ResetHandleAndId, BuildInv, HolderInv
<1>3. ASSUME NEW a \in Actor, NEW o \in Obj,
            Destroy(a, o)
      PROVE  BuildInv'
  <2>1. CASE joinable(o)
    BY <1>3, <2>1, CrashBuildInv DEF Destroy
  <2>2. CASE ~joinable(o)
    <3>1. OthersStay
      BY <1>3, <2>2 DEF Destroy, OthersStay
    <3>2. QED
      BY <1>3, <2>2, <3>1, FrameBuildInv
         DEF Destroy, MayUse, joinable, BuildInv, HolderInv
  <2>3. QED
    BY <2>1, <2>2
<1>4. ASSUME NEW a \in Actor, NEW o \in Obj,
            Join(a, o)
      PROVE  BuildInv'
  <2>1. CASE m_id[o] = a
    BY <1>4, <2>1, CrashBuildInv DEF Join
  <2>2. CASE m_id[o] # a
    <3>1. OthersStay
      BY <1>4, <2>2 DEF Join, Goto, OthersStay, CtorLabel
    <3>2. QED
      BY <1>4, <2>2, <3>1, FrameBuildInv DEF Join, BuildInv, HolderInv
  <2>3. QED
    BY <2>1, <2>2
<1>5. ASSUME NEW a \in Actor, NEW o \in Obj, NEW p \in Obj,
            MoveConstruct(a, o, p)
      PROVE  BuildInv'
  <2>1. OthersStay
    BY <1>5 DEF MoveConstruct, MayUse, Exchange, OthersStay, CtorLabel
  <2>2. QED
    BY <1>5, <2>1, FrameBuildInv DEF MoveConstruct, MayUse, Exchange, BuildInv, HolderInv
<1>6. ASSUME NEW a \in Actor, NEW o \in Obj, NEW p \in Obj,
            MoveAssign(a, o, p)
      PROVE  BuildInv'
  <2>1. CASE joinable(o)
    BY <1>6, <2>1, CrashBuildInv DEF MoveAssign
  <2>2. CASE ~joinable(o)
    <3>1. OthersStay
      BY <1>6, <2>2 DEF MoveAssign, Swap, OthersStay
    <3>2. QED
      BY <1>6, <2>2, <3>1, FrameBuildInv
         DEF MoveAssign, Swap, MayUse, Exchange, BuildInv, HolderInv
  <2>3. QED
    BY <2>1, <2>2
<1>7. ASSUME NEW a \in Actor, NEW o \in Obj, NEW p \in Obj,
            Swap(a, o, p)
      PROVE  BuildInv'
  <2>1. OthersStay
    BY <1>7 DEF Swap, MayUse, Exchange, OthersStay, CtorLabel
  <2>2. QED
    BY <1>7, <2>1, FrameBuildInv DEF Swap, MayUse, Exchange, BuildInv, HolderInv
<1>8. ASSUME NEW a \in Actor,
            CreateFails(a)
      PROVE  BuildInv'
  <2>1. /\ on[a] \in Obj /\ at[a] = "create"
        /\ life' = [life EXCEPT ![on[a]] = "raw"]
        /\ ctor' = [ctor EXCEPT ![on[a]] = NoCtor]
        /\ NoCtor.handle = None /\ NoCtor.id = None
        /\ at' = [at EXCEPT ![a] = "idle"]
        /\ on' = [on EXCEPT ![a] = None]
        /\ UNCHANGED <<m_handle, m_id, promise>>
    BY <1>8 DEF CreateFails, Goto, CtorLabel, NoCtor
  <2>2. /\ m_handle[on[a]] = None
        /\ \A b \in Actor : at'[b] \in CtorLabel =>
             b # a /\ at'[b] = at[b] /\ on[b] \in Obj /\ on[b] # on[a]
    BY <2>1 DEF BuildInv, CtorInv, CtorLabel
  <2>3. HolderInv' /\ IdInv'
    BY <2>1, <2>2 DEF BuildInv, HolderInv, IdInv
  <2>4. CtorInv'
    BY <2>1, <2>2 DEF BuildInv, CtorInv
  <2>5. QED
    BY <2>3, <2>4 DEF BuildInv
<1>9. ASSUME NEW a \in Actor,
            Release(a)
      PROVE  BuildInv'
  <2>1. OthersStay
    BY <1>9 DEF Release, Goto, OthersStay, CtorLabel
  <2>2. QED
    BY <1>9, <2>1, FrameBuildInv DEF Release, Goto, BuildInv, HolderInv
<1>10. ASSUME NEW a \in Actor,
            TieHandle(a)
      PROVE  BuildInv'
  <2>1. /\ on[a] \in Obj /\ at[a] = "tieHandle"
        /\ m_handle' = [m_handle EXCEPT ![on[a]] = ctor[on[a]].handle]
        /\ ctor'[on[a]].handle = None /\ ctor'[on[a]].id = ctor[on[a]].id
        /\ ctor'[on[a]].startStrategy = ctor[on[a]].startStrategy
        /\ \A p \in Obj : p # on[a] => ctor'[p] = ctor[p]
        /\ at' = [at EXCEPT ![a] = "tieId"]
        /\ on' = on
        /\ UNCHANGED <<life, m_id, promise>>
    BY <1>10 DEF TieHandle, Goto, CtorLabel, CtorLocals
  <2>2. /\ life[on[a]] = "ctor"
        /\ \A b \in Actor : b # a /\ at'[b] \in CtorLabel =>
             at'[b] = at[b] /\ on[b] \in Obj /\ on[b] # on[a]
    BY <2>1 DEF BuildInv, CtorInv, CtorLabel
  <2>3. HolderInv' /\ IdInv'
    BY <2>1, <2>2 DEF BuildInv, HolderInv, IdInv
  <2>4. CtorInv'
    BY <2>1, <2>2 DEF BuildInv, CtorInv, CtorLabel
  <2>5. QED
    BY <2>3, <2>4 DEF BuildInv
<1>11. ASSUME NEW a \in Actor,
            TieId(a)
      PROVE  BuildInv'
  <2>1. /\ on[a] \in Obj /\ at[a] = "tieId"
        /\ m_id' = [m_id EXCEPT ![on[a]] = ctor[on[a]].id]
        /\ UNCHANGED <<m_handle, promise>>
    BY <1>11 DEF TieId, CtorLabel
  <2>2. CASE ctor[on[a]].startStrategy = "Wait"
    <3>1. /\ at' = [at EXCEPT ![a] = "await"]
          /\ on' = on
          /\ UNCHANGED <<life, ctor>>
      BY <1>11, <2>1, <2>2 DEF TieId, Goto
    <3>2. /\ life[on[a]] = "ctor"
          /\ \A b \in Actor : b # a /\ at'[b] \in CtorLabel =>
               at'[b] = at[b] /\ on[b] \in Obj /\ on[b] # on[a]
      BY <2>1, <3>1 DEF BuildInv, CtorInv, CtorLabel
    <3>3. HolderInv' /\ IdInv'
      BY <2>1, <3>1 DEF BuildInv, HolderInv, IdInv
    <3>4. CtorInv'
      BY <2>1, <2>2, <3>1, <3>2 DEF BuildInv, CtorInv, CtorLabel
    <3>5. QED
      BY <3>3, <3>4 DEF BuildInv
  <2>3. CASE ctor[on[a]].startStrategy # "Wait"
    <3>1. Constructed(a, on[a])
      BY <1>11, <2>3 DEF TieId
    <3>2. QED
      BY <2>1, <3>1, ConstructedBuildInv
  <2>4. QED
    BY <2>2, <2>3
<1>12. ASSUME NEW a \in Actor,
            Await(a)
      PROVE  BuildInv'
  <2>1. /\ at[a] = "await" /\ Constructed(a, on[a])
        /\ UNCHANGED <<m_handle, m_id>>
        /\ \A t \in Slot : t # ctor[on[a]].id => promise'[t] = promise[t]
    BY <1>12 DEF Await
  <2>2. QED
    BY <2>1, ConstructedBuildInv
<1>13. ASSUME NEW t \in Slot,
            CallerLeavesScope(t)
      PROVE  BuildInv'
  <2>1. OthersStay
    BY <1>13 DEF CallerLeavesScope, OthersStay, CtorLabel
  <2>2. QED
    BY <1>13, <2>1, FrameBuildInv DEF CallerLeavesScope, BuildInv, HolderInv
<1>14. ASSUME NEW t \in Slot,
            Execute(t)
      PROVE  BuildInv'
  <2>1. \A u \in Slot : promise'[u].refs = promise[u].refs
    BY <1>14 DEF Execute, SharedState
  <2>2. UNCHANGED <<life, ctor, m_handle, m_id>>
    BY <1>14 DEF Execute
  <2>3. Goto(t, "signal", None) \/ Goto(t, "apply", None)
    BY <1>14 DEF Execute
  <2>4. OthersStay
    BY <2>3 DEF Goto, OthersStay, CtorLabel
  <2>5. QED
    BY <2>1, <2>2, <2>4, FrameBuildInv DEF BuildInv, HolderInv
<1>15. ASSUME NEW t \in Slot,
            SetValueReturns(t)
      PROVE  BuildInv'
  <2>1. OthersStay
    BY <1>15 DEF SetValueReturns, Goto, OthersStay, CtorLabel
  <2>2. QED
    BY <1>15, <2>1, FrameBuildInv DEF SetValueReturns, Goto, BuildInv, HolderInv
<1>16. ASSUME NEW t \in Slot,
            Apply(t)
      PROVE  BuildInv'
  <2>1. OthersStay
    BY <1>16 DEF Apply, Goto, OthersStay, CtorLabel
  <2>2. QED
    BY <1>16, <2>1, FrameBuildInv DEF Apply, Goto, BuildInv, HolderInv
<1>17. ASSUME NEW t \in Slot,
            BodyReturns(t)
      PROVE  BuildInv'
  <2>1. \A u \in Slot : "ctor" \in promise[u].refs
                          => "ctor" \in promise'[u].refs
    BY <1>17 DEF BodyReturns, SharedState
  <2>2. OthersStay
    BY <1>17 DEF BodyReturns, Goto, OthersStay, CtorLabel
  <2>3. QED
    BY <1>17, <2>1, <2>2, FrameBuildInv DEF BodyReturns, BuildInv, HolderInv
<1>18. ASSUME NEW t \in Slot,
            BodyThrows(t)
      PROVE  BuildInv'
  BY <1>18, CrashBuildInv DEF BodyThrows
<1> HIDE DEF SharedType
<1>19. QED
  BY <1>1, <1>2, <1>3, <1>4, <1>5, <1>6, <1>7, <1>8, <1>9, <1>10, <1>11,
     <1>12, <1>13, <1>14, <1>15, <1>16, <1>17, <1>18
     DEF CommonNext

-----------------------------------------------------------------------------
(* Joins.                                                                  *)

(* The id that goes with the handle o holds: once o is built, its m_id.    *)
Partner(o) == IF life[o] = "ctor" THEN ctor[o].id ELSE m_id[o]

(* A thread in the middle of join() or terminate() has the object to       *)
(* itself, but for a constructor that is still finishing it (if a callable *)
(* may use its Thread that early), and the object stays joinable.          *)
JoinInv ==
  \A a \in Actor : at[a] \in EndingLabel =>
    /\ life[on[a]] = "alive" \/ (life[on[a]] = "ctor" /\ ctor[on[a]].id = a)
    /\ m_handle[on[a]] # None
    /\ \A b \in Actor : b # a /\ at[b] \in EndingLabel => on[b] # on[a]
    /\ ~EarlyUse => life[on[a]] = "alive"

(* A crash for a self-join leaves the thread on an object of its own. *)
CrashInv ==
  crash = "selfJoin" =>
    \E a \in Slot : on[a] \in Obj /\ m_handle[on[a]] # None /\ Partner(on[a]) = a

WaitInv == JoinInv /\ CrashInv

(* A thread that joins has compared m_id to its own id and, unless a       *)
(* callable may use its Thread early, m_id has been what it is ever since. *)
(* On macOS terminate() waits without the comparison, so this is no part   *)
(* of the invariant but kept beside it.                                    *)
NoSelfJoin ==
  ~EarlyUse => \A a \in Actor : at[a] = "join" => m_id[on[a]] # a

(* A thread in the later part of join() or terminate() was there before,   *)
(* with the same object, which has the same handle.                        *)
EndedStay ==
  \A b \in Actor : at'[b] \in EndingLabel \ {"join"} =>
    /\ at'[b] = at[b]
    /\ on'[b] = on[b]
    /\ m_handle'[on[b]] = m_handle[on[b]]

WaitStep == WaitInv' /\ (NoSelfJoin => NoSelfJoin') /\ EndedStay

(* At the start nobody joins or terminates. *)
LEMMA InitWaitInv == CommonInit => WaitInv
  BY ThreadAssumption
     DEF CommonInit, WaitInv, JoinInv, CrashInv, EndingLabel, Actor

(* What a step leaves alone: the objects that threads are in a join() or a *)
(* terminate() of, but for what their constructors have still to do.       *)
JoinedStay ==
  \A b \in Actor : at'[b] \in EndingLabel =>
    /\ at'[b] = at[b]
    /\ on'[b] = on[b]
    /\ m_handle'[on[b]] = m_handle[on[b]]
    /\ \/ life'[on[b]] = "alive"
       \/ life'[on[b]] = life[on[b]] /\ ctor'[on[b]].id = ctor[on[b]].id
    /\ life[on[b]] = "alive" =>
         life'[on[b]] = "alive" /\ m_id'[on[b]] = m_id[on[b]]

(* A step that leaves the joins and terminates in progress alone. *)
LEMMA FrameWaitInv ==
  ASSUME WaitInv, JoinedStay, crash' = "none"
  PROVE  WaitStep
  BY DEF WaitStep, NoSelfJoin, WaitInv, JoinInv, CrashInv, JoinedStay, EndedStay,
         EndingLabel

(* The crashes other than the one for a self-join. *)
LEMMA CrashWaitInv ==
  ASSUME NEW a \in Actor, NEW o \in Obj \cup {None},
         NEW why \in {"destroyJoinable", "assignJoinable", "uncaught", "hangup"},
         ForceCrash(a, o, why)
  PROVE  WaitStep
  BY DEF WaitStep, NoSelfJoin, WaitInv, JoinInv, CrashInv, EndedStay, ForceCrash,
         EndingLabel

(* Every shared action keeps the facts about joins. *)
LEMMA CommonWaitInv ==
  ASSUME SharedType, ThreadInv, BuildInv, WaitInv, CommonNext
  PROVE  WaitStep
<1> USE ThreadAssumption
        DEF SharedType, CommonTypeOK, OnObject, Actor, objVars, actorVars,
            callVars, sysVars
<1>0. \A a \in Actor : at[a] # "crashed" => crash = "none"
  BY DEF ThreadInv, LabelInv
<1>1. ASSUME NEW a \in Actor, NEW o \in Obj,
            NEW startStrategy \in StartStrategy,
            NEW arguments \in {"owned", "lent"},
            Construct(a, o, startStrategy, arguments)
      PROVE  WaitStep
  <2>1. JoinedStay
    BY <1>1
       DEF Construct, Idle, Goto, JoinedStay,
           WaitInv, JoinInv, EndingLabel
  <2>2. crash' = "none"
    BY <1>0, <1>1 DEF Construct, Idle, Goto
  <2>3. QED
    BY <2>1, <2>2, FrameWaitInv
<1>2. ASSUME NEW a \in Actor, NEW o \in Obj,
            DefaultConstruct(a, o)
      PROVE  WaitStep
  <2>1. JoinedStay
    BY <1>2
       DEF DefaultConstruct, Idle, ResetHandleAndId, JoinedStay,
           WaitInv, JoinInv, EndingLabel
  <2>2. crash' = "none"
    BY <1>0, <1>2 DEF DefaultConstruct, Idle, ResetHandleAndId
  <2>3. QED
    BY <2>1, <2>2, FrameWaitInv
<1>3. ASSUME NEW a \in Actor, NEW o \in Obj,
            Destroy(a, o)
      PROVE  WaitStep
  <2>1. CASE joinable(o)
    BY <1>3, <2>1, CrashWaitInv DEF Destroy
  <2>2. CASE ~joinable(o)
    <3>1. JoinedStay /\ crash' = "none"
      BY <1>0, <1>3, <2>2 DEF Destroy, Idle, MayUse, Busy, JoinedStay
    <3>2. QED
      BY <3>1, FrameWaitInv
  <2>3. QED
    BY <2>1, <2>2
<1>4. ASSUME NEW a \in Actor, NEW o \in Obj,
            Join(a, o)
      PROVE  WaitStep
  <2>1. /\ crash = "none"
        /\ m_handle[o] # None
        /\ at[a] = "idle"
        /\ \/ life[o] = "alive" /\ \A b \in Actor : on[b] # o
           \/ EarlyUse /\ life[o] = "ctor" /\ ctor[o].id = a
    BY <1>0, <1>4 DEF Join, Idle, MayCall, MayUse, Busy, joinable
  <2>2. CASE m_id[o] = a
    <3>1. ForceCrash(a, o, "selfJoin")
      BY <1>4, <2>2 DEF Join
    <3>2. a \in Slot /\ Partner(o) = a
      BY <2>1, <2>2 DEF Partner
    <3>3. on'[a] = o /\ UNCHANGED <<life, ctor, m_handle, m_id>>
      BY <3>1 DEF ForceCrash
    <3>4. CrashInv'
      BY <2>1, <3>2, <3>3 DEF CrashInv, Partner
    <3>5. JoinInv' /\ NoSelfJoin' /\ EndedStay
      BY <3>1 DEF ForceCrash, JoinInv, NoSelfJoin, EndedStay, EndingLabel
    <3>6. QED
      BY <3>4, <3>5 DEF WaitInv, WaitStep
  <2>3. CASE m_id[o] # a
    <3>1. /\ at' = [at EXCEPT ![a] = "join"]
          /\ on' = [on EXCEPT ![a] = o]
          /\ UNCHANGED <<life, ctor, m_handle, m_id, crash>>
      BY <1>4, <2>3 DEF Join, Goto
    <3>2. \A b \in Actor : b # a /\ at[b] \in EndingLabel => on[b] # o
      BY <2>1 DEF WaitInv, JoinInv
    <3>3. JoinInv'
      BY <2>1, <2>3, <3>1, <3>2 DEF WaitInv, JoinInv, EndingLabel
    <3>4. CrashInv'
      BY <2>1, <3>1 DEF CrashInv
    <3>5. (NoSelfJoin => NoSelfJoin') /\ EndedStay
      BY <2>3, <3>1 DEF NoSelfJoin, EndedStay, EndingLabel
    <3>6. QED
      BY <3>3, <3>4, <3>5 DEF WaitInv, WaitStep
  <2>4. QED
    BY <2>2, <2>3
<1>5. ASSUME NEW a \in Actor, NEW o \in Obj, NEW p \in Obj,
            MoveConstruct(a, o, p)
      PROVE  WaitStep
  <2>1. JoinedStay
    BY <1>5
       DEF MoveConstruct, Exchange, Idle, MayUse, Busy, JoinedStay,
           WaitInv, JoinInv, EndingLabel
  <2>2. crash' = "none"
    BY <1>0, <1>5 DEF MoveConstruct, Exchange, Idle, MayUse, Busy
  <2>3. QED
    BY <2>1, <2>2, FrameWaitInv
<1>6. ASSUME NEW a \in Actor, NEW o \in Obj, NEW p \in Obj,
            MoveAssign(a, o, p)
      PROVE  WaitStep
  <2>1. CASE joinable(o)
    BY <1>6, <2>1, CrashWaitInv DEF MoveAssign
  <2>2. CASE ~joinable(o)
    <3>1. JoinedStay /\ crash' = "none"
      BY <1>0, <1>6, <2>2
         DEF MoveAssign, Swap, Exchange, Idle, MayUse, Busy, JoinedStay
    <3>2. QED
      BY <3>1, FrameWaitInv
  <2>3. QED
    BY <2>1, <2>2
<1>7. ASSUME NEW a \in Actor, NEW o \in Obj, NEW p \in Obj,
            Swap(a, o, p)
      PROVE  WaitStep
  <2>1. JoinedStay
    BY <1>7
       DEF Swap, Exchange, Idle, MayUse, Busy, JoinedStay,
           WaitInv, JoinInv, EndingLabel
  <2>2. crash' = "none"
    BY <1>0, <1>7 DEF Swap, Exchange, Idle, MayUse, Busy
  <2>3. QED
    BY <2>1, <2>2, FrameWaitInv
<1>8. ASSUME NEW a \in Actor,
            CreateFails(a)
      PROVE  WaitStep
  <2>1. m_handle[on[a]] = None /\ on[a] \in Obj
    BY <1>8 DEF CreateFails, BuildInv, CtorInv, CtorLabel
  <2>2. JoinedStay /\ crash' = "none"
    BY <1>0, <1>8, <2>1
       DEF CreateFails, Goto, JoinedStay, WaitInv, JoinInv, EndingLabel
  <2>3. QED
    BY <2>2, FrameWaitInv
<1>9. ASSUME NEW a \in Actor,
            Release(a)
      PROVE  WaitStep
  <2>1. JoinedStay
    BY <1>9
       DEF Release, Goto, JoinedStay,
           WaitInv, JoinInv, EndingLabel
  <2>2. crash' = "none"
    BY <1>0, <1>9 DEF Release, Goto
  <2>3. QED
    BY <2>1, <2>2, FrameWaitInv
<1>10. ASSUME NEW a \in Actor,
            TieHandle(a)
      PROVE  WaitStep
  <2>1. /\ m_handle[on[a]] = None /\ on[a] \in Obj
        /\ \A p \in Obj : p # on[a] => ctor'[p] = ctor[p]
        /\ \A p \in Obj : p # on[a] => m_handle'[p] = m_handle[p]
        /\ UNCHANGED <<life, m_id, crash>>
        /\ at[a] = "tieHandle"
        /\ at' = [at EXCEPT ![a] = "tieId"]
        /\ on' = on
    BY <1>10 DEF TieHandle, Goto, BuildInv, CtorInv, CtorLabel
  <2>2. JoinedStay /\ crash' = "none"
    BY <1>0, <2>1 DEF JoinedStay, WaitInv, JoinInv, EndingLabel
  <2>3. QED
    BY <2>2, FrameWaitInv
<1>11. ASSUME NEW a \in Actor,
            TieId(a)
      PROVE  WaitStep
  <2>1. /\ life[on[a]] = "ctor" /\ on[a] \in Obj /\ at[a] = "tieId"
        /\ \A p \in Obj : p # on[a] => m_id'[p] = m_id[p]
        /\ UNCHANGED <<m_handle, crash>>
    BY <1>11 DEF TieId, BuildInv, CtorInv, CtorLabel
  <2>2. /\ \A p \in Obj : p # on[a] => life'[p] = life[p] /\ ctor'[p] = ctor[p]
        /\ \/ life'[on[a]] = "alive"
           \/ life' = life /\ ctor' = ctor
        /\ \A b \in Actor : b # a => at'[b] = at[b] /\ on'[b] = on[b]
        /\ at'[a] \notin EndingLabel
    <3>1. CASE ctor[on[a]].startStrategy = "Wait"
      BY <1>11, <2>1, <3>1 DEF TieId, Goto, EndingLabel
    <3>2. CASE ctor[on[a]].startStrategy # "Wait"
      BY <1>11, <2>1, <3>2 DEF TieId, Constructed, Goto, EndingLabel
    <3>3. QED
      BY <3>1, <3>2
  <2>3. JoinedStay /\ crash' = "none"
    BY <1>0, <2>1, <2>2 DEF JoinedStay, WaitInv, JoinInv, EndingLabel
  <2>4. QED
    BY <2>3, FrameWaitInv
<1>12. ASSUME NEW a \in Actor,
            Await(a)
      PROVE  WaitStep
  <2>1. /\ life[on[a]] = "ctor" /\ on[a] \in Obj /\ at[a] = "await"
        /\ life' = [life EXCEPT ![on[a]] = "alive"]
        /\ \A p \in Obj : p # on[a] => ctor'[p] = ctor[p]
        /\ UNCHANGED <<m_handle, m_id, crash>>
        /\ at' = [at EXCEPT ![a] = "idle"] /\ on' = [on EXCEPT ![a] = None]
    BY <1>12 DEF Await, Constructed, Goto, BuildInv, CtorInv, CtorLabel
  <2>2. JoinedStay /\ crash' = "none"
    BY <1>0, <2>1 DEF JoinedStay, WaitInv, JoinInv, EndingLabel
  <2>3. QED
    BY <2>2, FrameWaitInv
<1>13. ASSUME NEW t \in Slot,
            CallerLeavesScope(t)
      PROVE  WaitStep
  <2>1. JoinedStay
    BY <1>13
       DEF CallerLeavesScope, JoinedStay,
           WaitInv, JoinInv, EndingLabel
  <2>2. crash' = "none"
    BY <1>0, <1>13 DEF CallerLeavesScope
  <2>3. QED
    BY <2>1, <2>2, FrameWaitInv
<1>14. ASSUME NEW t \in Slot,
            Execute(t)
      PROVE  WaitStep
  <2>1. Goto(t, "signal", None) \/ Goto(t, "apply", None)
    BY <1>14 DEF Execute
  <2>2. JoinedStay /\ crash' = "none"
    BY <1>0, <1>14, <2>1
       DEF Execute, Goto, JoinedStay, WaitInv, JoinInv, EndingLabel
  <2>3. QED
    BY <2>2, FrameWaitInv
<1>15. ASSUME NEW t \in Slot,
            SetValueReturns(t)
      PROVE  WaitStep
  <2>1. JoinedStay
    BY <1>15
       DEF SetValueReturns, Goto, JoinedStay,
           WaitInv, JoinInv, EndingLabel
  <2>2. crash' = "none"
    BY <1>0, <1>15 DEF SetValueReturns, Goto
  <2>3. QED
    BY <2>1, <2>2, FrameWaitInv
<1>16. ASSUME NEW t \in Slot,
            Apply(t)
      PROVE  WaitStep
  <2>1. JoinedStay
    BY <1>16
       DEF Apply, Goto, JoinedStay,
           WaitInv, JoinInv, EndingLabel
  <2>2. crash' = "none"
    BY <1>0, <1>16 DEF Apply, Goto
  <2>3. QED
    BY <2>1, <2>2, FrameWaitInv
<1>17. ASSUME NEW t \in Slot,
            BodyReturns(t)
      PROVE  WaitStep
  <2>1. JoinedStay
    BY <1>17
       DEF BodyReturns, Goto, JoinedStay,
           WaitInv, JoinInv, EndingLabel
  <2>2. crash' = "none"
    BY <1>0, <1>17 DEF BodyReturns, Goto
  <2>3. QED
    BY <2>1, <2>2, FrameWaitInv
<1>18. ASSUME NEW t \in Slot,
            BodyThrows(t)
      PROVE  WaitStep
  BY <1>18, CrashWaitInv DEF BodyThrows
<1> HIDE DEF SharedType
<1>19. QED
  BY <1>1, <1>2, <1>3, <1>4, <1>5, <1>6, <1>7, <1>8, <1>9, <1>10, <1>11,
     <1>12, <1>13, <1>14, <1>15, <1>16, <1>17, <1>18
     DEF CommonNext

-----------------------------------------------------------------------------
(* The shared invariant, and the steps that both platforms have.           *)

SharedInv == SharedType /\ ThreadInv /\ BuildInv /\ WaitInv

(* The shared invariant holds at the start. *)
LEMMA InitSharedInv == CommonInit => SharedInv
  BY InitSharedType, InitThreadInv, InitBuildInv, InitWaitInv DEF SharedInv

(* What the steps do with it. *)
SharedStep == SharedInv' /\ (NoSelfJoin => NoSelfJoin') /\ EndedStay

(* Every shared action keeps the shared invariant. *)
LEMMA CommonSharedInv == SharedInv /\ CommonNext => SharedStep
  BY CommonSharedType, CommonThreadInv, CommonBuildInv, CommonWaitInv
     DEF SharedInv, SharedStep, WaitStep

(* A crash keeps it. *)
LEMMA CrashSharedInv ==
  ASSUME SharedInv, NEW a \in Actor, NEW o \in Obj \cup {None},
         NEW why \in {"destroyJoinable", "assignJoinable", "uncaught", "hangup"},
         ForceCrash(a, o, why)
  PROVE  SharedStep
  BY CrashSharedType, CrashThreadInv, CrashBuildInv, CrashWaitInv
     DEF SharedInv, SharedStep, WaitStep

(* initialize() has got a new thread from the system. *)
LEMMA CreatedSharedInv ==
  ASSUME SharedInv, NEW a \in Actor, NEW t \in Slot, NEW h \in Handle,
         t \notin running, Created(a, t, h)
  PROVE  SharedStep
<1>1. SharedType' /\ ThreadInv' /\ BuildInv'
  BY CreatedSharedType, CreatedThreadInv, CreatedBuildInv DEF SharedInv
<1>2. crash = "none"
  BY DEF SharedInv, ThreadInv, LabelInv, Created
<1>3. /\ a # t /\ at[a] = "create" /\ at[t] = "absent"
      /\ on[a] \in Obj /\ m_handle[on[a]] = None
      /\ at' = [at EXCEPT ![a] = "release", ![t] = "entry"]
      /\ \A p \in Obj : p # on[a] => ctor'[p] = ctor[p]
      /\ UNCHANGED <<life, m_handle, m_id, on, crash>>
  BY <1>2 DEF Created, SharedInv, SharedType, CommonTypeOK, OnObject, ThreadInv,
     LabelInv, BuildInv, CtorInv, CtorLabel
<1>4. JoinedStay
  BY <1>3, ThreadAssumption
     DEF JoinedStay, SharedInv, SharedType, CommonTypeOK, OnObject, WaitInv,
         JoinInv, EndingLabel, Actor
<1>5. WaitStep
  BY <1>2, <1>3, <1>4, FrameWaitInv DEF SharedInv
<1>6. QED
  BY <1>1, <1>5 DEF SharedInv, SharedStep, WaitStep

(* A step of the system behind the back of the objects. *)
LEMMA KernelSharedInv ==
  ASSUME SharedInv, UNCHANGED <<objVars, actorVars, callVars, running, crash>>
  PROVE  SharedStep
<1> USE DEF objVars, actorVars, callVars
<1>1. SharedType'
  BY DEF SharedInv, SharedType, CommonTypeOK, OnObject
<1>2. ThreadInv'
  BY DEF SharedInv, ThreadInv, LabelInv, CallableInv, SignalInv
<1>3. BuildInv'
  BY DEF SharedInv, BuildInv, HolderInv, CtorInv, IdInv
<1>4. WaitInv'
  BY DEF SharedInv, WaitInv, JoinInv, CrashInv, Partner
<1>5. (NoSelfJoin => NoSelfJoin') /\ EndedStay
  BY DEF NoSelfJoin, EndedStay
<1>6. QED
  BY <1>1, <1>2, <1>3, <1>4, <1>5 DEF SharedInv, SharedStep

(* join() or terminate() returns, normally or with an exception. *)
LEMMA JoinEndsSharedInv ==
  ASSUME SharedInv, NEW a \in Actor, at[a] \in EndingLabel, Goto(a, "idle", None),
         ResetHandleAndId(on[a]) \/ UNCHANGED <<m_handle, m_id>>,
         UNCHANGED <<life, ctor, callVars, running, crash>>
  PROVE  SharedStep
<1> DEFINE o == on[a]
<1> USE ThreadAssumption DEF SharedType, CommonTypeOK, OnObject
<1>1. /\ o \in Obj
      /\ at' = [at EXCEPT ![a] = "idle"] /\ on' = [on EXCEPT ![a] = None]
      /\ m_handle'[o] \in {m_handle[o], None}
      /\ m_handle'[o] = None \/ m_id'[o] = m_id[o]
      /\ \A p \in Obj : p # o => m_handle'[p] = m_handle[p] /\ m_id'[p] = m_id[p]
      /\ at[a] \in {"join", "recheck", "missing", "waited", "terminated"}
      /\ UNCHANGED <<life, ctor, callable, promise, args, running, crash>>
  BY DEF SharedInv, Goto, ResetHandleAndId, EndingLabel, callVars
<1>2. crash = "none"
  BY <1>1 DEF SharedInv, ThreadInv, LabelInv
<1>3. SharedType'
  BY <1>1 DEF SharedInv, ResetHandleAndId, Label, CtorLabel, EndingLabel
<1>4. ThreadInv'
  BY <1>1, <1>2, FrameThreadInv DEF SharedInv, ThreadInv, SignalInv, Actor
<1>5. OthersStay
  BY <1>1 DEF OthersStay, CtorLabel, SharedInv
<1>6. BuildInv'
  BY <1>1, <1>5, FrameBuildInv DEF SharedInv, BuildInv, HolderInv
<1>7. \A b \in Actor : b # a /\ at[b] \in EndingLabel => on[b] \in Obj /\ on[b] # o
  BY DEF SharedInv, WaitInv, JoinInv
<1>8. JoinedStay
  BY <1>1, <1>7 DEF JoinedStay, EndingLabel, SharedInv
<1>9. QED
  BY <1>1, <1>2, <1>3, <1>4, <1>6, <1>8, FrameWaitInv
     DEF SharedInv, SharedStep, WaitStep

(* detach() of an object that nobody joins. *)
LEMMA DetachSharedInv ==
  ASSUME SharedInv, NEW a \in Actor, NEW o \in Obj, Idle(a), MayCall(a, o),
         joinable(o), ResetHandleAndId(o),
         UNCHANGED <<life, ctor, actorVars, callVars, running, crash>>
  PROVE  SharedStep
<1> USE ThreadAssumption DEF SharedType, CommonTypeOK, OnObject, actorVars, callVars
<1>1. /\ m_handle'[o] = None
      /\ \A p \in Obj : p # o => m_handle'[p] = m_handle[p] /\ m_id'[p] = m_id[p]
  BY DEF SharedInv, ResetHandleAndId
<1>2. crash = "none"
  BY DEF SharedInv, ThreadInv, LabelInv, Idle
<1>3. SharedType'
  BY DEF SharedInv, ResetHandleAndId
<1>4. ThreadInv'
  BY DEF SharedInv, ThreadInv, LabelInv, CallableInv, SignalInv
<1>5. OthersStay
  BY DEF OthersStay
<1>6. BuildInv'
  BY <1>1, <1>5, FrameBuildInv DEF SharedInv, BuildInv, HolderInv
<1>7. \A b \in Actor : at[b] \in EndingLabel => on[b] \in Obj /\ on[b] # o
  BY DEF SharedInv, WaitInv, JoinInv, Idle, MayCall, MayUse, Busy, EndingLabel
<1>8. JoinedStay
  BY <1>1, <1>7 DEF JoinedStay
<1>9. QED
  BY <1>2, <1>3, <1>4, <1>6, <1>8, FrameWaitInv
     DEF SharedInv, SharedStep, WaitStep

(* threadProc returns. *)
LEMMA ExitSharedInv ==
  ASSUME SharedInv, NEW t \in Slot, at[t] = "leaving",
         running' = running \ {t}, Goto(t, "absent", None),
         UNCHANGED <<objVars, callVars, crash>>
  PROVE  SharedStep
<1> USE ThreadAssumption
        DEF SharedType, CommonTypeOK, OnObject, objVars, callVars, Actor
<1>1. at' = [at EXCEPT ![t] = "absent"] /\ on' = [on EXCEPT ![t] = None]
  BY DEF Goto
<1>2. crash = "none"
  BY DEF SharedInv, ThreadInv, LabelInv
<1>3. SharedType'
  BY <1>1 DEF SharedInv, Label, CtorLabel, EndingLabel
<1>4. ThreadInv'
  BY <1>1, <1>2 DEF SharedInv, ThreadInv, LabelInv, CallableInv, SignalInv
<1>5. OthersStay
  BY <1>1 DEF OthersStay, CtorLabel, SharedInv
<1>6. BuildInv'
  BY <1>5, FrameBuildInv DEF SharedInv, BuildInv, HolderInv
<1>7. JoinedStay
  BY <1>1 DEF JoinedStay, EndingLabel, SharedInv
<1>8. QED
  BY <1>2, <1>3, <1>4, <1>6, <1>7, FrameWaitInv
     DEF SharedInv, SharedStep, WaitStep

-----------------------------------------------------------------------------
(* What a step of CommonNext does to the handles.                          *)

(* Every object, or its constructor, keeps its handle with its id. *)
PairStays(o) ==
  Holds(o)' = Holds(o) /\ (Holds(o) # None => Partner(o)' = Partner(o))

(* o now has what p had. *)
PairMoves(o, p) ==
  Holds(o)' = Holds(p) /\ (Holds(p) # None => Partner(o)' = Partner(p))

(* Handles stay with their ids where they are, or two objects swap them. *)
PairsMove ==
  \/ \A o \in Obj : PairStays(o)
  \/ \E o, p \in Obj : /\ PairMoves(o, p)
                      /\ PairMoves(p, o)
                      /\ \A q \in Obj \ {o, p} : PairStays(q)

(* The members stay, are swapped, or one is stored by a constructor. *)
MembersMove ==
  \/ m_handle' = m_handle
  \/ \E o, p \in Obj :
       /\ m_handle' = [m_handle EXCEPT ![o] = m_handle[p], ![p] = m_handle[o]]
       /\ m_id' = [m_id EXCEPT ![o] = m_id[p], ![p] = m_id[o]]
  \/ \E o \in Obj : /\ m_handle[o] = None /\ ctor[o].handle # None
                    /\ m_handle' = [m_handle EXCEPT ![o] = ctor[o].handle]

(* Nobody's join or terminate returns. *)
StillJoining == \A a \in Actor : at[a] \in EndingLabel => at'[a] # "idle"

CommonEffect ==
  PairsMove /\ MembersMove /\ StillJoining /\ UNCHANGED <<running, kernel>>

(* A step that leaves the objects alone. *)
LEMMA FrameEffect ==
  ASSUME UNCHANGED <<life, ctor, m_handle, m_id, running, kernel>>, StillJoining
  PROVE  CommonEffect
  BY DEF CommonEffect, PairsMove, PairStays, MembersMove, Holds, Partner, joinable

(* A crash does. *)
LEMMA CrashEffect ==
  ASSUME NEW a, NEW o, NEW why, ForceCrash(a, o, why)
  PROVE  CommonEffect
  BY FrameEffect DEF ForceCrash, objVars, sysVars, StillJoining, EndingLabel

(* swap(): o and p are alive, or o is raw storage about to be one. *)
LEMMA ExchangeEffect ==
  ASSUME SharedInv, NEW o \in Obj, NEW p \in Obj,
         life[o] # "ctor", life[p] = "alive",
         life' = [life EXCEPT ![o] = "alive"],
         Exchange(o, p), UNCHANGED <<ctor, at, running, kernel>>
  PROVE  CommonEffect
<1> USE DEF SharedInv, SharedType, CommonTypeOK
<1>1. /\ m_handle'[o] = m_handle[p] /\ m_id'[o] = m_id[p]
      /\ m_handle'[p] = m_handle[o] /\ m_id'[p] = m_id[o]
      /\ \A q \in Obj \ {o, p} : m_handle'[q] = m_handle[q] /\ m_id'[q] = m_id[q]
  BY DEF Exchange
<1>2. ctor[o].handle = None /\ ctor[p].handle = None
  BY DEF BuildInv, HolderInv
<1>3. /\ PairMoves(o, p)
      /\ PairMoves(p, o)
      /\ \A q \in Obj \ {o, p} : PairStays(q)
  BY <1>1, <1>2 DEF PairMoves, PairStays, Holds, Partner, joinable
<1>4. PairsMove
  BY <1>3 DEF PairsMove
<1>5. MembersMove
  BY DEF MembersMove, Exchange
<1>6. StillJoining
  BY DEF StillJoining, EndingLabel
<1>7. QED
  BY <1>4, <1>5, <1>6 DEF CommonEffect

(* swap() between two live objects. *)
LEMMA SwapEffect ==
  ASSUME SharedInv, NEW a \in Actor, NEW o \in Obj, NEW p \in Obj, Swap(a, o, p)
  PROVE  CommonEffect
<1>1. /\ life[o] = "alive" /\ life[p] = "alive"
      /\ life' = [life EXCEPT ![o] = "alive"]
      /\ Exchange(o, p)
      /\ UNCHANGED <<ctor, at, running, kernel>>
  BY DEF Swap, MayUse, actorVars, sysVars, SharedInv, SharedType, CommonTypeOK
<1>2. QED
  BY <1>1, ExchangeEffect

(* The last step of a constructor leaves the object with its pair. *)
LEMMA ConstructedEffect ==
  ASSUME SharedInv, NEW a \in Actor, at[a] \in {"tieId", "await"},
         Constructed(a, on[a]), UNCHANGED <<m_handle, running, kernel>>,
         \A o \in Obj : o # on[a] => m_id'[o] = m_id[o],
         m_handle[on[a]] # None => m_id'[on[a]] = ctor[on[a]].id
  PROVE  CommonEffect
<1> USE ThreadAssumption
        DEF SharedInv, SharedType, CommonTypeOK, OnObject, CtorLabel
<1>1. /\ on[a] \in Obj
      /\ life[on[a]] = "ctor" /\ ctor[on[a]].handle = None
      /\ life' = [life EXCEPT ![on[a]] = "alive"]
      /\ ctor' = [ctor EXCEPT ![on[a]] = NoCtor]
      /\ at' = [at EXCEPT ![a] = "idle"]
      /\ NoCtor.handle = None
  BY DEF Constructed, Goto, NoCtor, BuildInv, CtorInv
<1>2. \A o \in Obj : PairStays(o)
  BY <1>1 DEF PairStays, Holds, Partner, joinable
<1>3. StillJoining
  BY <1>1 DEF StillJoining, EndingLabel
<1>4. QED
  BY <1>2, <1>3 DEF CommonEffect, PairsMove, MembersMove

(* Every shared action. *)
LEMMA CommonEffects ==
  ASSUME SharedInv, CommonNext
  PROVE  CommonEffect
<1> USE ThreadAssumption
        DEF SharedInv, SharedType, CommonTypeOK, OnObject, Actor, objVars,
            actorVars, callVars, sysVars
<1>1. ASSUME NEW a \in Actor, NEW o \in Obj,
            NEW startStrategy \in StartStrategy,
            NEW arguments \in {"owned", "lent"},
            Construct(a, o, startStrategy, arguments)
      PROVE  CommonEffect
  <2>1. /\ life[o] = "raw" /\ life' = [life EXCEPT ![o] = "ctor"]
        /\ m_handle' = [m_handle EXCEPT ![o] = None]
        /\ m_id' = [m_id EXCEPT ![o] = None]
        /\ ctor'[o].handle = None
        /\ \A p \in Obj : p # o => ctor'[p] = ctor[p]
        /\ UNCHANGED <<running, kernel>>
    BY <1>1 DEF Construct, NoCtor
  <2>2. m_handle[o] = None /\ ctor[o].handle = None
    BY <2>1 DEF BuildInv, HolderInv
  <2>3. PairsMove
    BY <2>1, <2>2 DEF PairsMove, PairStays, Holds, Partner, joinable
  <2>4. m_handle' = m_handle
    BY <2>1, <2>2
  <2>5. StillJoining
    BY <1>1 DEF Construct, Goto, StillJoining, EndingLabel
  <2>6. QED
    BY <2>1, <2>3, <2>4, <2>5 DEF CommonEffect, MembersMove
<1>2. ASSUME NEW a \in Actor, NEW o \in Obj,
            DefaultConstruct(a, o)
      PROVE  CommonEffect
  <2>1. /\ life[o] = "raw" /\ life' = [life EXCEPT ![o] = "alive"]
        /\ m_handle' = [m_handle EXCEPT ![o] = None]
        /\ m_id' = [m_id EXCEPT ![o] = None]
        /\ UNCHANGED <<ctor, at, running, kernel>>
    BY <1>2 DEF DefaultConstruct, ResetHandleAndId
  <2>2. m_handle[o] = None /\ ctor[o].handle = None
    BY <2>1 DEF BuildInv, HolderInv
  <2>3. PairsMove
    BY <2>1, <2>2 DEF PairsMove, PairStays, Holds, Partner, joinable
  <2>4. m_handle' = m_handle
    BY <2>1, <2>2
  <2>5. QED
    BY <2>1, <2>3, <2>4 DEF CommonEffect, MembersMove, StillJoining, EndingLabel
<1>3. ASSUME NEW a \in Actor, NEW o \in Obj,
            Destroy(a, o)
      PROVE  CommonEffect
  <2>1. CASE joinable(o)
    BY <1>3, <2>1, CrashEffect DEF Destroy
  <2>2. CASE ~joinable(o)
    <3>1. /\ life[o] = "alive" /\ m_handle[o] = None
          /\ life' = [life EXCEPT ![o] = "raw"]
          /\ m_id' = [m_id EXCEPT ![o] = None]
          /\ UNCHANGED <<ctor, m_handle, at, running, kernel>>
      BY <1>3, <2>2 DEF Destroy, MayUse, joinable
    <3>2. ctor[o].handle = None
      BY <3>1 DEF BuildInv, HolderInv
    <3>3. PairsMove
      BY <3>1, <3>2 DEF PairsMove, PairStays, Holds, Partner, joinable
    <3>4. QED
      BY <3>1, <3>3 DEF CommonEffect, MembersMove, StillJoining, EndingLabel
  <2>3. QED
    BY <2>1, <2>2
<1>4. ASSUME NEW a \in Actor, NEW o \in Obj,
            Join(a, o)
      PROVE  CommonEffect
  <2>1. CASE m_id[o] = a
    BY <1>4, <2>1, CrashEffect DEF Join
  <2>2. CASE m_id[o] # a
    BY <1>4, <2>2, FrameEffect DEF Join, Goto, StillJoining, EndingLabel
  <2>3. QED
    BY <2>1, <2>2
<1>5. ASSUME NEW a \in Actor, NEW o \in Obj, NEW p \in Obj,
            MoveConstruct(a, o, p)
      PROVE  CommonEffect
  <2>1. /\ life[o] # "ctor" /\ life[p] = "alive"
        /\ life' = [life EXCEPT ![o] = "alive"]
        /\ Exchange(o, p)
        /\ UNCHANGED <<ctor, at, running, kernel>>
    BY <1>5 DEF MoveConstruct, MayUse
  <2>2. QED
    BY <2>1, ExchangeEffect
<1>6. ASSUME NEW a \in Actor, NEW o \in Obj, NEW p \in Obj,
            MoveAssign(a, o, p)
      PROVE  CommonEffect
  <2>1. CASE joinable(o)
    BY <1>6, <2>1, CrashEffect DEF MoveAssign
  <2>2. CASE ~joinable(o)
    BY <1>6, <2>2, SwapEffect DEF MoveAssign
  <2>3. QED
    BY <2>1, <2>2
<1>7. ASSUME NEW a \in Actor, NEW o \in Obj, NEW p \in Obj,
            Swap(a, o, p)
      PROVE  CommonEffect
  BY <1>7, SwapEffect
<1>8. ASSUME NEW a \in Actor,
            CreateFails(a)
      PROVE  CommonEffect
  <2>1. /\ on[a] \in Obj /\ at[a] = "create"
        /\ life' = [life EXCEPT ![on[a]] = "raw"]
        /\ ctor' = [ctor EXCEPT ![on[a]] = NoCtor]
        /\ at' = [at EXCEPT ![a] = "idle"]
        /\ NoCtor.handle = None
        /\ UNCHANGED <<m_handle, m_id, running, kernel>>
    BY <1>8 DEF CreateFails, Goto, CtorLabel, NoCtor
  <2>2. m_handle[on[a]] = None /\ ctor[on[a]].handle = None
    BY <2>1 DEF BuildInv, CtorInv, CtorLabel
  <2>3. PairsMove
    BY <2>1, <2>2 DEF PairsMove, PairStays, Holds, Partner, joinable
  <2>4. QED
    BY <2>1, <2>3 DEF CommonEffect, MembersMove, StillJoining, EndingLabel
<1>9. ASSUME NEW a \in Actor,
            Release(a)
      PROVE  CommonEffect
  BY <1>9, FrameEffect DEF Release, Goto, StillJoining, EndingLabel
<1>10. ASSUME NEW a \in Actor,
            TieHandle(a)
      PROVE  CommonEffect
  <2>1. /\ on[a] \in Obj /\ at[a] = "tieHandle"
        /\ m_handle' = [m_handle EXCEPT ![on[a]] = ctor[on[a]].handle]
        /\ ctor'[on[a]].handle = None /\ ctor'[on[a]].id = ctor[on[a]].id
        /\ \A p \in Obj : p # on[a] => ctor'[p] = ctor[p]
        /\ at' = [at EXCEPT ![a] = "tieId"]
        /\ UNCHANGED <<life, m_id, running, kernel>>
    BY <1>10 DEF TieHandle, Goto, CtorLabel, CtorLocals
  <2>2. /\ life[on[a]] = "ctor"
        /\ m_handle[on[a]] = None /\ ctor[on[a]].handle # None
    BY <2>1 DEF BuildInv, CtorInv, CtorLabel
  <2>3. PairsMove
    BY <2>1, <2>2 DEF PairsMove, PairStays, Holds, Partner, joinable
  <2>4. MembersMove
    BY <2>1, <2>2 DEF MembersMove
  <2>5. QED
    BY <2>1, <2>3, <2>4 DEF CommonEffect, StillJoining, EndingLabel
<1>11. ASSUME NEW a \in Actor,
            TieId(a)
      PROVE  CommonEffect
  <2>1. /\ on[a] \in Obj /\ at[a] = "tieId"
        /\ m_id' = [m_id EXCEPT ![on[a]] = ctor[on[a]].id]
        /\ UNCHANGED <<m_handle, running, kernel>>
    BY <1>11 DEF TieId, CtorLabel
  <2>2. CASE ctor[on[a]].startStrategy = "Wait"
    <3>1. /\ at' = [at EXCEPT ![a] = "await"]
          /\ UNCHANGED <<life, ctor>>
      BY <1>11, <2>1, <2>2 DEF TieId, Goto
    <3>2. life[on[a]] = "ctor"
      BY <2>1 DEF BuildInv, CtorInv, CtorLabel
    <3>3. PairsMove
      BY <2>1, <3>1, <3>2 DEF PairsMove, PairStays, Holds, Partner, joinable
    <3>4. QED
      BY <2>1, <3>1, <3>3 DEF CommonEffect, MembersMove, StillJoining, EndingLabel
  <2>3. CASE ctor[on[a]].startStrategy # "Wait"
    <3>1. Constructed(a, on[a])
      BY <1>11, <2>3 DEF TieId
    <3>2. QED
      BY <2>1, <3>1, ConstructedEffect
  <2>4. QED
    BY <2>2, <2>3
<1>12. ASSUME NEW a \in Actor,
            Await(a)
      PROVE  CommonEffect
  <2>1. /\ at[a] = "await" /\ Constructed(a, on[a])
        /\ UNCHANGED <<m_handle, m_id, running, kernel>>
    BY <1>12 DEF Await
  <2>2. m_handle[on[a]] # None => m_id[on[a]] = ctor[on[a]].id
    BY <2>1 DEF BuildInv, CtorInv, CtorLabel
  <2>3. QED
    BY <2>1, <2>2, ConstructedEffect
<1>13. ASSUME NEW t \in Slot,
            CallerLeavesScope(t)
      PROVE  CommonEffect
  BY <1>13, FrameEffect DEF CallerLeavesScope, StillJoining, EndingLabel
<1>14. ASSUME NEW t \in Slot,
            Execute(t)
      PROVE  CommonEffect
  <2>1. Goto(t, "signal", None) \/ Goto(t, "apply", None)
    BY <1>14 DEF Execute
  <2>2. QED
    BY <1>14, <2>1, FrameEffect DEF Execute, Goto, StillJoining, EndingLabel
<1>15. ASSUME NEW t \in Slot,
            SetValueReturns(t)
      PROVE  CommonEffect
  BY <1>15, FrameEffect DEF SetValueReturns, Goto, StillJoining, EndingLabel
<1>16. ASSUME NEW t \in Slot,
            Apply(t)
      PROVE  CommonEffect
  BY <1>16, FrameEffect DEF Apply, Goto, StillJoining, EndingLabel
<1>17. ASSUME NEW t \in Slot,
            BodyReturns(t)
      PROVE  CommonEffect
  BY <1>17, FrameEffect DEF BodyReturns, Goto, StillJoining, EndingLabel
<1>18. ASSUME NEW t \in Slot,
            BodyThrows(t)
      PROVE  CommonEffect
  BY <1>18, CrashEffect DEF BodyThrows
<1> HIDE DEF SharedInv
<1>19. QED
  BY <1>1, <1>2, <1>3, <1>4, <1>5, <1>6, <1>7, <1>8, <1>9, <1>10, <1>11,
     <1>12, <1>13, <1>14, <1>15, <1>16, <1>17, <1>18
     DEF CommonNext

(* It also deletes no Callable but that of a thread that is done with it. *)
CallablesKept == \A t \in Slot : callable'[t] \in {callable[t], "deleted"}

(* Every shared action: only the thread that owns a Callable touches it. *)
LEMMA CommonCallables ==
  ASSUME SharedInv, CommonNext
  PROVE  CallablesKept
<1>1. ASSUME NEW a \in Actor, NEW o \in Obj, NEW why, ForceCrash(a, o, why)
      PROVE  CallablesKept
  <2>1. UNCHANGED callVars
    BY <1>1, Zenon DEF ForceCrash
  <2>2. callable' = callable
    BY <2>1 DEF callVars
  <2>3. QED
    BY <2>2 DEF CallablesKept
<1> USE DEF CallablesKept, SharedInv, SharedType, CommonTypeOK, callVars
<1>2. ASSUME NEW a \in Actor, NEW o \in Obj,
             \/ \E startStrategy \in StartStrategy, arguments \in {"owned", "lent"} :
                  Construct(a, o, startStrategy, arguments)
             \/ DefaultConstruct(a, o)
             \/ Destroy(a, o)
             \/ Join(a, o)
      PROVE  CallablesKept
  BY <1>1, <1>2 DEF Construct, DefaultConstruct, Destroy, Join
<1>3. ASSUME NEW a \in Actor, NEW o \in Obj, NEW p \in Obj,
             MoveConstruct(a, o, p) \/ MoveAssign(a, o, p) \/ Swap(a, o, p)
      PROVE  CallablesKept
  BY <1>1, <1>3 DEF MoveConstruct, MoveAssign, Swap
<1>4. ASSUME NEW a \in Actor,
             \/ CreateFails(a) \/ Release(a) \/ TieHandle(a) \/ TieId(a)
             \/ Await(a)
      PROVE  CallablesKept
  BY <1>4 DEF CreateFails, Release, TieHandle, TieId, Await
<1>5. ASSUME NEW t \in Slot,
             \/ CallerLeavesScope(t) \/ Execute(t) \/ SetValueReturns(t)
             \/ Apply(t) \/ BodyReturns(t) \/ BodyThrows(t)
      PROVE  CallablesKept
  BY <1>5 DEF CallerLeavesScope, Execute, SetValueReturns, Apply, BodyReturns,
              BodyThrows, ForceCrash
<1> HIDE DEF CallablesKept, SharedInv
<1>6. QED
  BY <1>2, <1>3, <1>4, <1>5 DEF CommonNext

-----------------------------------------------------------------------------
(* Who holds a handle after a step.                                        *)

Held(h) == \E o \in Obj : Holds(o) = h

(* No handle is lost when handles stay with their ids or are swapped. *)
LEMMA PairsMoveHeld ==
  ASSUME PairsMove, NEW h, Held(h)
  PROVE  Held(h)'
<1>1. CASE \A o \in Obj : PairStays(o)
  BY <1>1 DEF PairStays, Held
<1>2. ASSUME NEW o \in Obj, NEW p \in Obj, PairMoves(o, p), PairMoves(p, o),
             \A q \in Obj \ {o, p} : PairStays(q)
      PROVE  Held(h)'
  BY <1>2 DEF PairStays, PairMoves, Held
<1>3. QED
  BY <1>1, <1>2 DEF PairsMove

(* initialize() gives a constructor the handle and the id of its thread. *)
LEMMA CreatedHolds ==
  ASSUME SharedInv, NEW a \in Actor, NEW t \in Slot, NEW h \in Handle,
         Created(a, t, h)
  PROVE  /\ on[a] \in Obj
         /\ Holds(on[a]) = None /\ Holds(on[a])' = h /\ Partner(on[a])' = t
         /\ \A p \in Obj : p # on[a] =>
              Holds(p)' = Holds(p) /\ Partner(p)' = Partner(p)
         /\ UNCHANGED <<on, m_handle>>
<1> USE DEF SharedInv, SharedType, CommonTypeOK
<1>1. /\ on[a] \in Obj /\ at[a] = "create" /\ life[on[a]] = "ctor"
      /\ m_handle[on[a]] = None /\ ctor[on[a]].handle = None
  BY DEF Created, OnObject, CtorLabel, BuildInv, CtorInv
<1>2. /\ ctor'[on[a]].handle = h /\ ctor'[on[a]].id = t
      /\ \A p \in Obj : p # on[a] => ctor'[p] = ctor[p]
      /\ UNCHANGED <<life, m_handle, m_id, on>>
  BY <1>1 DEF Created, CtorLocals
<1>3. QED
  BY <1>1, <1>2 DEF Holds, Partner, joinable

(* join(), detach() and terminate() take the handle away from one object. *)
LEMMA ResetHolds ==
  ASSUME SharedInv, NEW o \in Obj, m_handle[o] # None, ResetHandleAndId(o),
         UNCHANGED <<life, ctor>>
  PROVE  /\ m_handle[o] \in Handle
         /\ Holds(o) = m_handle[o] /\ Holds(o)' = None
         /\ \A p \in Obj : p # o => Holds(p)' = Holds(p) /\ Partner(p)' = Partner(p)
<1> USE DEF SharedInv, SharedType, CommonTypeOK
<1>1. m_handle'[o] = None /\ ctor'[o].handle = None
  BY DEF ResetHandleAndId, BuildInv, HolderInv
<1>2. \A p \in Obj : p # o => m_handle'[p] = m_handle[p] /\ m_id'[p] = m_id[p]
  BY DEF ResetHandleAndId
<1>3. QED
  BY <1>1, <1>2 DEF Holds, Partner, joinable

(* Two tables that differ in at most one entry. *)
LEMMA ChangedAt ==
  ASSUME NEW D, NEW f, NEW g, NEW t \in D, NEW s,
         f = [u \in D |-> f[u]], g = [u \in D |-> g[u]],
         g[t] = s, \A u \in D : u # t => g[u] = f[u]
  PROVE  g = [f EXCEPT ![t] = s]
  OBVIOUS
=============================================================================
