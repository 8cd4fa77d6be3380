------------------------- MODULE SyncObjectsProofs --------------------------
(***************************************************************************)
(* Proofs about SyncObjects: its type invariant, and that CriticalSections *)
(* are entered exactly as often as SyncLocks on them exist.                *)
(***************************************************************************)
EXTENDS SyncObjects, FiniteSetTheorems, SequenceTheorems, TLAPS

-----------------------------------------------------------------------------
(* Opening one more scope counts for its object and no other. *)
LEMMA LocksAppend ==
  ASSUME NEW q \in Seq(Object), NEW x \in Object, NEW s \in Object
  PROVE  /\ Locks(q, s) \in Nat
         /\ Locks(Append(q, x), s) = IF x = s THEN Locks(q, s) + 1 ELSE Locks(q, s)
<1> DEFINE A == {i \in DOMAIN q : q[i] = s}
           B == {i \in DOMAIN Append(q, x) : Append(q, x)[i] = s}
<1>1. IsFiniteSet(A)
  <2>1. DOMAIN q = 1..Len(q) /\ Len(q) \in Nat
    OBVIOUS
  <2>2. IsFiniteSet(1..Len(q))
    BY <2>1, FS_Interval
  <2> QED
    BY <2>1, <2>2, FS_Subset
<1>2. Cardinality(A) \in Nat
  BY <1>1, FS_CardinalityType
<1>3. CASE x = s
  <2>1. B = A \cup {Len(q) + 1} /\ Len(q) + 1 \notin A
    BY <1>3
  <2>2. Cardinality(B) = Cardinality(A) + 1
    BY <1>1, <2>1, FS_AddElement
  <2> QED
    BY <1>2, <1>3, <2>2 DEF Locks
<1>4. CASE x # s
  <2>1. B = A
    BY <1>4
  <2> QED
    BY <1>2, <1>4, <2>1 DEF Locks
<1> QED
  BY <1>3, <1>4

(* The stack without its top, and the top. *)
LEMMA LocksFront ==
  ASSUME NEW q \in Seq(Object), q # <<>>, NEW s \in Object
  PROVE  /\ Last(q) \in Object
         /\ Front(q) \in Seq(Object)
         /\ Locks(Front(q), s) \in Nat
         /\ Locks(q, s) = IF Last(q) = s THEN Locks(Front(q), s) + 1
                          ELSE Locks(Front(q), s)
<1>1. Last(q) \in Object /\ Front(q) \in Seq(Object)
  BY DEF Last, Front
<1>2. q = Append(Front(q), Last(q))
  BY DEF Last, Front
<1>3. Locks(q, s) = Locks(Append(Front(q), Last(q)), s)
  BY <1>2
<1>4. /\ Locks(Front(q), s) \in Nat
      /\ Locks(Append(Front(q), Last(q)), s)
           = IF Last(q) = s THEN Locks(Front(q), s) + 1 ELSE Locks(Front(q), s)
  BY <1>1, LocksAppend
<1> QED
  BY <1>1, <1>3, <1>4

-----------------------------------------------------------------------------
(* The inductive invariant: besides what is to be shown, a section without *)
(* an owner is one that has not been entered.                              *)
FreeIsUnentered == \A s \in Section : owner[s] = None <=> depth[s] = 0

IInv == TypeOK /\ LocksMatchEntries /\ FreeIsUnentered

(* The first state has the invariant. *)
LEMMA InitIInv == Init => IInv
<1> SUFFICES ASSUME Init PROVE IInv
  OBVIOUS
<1>1. TypeOK
  BY DEF Init, TypeOK
<1>2. ASSUME NEW s PROVE Locks(<<>>, s) = 0
  <2>1. {i \in DOMAIN <<>> : <<>>[i] = s} = {}
    OBVIOUS
  <2> QED
    BY <2>1, FS_EmptySet DEF Locks
<1>3. LocksMatchEntries
  BY <1>2, SyncAssumption DEF Init, LocksMatchEntries
<1> QED
  BY <1>1, <1>3 DEF Init, IInv, FreeIsUnentered

(* An action that neither enters or leaves a section nor opens or ends a   *)
(* scope has only its types to show.                                       *)
LEMMA ElsewhereIInv ==
  ASSUME IInv, UNCHANGED <<owner, depth, scopes>>, TypeOK'
  PROVE  IInv'
BY DEF IInv, LocksMatchEntries, FreeIsUnentered

(* Events: the threads in T open a scope on x, and x is no section. *)
LEMMA EventLockedIInv ==
  ASSUME IInv, NEW T \in SUBSET Thread, NEW x \in Event, Locked(T, x),
         UNCHANGED <<owner, depth>>, TypeOK'
  PROVE  IInv'
<1>1. ASSUME NEW s \in Section, NEW t \in Thread
      PROVE  Locks(scopes'[t], s) = Locks(scopes[t], s)
  <2>1. x # s /\ x \in Object /\ s \in Object
    BY SyncAssumption DEF Object
  <2>2. scopes[t] \in Seq(Object)
    BY DEF IInv, TypeOK
  <2>3. Locks(Append(scopes[t], x), s) = Locks(scopes[t], s)
    BY <2>1, <2>2, LocksAppend
  <2> QED
    BY <2>3 DEF Locked
<1>2. LocksMatchEntries'
  BY <1>1 DEF IInv, LocksMatchEntries
<1> QED
  BY <1>2 DEF IInv, FreeIsUnentered

(* What the SyncLocks of T leave of the types. *)
LEMMA LockedType ==
  ASSUME TypeOK, NEW T \in SUBSET Thread, NEW x \in Object, Locked(T, x)
  PROVE  /\ waiting' \in [Thread -> Object \cup {None}]
         /\ scopes' \in [Thread -> Seq(Object)]
<1>1. waiting' \in [Thread -> Object \cup {None}]
  BY DEF TypeOK, Locked
<1>2. ASSUME NEW t \in Thread PROVE Append(scopes[t], x) \in Seq(Object)
  BY DEF TypeOK
<1> QED
  BY <1>1, <1>2 DEF TypeOK, Locked

(* EnterCriticalSection keeps it: one more SyncLock, one entry more. *)
LEMMA EnterSectionIInv ==
  ASSUME IInv, NEW t \in Thread, NEW s \in Section, EnterSection(t, s)
  PROVE  IInv'
<1>1. s \in Object /\ t # None /\ TypeOK
  BY SyncAssumption DEF Object, IInv
<1>2. /\ owner' = [owner EXCEPT ![s] = t]
      /\ depth' = [depth EXCEPT ![s] = @ + 1]
      /\ owner[s] \in {None, t}
      /\ Locked({t}, s)
  BY DEF EnterSection
<1>3. TypeOK'
  <2>1. /\ waiting' \in [Thread -> Object \cup {None}]
        /\ scopes' \in [Thread -> Seq(Object)]
    BY <1>1, <1>2, LockedType
  <2> QED
    BY <1>1, <1>2, <2>1 DEF TypeOK, EnterSection, eventVars
<1>4. LocksMatchEntries'
  <2> SUFFICES ASSUME NEW r \in Section, NEW u \in Thread
               PROVE  Locks(scopes'[u], r) = IF owner'[r] = u THEN depth'[r] ELSE 0
    BY DEF LocksMatchEntries
  <2>1. /\ scopes[u] \in Seq(Object) /\ r \in Object /\ depth[r] \in Nat
        /\ Locks(scopes[u], r) = IF owner[r] = u THEN depth[r] ELSE 0
        /\ owner[r] = None <=> depth[r] = 0
    BY DEF IInv, TypeOK, LocksMatchEntries, FreeIsUnentered, Object
  <2>2. Locks(Append(scopes[u], s), r)
          = IF s = r THEN Locks(scopes[u], r) + 1 ELSE Locks(scopes[u], r)
    BY <1>1, <2>1, LocksAppend
  <2>3. scopes'[u] = IF u = t THEN Append(scopes[u], s) ELSE scopes[u]
    BY <1>2 DEF Locked
  <2>4. CASE r = s
    <3>1. owner'[r] = t /\ depth'[r] = depth[r] + 1
      BY <1>1, <1>2, <2>4 DEF TypeOK
    <3> QED
      BY <1>1, <1>2, <2>1, <2>2, <2>3, <2>4, <3>1
  <2>5. CASE r # s
    <3>1. owner'[r] = owner[r] /\ depth'[r] = depth[r]
      BY <1>1, <1>2, <2>5 DEF TypeOK
    <3> QED
      BY <2>1, <2>2, <2>3, <2>5, <3>1
  <2> QED
    BY <2>4, <2>5
<1>5. FreeIsUnentered'
  BY <1>1, <1>2 DEF IInv, TypeOK, FreeIsUnentered
<1> QED
  BY <1>3, <1>4, <1>5 DEF IInv

(* LeaveCriticalSection keeps it: one SyncLock less, one entry less. *)
LEMMA EndScopeIInv ==
  ASSUME IInv, NEW t \in Thread, EndScope(t)
  PROVE  IInv'
<1> DEFINE x == Last(scopes[t])
<1>1. TypeOK /\ scopes[t] \in Seq(Object) /\ scopes[t] # <<>> /\ t # None
  BY SyncAssumption DEF IInv, TypeOK, EndScope
<1>2. x \in Object /\ Front(scopes[t]) \in Seq(Object)
  BY <1>1 DEF Last, Front
<1>3. /\ scopes' = [scopes EXCEPT ![t] = Front(scopes[t])]
      /\ Unlock(t, x)
      /\ UNCHANGED <<life, manual, signal, open, dead, waiting>>
  BY DEF EndScope, eventVars
<1>4. ASSUME NEW u \in Thread, NEW r \in Section
      PROVE  /\ Locks(scopes[u], r) = IF owner[r] = u THEN depth[r] ELSE 0
             /\ Locks(scopes'[u], r) \in Nat
             /\ Locks(scopes[u], r) = IF u = t /\ x = r THEN Locks(scopes'[u], r) + 1
                                      ELSE Locks(scopes'[u], r)
  <2>1. scopes[u] \in Seq(Object) /\ r \in Object
    BY <1>1 DEF TypeOK, Object
  <2>2. Locks(scopes[u], r) = IF owner[r] = u THEN depth[r] ELSE 0
    BY DEF IInv, LocksMatchEntries
  <2>3. CASE u = t
    <3>1. scopes'[u] = Front(scopes[t])
      BY <1>1, <1>3, <2>3 DEF TypeOK
    <3> QED
      BY <1>1, <2>1, <2>2, <2>3, <3>1, LocksFront
  <2>4. CASE u # t
    <3>1. scopes'[u] = scopes[u]
      BY <1>1, <1>3, <2>4 DEF TypeOK
    <3>2. Locks(scopes[u], r) \in Nat
      BY <2>1, LocksAppend
    <3> QED
      BY <2>2, <2>4, <3>1, <3>2
  <2> QED
    BY <2>3, <2>4
<1>5. CASE x \in Event
  <2>1. UNCHANGED <<owner, depth>> /\ x \notin Section
    BY <1>3, <1>5, SyncAssumption DEF Unlock, sectionVars
  <2>2. TypeOK'
    BY <1>1, <1>2, <1>3, <2>1 DEF TypeOK
  <2>3. LocksMatchEntries'
    BY <1>4, <2>1 DEF LocksMatchEntries
  <2> QED
    BY <2>1, <2>2, <2>3 DEF IInv, FreeIsUnentered
<1>6. CASE x \in Section
  <2>1. /\ depth' = [depth EXCEPT ![x] = @ - 1]
        /\ owner' = [owner EXCEPT ![x] = IF depth[x] = 1 THEN None ELSE @]
    BY <1>3, <1>6 DEF Unlock
  <2>2. owner[x] = t /\ depth[x] \in Nat /\ depth[x] >= 1
    BY <1>1, <1>4, <1>6 DEF TypeOK
  <2>3. TypeOK'
    BY <1>1, <1>2, <1>3, <1>6, <2>1, <2>2 DEF TypeOK
  <2>4. LocksMatchEntries'
    <3> SUFFICES ASSUME NEW r \in Section, NEW u \in Thread
                 PROVE  Locks(scopes'[u], r) = IF owner'[r] = u THEN depth'[r] ELSE 0
      BY DEF LocksMatchEntries
    <3>1. CASE r = x
      <4>1. /\ depth'[r] = depth[r] - 1
            /\ owner'[r] = IF depth[r] = 1 THEN None ELSE t
        BY <1>1, <1>6, <2>1, <2>2, <3>1 DEF TypeOK
      <4>2. u # None
        BY SyncAssumption
      <4> QED
        BY <1>4, <2>2, <3>1, <4>1, <4>2
    <3>2. CASE r # x
      <4>1. depth'[r] = depth[r] /\ owner'[r] = owner[r]
        BY <1>1, <2>1, <3>2 DEF TypeOK
      <4> QED
        BY <1>4, <3>2, <4>1
    <3> QED
      BY <3>1, <3>2
  <2>5. FreeIsUnentered'
    BY <1>1, <1>6, <2>1, <2>2 DEF IInv, TypeOK, FreeIsUnentered
  <2> QED
    BY <2>3, <2>4, <2>5 DEF IInv
<1> QED
  BY <1>2, <1>5, <1>6 DEF Object

(* Every step preserves the invariant. *)
LEMMA NextIInv ==
  ASSUME IInv, [Next]_vars
  PROVE  IInv'
<1> USE DEF sectionVars, eventVars, threadVars
<1>1. TypeOK
  BY DEF IInv
<1>2. ASSUME NEW s \in Section, CriticalSection(s) PROVE IInv'
  <2>1. TypeOK'
    BY <1>1, <1>2 DEF CriticalSection, TypeOK
  <2> QED
    BY <1>2, <2>1, ElsewhereIInv DEF CriticalSection
<1>3. ASSUME NEW e \in Event, NEW i \in BOOLEAN, NEW m \in BOOLEAN, NewEvent(e, i, m)
      PROVE  IInv'
  <2>1. TypeOK'
    BY <1>1, <1>3 DEF NewEvent, TypeOK
  <2> QED
    BY <1>3, <2>1, ElsewhereIInv DEF NewEvent
<1>4. ASSUME NEW e \in Event, ClientCloses(e) PROVE IInv'
  <2>1. TypeOK'
    BY <1>1, <1>4 DEF ClientCloses, TypeOK
  <2> QED
    BY <1>4, <2>1, ElsewhereIInv DEF ClientCloses
<1>5. ASSUME NEW x \in Object, Destroy(x) PROVE IInv'
  <2>1. TypeOK'
    BY <1>1, <1>5 DEF Destroy, TypeOK
  <2> QED
    BY <1>5, <2>1, ElsewhereIInv DEF Destroy
<1>6. ASSUME NEW t \in Thread, NEW x \in Object, BeginLock(t, x) PROVE IInv'
  <2>1. TypeOK'
    BY <1>1, <1>6 DEF BeginLock, TypeOK
  <2> QED
    BY <1>6, <2>1, ElsewhereIInv DEF BeginLock
<1>7. ASSUME NEW t \in Thread, NEW e \in Event, WaitEvent(t, e) PROVE IInv'
  <2>1. Locked({t}, e) /\ e \in Object
    BY <1>7 DEF WaitEvent, Object
  <2>2. TypeOK'
    BY <1>1, <1>7, <2>1, LockedType DEF WaitEvent, TypeOK
  <2> QED
    BY <1>7, <2>1, <2>2, EventLockedIInv DEF WaitEvent
<1>8. ASSUME NEW t \in Thread, NEW e \in Event, LockFails(t, e) PROVE IInv'
  <2>1. TypeOK'
    BY <1>1, <1>8 DEF LockFails, TypeOK
  <2> QED
    BY <1>8, <2>1, ElsewhereIInv DEF LockFails
<1>9. ASSUME NEW t \in Thread, NEW e \in Event, Set(t, e) \/ Reset(t, e) PROVE IInv'
  <2>1. TypeOK'
    BY <1>1, <1>9 DEF Set, Reset, TypeOK
  <2> QED
    BY <1>9, <2>1, ElsewhereIInv DEF Set, Reset
<1>10. ASSUME NEW t \in Thread, NEW e \in Event, Pulse(t, e) PROVE IInv'
  <2>1. PICK T \in SUBSET {u \in Thread : waiting[u] = e} : Locked(T, e)
    BY <1>10 DEF Pulse
  <2>2. T \in SUBSET Thread /\ e \in Object
    BY DEF Object
  <2>3. TypeOK'
    BY <1>1, <1>10, <2>1, <2>2, LockedType DEF Pulse, TypeOK
  <2> QED
    BY <1>10, <2>1, <2>2, <2>3, EventLockedIInv DEF Pulse
<1>11. ASSUME NEW t \in Thread, Terminate(t) PROVE IInv'
  <2>1. TypeOK'
    BY <1>1, <1>11 DEF Terminate, TypeOK
  <2> QED
    BY <1>11, <2>1, ElsewhereIInv DEF Terminate
<1>12. CASE UNCHANGED vars
  <2>1. TypeOK'
    BY <1>1, <1>12 DEF vars, TypeOK
  <2> QED
    BY <1>12, <2>1, ElsewhereIInv DEF vars
<1> QED
  BY <1>2, <1>3, <1>4, <1>5, <1>6, <1>7, <1>8, <1>9, <1>10, <1>11, <1>12,
     EnterSectionIInv, EndScopeIInv DEF Next

(* The inductive invariant holds in every reachable state. *)
THEOREM Invariance == Spec => []IInv
BY InitIInv, NextIInv, PTL DEF Spec

(* Every reachable state of SyncObjects is well typed. *)
THEOREM TypeCorrect == Spec => []TypeOK
<1>1. IInv => TypeOK
  BY DEF IInv
<1> QED
  BY <1>1, Invariance, PTL

(* However many threads nest SyncLocks on however many CriticalSections,   *)
(* each section has been entered by one thread as often as that thread has *)
(* SyncLocks on it (sync.h:47-58, 66-78).                                  *)
THEOREM LocksBalanced == Spec => []LocksMatchEntries
<1>1. IInv => LocksMatchEntries
  BY DEF IInv
<1> QED
  BY <1>1, Invariance, PTL
=============================================================================
