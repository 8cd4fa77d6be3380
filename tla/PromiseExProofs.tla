-------------------------- MODULE PromiseExProofs ---------------------------
(***************************************************************************)
(* Theorems about PromiseEx, for any number of get() calls, any set of     *)
(* values and both builds.  All of them rest on one inductive invariant.   *)
(***************************************************************************)
EXTENDS PromiseEx, TLAPS

(* What the worker has published.  An exception and a value exclude each   *)
(* other; in the Windows build the event and a taker imply a stored value. *)
MemoryInv ==
  /\ m_exception => m_val = Zero
  /\ build = "win" /\ (ready \/ taker # None \/ worker = "storing")
       => m_val # Zero
  /\ build = "std" => (ready <=> m_val # Zero \/ m_exception)
  /\ build = "win" /\ taker # None => ~ready /\ worker # "storing"
  /\ worker = "storing" => build = "win" /\ ~ready

(* Where each get() is, and what that says of the event's only taker. *)
GetterInv ==
  \A g \in Getter :
    /\ at[g] # "done" => outcome[g] = "none"
    /\ at[g] \in {"checked", "misled", "failed", "woken"} => build = "win"
    /\ at[g] = "woken" => taker = g
    /\ at[g] \in {"idle", "checked", "misled", "failed"} => taker # g
    /\ at[g] \in {"misled", "failed"} => handle # "open"
    /\ at[g] = "waiting" => (taker = g <=> build = "std")

(* What the outcomes say. *)
OutcomeInv ==
  \A g \in Getter :
    /\ outcome[g] # Zero
    /\ outcome[g] \in Value => taker = g
    /\ outcome[g] = "terminated" =>
         build = "win" /\ (worker = "ended" \/ handle # "open")
    /\ outcome[g] = "terminated" /\ handle = "open" => ~ready

IInv == TypeOK /\ MemoryInv /\ GetterInv /\ OutcomeInv

(* The invariant holds at the start. *)
LEMMA InitIInv == Init => IInv
  BY PromiseAssumption
     DEF Init, IInv, TypeOK, MemoryInv, GetterInv, OutcomeInv, Outcome

(* Every step keeps it. *)
LEMMA NextIInv == IInv /\ [Next]_vars => IInv'
<1> SUFFICES ASSUME IInv, [Next]_vars PROVE IInv'
  OBVIOUS
<1> USE PromiseAssumption
        DEF IInv, TypeOK, MemoryInv, GetterInv, OutcomeInv, Outcome,
            memory, getters, Finish, Goto, Unfulfilled
<1>1. ASSUME NEW v \in Value, Set(v) PROVE IInv'
  BY <1>1 DEF Set
<1>2. CASE Signal
  BY <1>2 DEF Signal
<1>3. CASE SetException
  BY <1>3 DEF SetException
<1>4. CASE WorkerEnds
  BY <1>4 DEF WorkerEnds
<1>5. CASE CloseHandle
  BY <1>5 DEF CloseHandle
<1>6. ASSUME NEW g \in Getter \cup {None}, ExitProcess(g) PROVE IInv'
  BY <1>6 DEF ExitProcess
<1>7. ASSUME NEW g \in Getter, CheckException(g) PROVE IInv'
  BY <1>7 DEF CheckException
<1>8. ASSUME NEW g \in Getter, BeginWait(g) PROVE IInv'
  <2>1. CASE handle = "open"
    BY <1>8, <2>1 DEF BeginWait
  <2>2. CASE handle = "closed"
    BY <1>8, <2>2 DEF BeginWait
  <2>3. CASE handle = "reused"
    BY <1>8, <2>3 DEF BeginWait
  <2>4. QED
    BY <2>1, <2>2, <2>3
<1>9. ASSUME NEW g \in Getter, Woken(g) PROVE IInv'
  BY <1>9 DEF Woken
<1>10. ASSUME NEW g \in Getter, Terminated(g) PROVE IInv'
  BY <1>10 DEF Terminated
<1>11. ASSUME NEW g \in Getter, ReadValue(g) PROVE IInv'
  BY <1>11 DEF ReadValue
<1>12. ASSUME NEW g \in Getter, GetFuture(g) PROVE IInv'
  BY <1>12 DEF GetFuture
<1>13. ASSUME NEW g \in Getter, FutureReady(g) PROVE IInv'
  BY <1>13 DEF FutureReady
<1>14. CASE ReuseHandle
  BY <1>14 DEF ReuseHandle
<1>15. ASSUME NEW g \in Getter, Misreported(g) PROVE IInv'
  BY <1>15 DEF Misreported
<1>16. ASSUME NEW g \in Getter, LookAgain(g) PROVE IInv'
  BY <1>16 DEF LookAgain
<1>17. CASE UNCHANGED vars
  BY <1>17 DEF vars
<1>18. QED
  BY <1>1, <1>2, <1>3, <1>4, <1>5, <1>6, <1>7, <1>8, <1>9, <1>10, <1>11,
     <1>12, <1>13, <1>14, <1>15, <1>16, <1>17 DEF Next, GetStep

(* The inductive invariant holds throughout. *)
THEOREM Invariance == Spec => []IInv
<1>1. Init => IInv
  BY InitIInv
<1>2. IInv /\ [Next]_vars => IInv'
  BY NextIInv
<1>3. QED
  BY <1>1, <1>2, PTL DEF Spec

(* Every variable keeps its type. *)
THEOREM TypeCorrect == Spec => []TypeOK
<1>1. IInv => TypeOK
  BY DEF IInv
<1>2. QED
  BY <1>1, Invariance, PTL

(* No get() returns the m_val that was there before set_value(). *)
THEOREM ReturnedValueWasSet == Spec => []ValueWasSet
<1>1. IInv => ValueWasSet
  BY DEF IInv, OutcomeInv, ValueWasSet
<1>2. QED
  BY <1>1, Invariance, PTL

(* While the handle is open no get() throws "thread terminated" and leaves *)
(* a published value behind.                                               *)
THEOREM PublishedValueNotLost == Spec => []ValueNotLost
<1>1. IInv => ValueNotLost
  BY DEF IInv, OutcomeInv, ValueNotLost
<1>2. QED
  BY <1>1, Invariance, PTL

(* "thread terminated" means that the thread has ended or was given up. *)
THEOREM TerminatedOnlyIfEnded == Spec => []TerminatedIsTrue
<1>1. IInv => TerminatedIsTrue
  BY DEF IInv, OutcomeInv, TerminatedIsTrue
<1>2. QED
  BY <1>1, Invariance, PTL

(* The value is handed out at most once. *)
THEOREM OneTaker == Spec => []ValueTakenOnce
<1>1. IInv => ValueTakenOnce
  BY DEF IInv, OutcomeInv, ValueTakenOnce
<1>2. QED
  BY <1>1, Invariance, PTL

-----------------------------------------------------------------------------
(* The refinement.                                                         *)

(* The initial states of PromiseEx are initial states of the contract. *)
LEMMA InitRefines == Init => Contract!Init
  BY PromiseAssumption DEF Init, Contract!Init, Content, Result

(* Every step of PromiseEx is a step or a stutter of the contract. *)
LEMMA NextRefines == IInv /\ [Next]_vars => [Contract!Next]_(Contract!vars)
<1> SUFFICES ASSUME IInv, [Next]_vars
             PROVE  [Contract!Next]_(Contract!vars)
  OBVIOUS
<1> USE PromiseAssumption
        DEF IInv, TypeOK, MemoryInv, GetterInv, OutcomeInv, Outcome,
            memory, getters, Content, Result, Contract!vars
<1>1. ASSUME NEW v \in Value, Set(v) PROVE [Contract!Next]_(Contract!vars)
  <2>1. CASE build = "win"
    BY <1>1, <2>1 DEF Set, Unfulfilled
  <2>2. CASE build = "std"
    <3>1. Contract!Fulfil(v)
      BY <1>1, <2>2 DEF Set, Unfulfilled, Contract!Fulfil
    <3>2. QED
      BY <3>1 DEF Contract!Next
  <2>3. QED
    BY <2>1, <2>2
<1>2. CASE Signal
  <2>1. Contract!Fulfil(m_val)
    BY <1>2 DEF Signal, Contract!Fulfil
  <2>2. m_val \in Value
    BY <1>2 DEF Signal
  <2>3. QED
    BY <2>1, <2>2 DEF Contract!Next
<1>3. CASE SetException
  <2>1. Contract!Fulfil("exception")
    BY <1>3 DEF SetException, Unfulfilled, Contract!Fulfil
  <2>2. QED
    BY <2>1 DEF Contract!Next
<1>4. CASE WorkerEnds
  <2>1. CASE handle = "open"
    <3>1. Contract!Leave("ended")
      BY <1>4, <2>1 DEF WorkerEnds, Contract!Leave
    <3>2. QED
      BY <3>1 DEF Contract!Next
  <2>2. CASE handle # "open"
    BY <1>4, <2>2 DEF WorkerEnds
  <2>3. QED
    BY <2>1, <2>2
<1>5. CASE CloseHandle
  <2>1. Contract!Leave("lost")
    BY <1>5 DEF CloseHandle, Contract!Leave
  <2>2. QED
    BY <2>1 DEF Contract!Next
<1>6. ASSUME NEW g \in Getter \cup {None}, ExitProcess(g)
      PROVE  [Contract!Next]_(Contract!vars)
  <2>1. CASE handle = "open" /\ worker # "ended"
    <3>1. Contract!Leave("ended")
      BY <1>6, <2>1 DEF ExitProcess, Contract!Leave
    <3>2. QED
      BY <3>1 DEF Contract!Next
  <2>2. CASE handle # "open" \/ worker = "ended"
    BY <1>6, <2>2 DEF ExitProcess
  <2>3. QED
    BY <2>1, <2>2
<1>7. ASSUME NEW g \in Getter, CheckException(g)
      PROVE  [Contract!Next]_(Contract!vars)
  <2>1. CASE m_exception
    <3>1. Contract!Return(g)
      BY <1>7, <2>1 DEF CheckException, Finish, Contract!Return
    <3>2. QED
      BY <3>1 DEF Contract!Next
  <2>2. CASE ~m_exception
    BY <1>7, <2>2 DEF CheckException, Goto
  <2>3. QED
    BY <2>1, <2>2
<1>8. ASSUME NEW g \in Getter, BeginWait(g)
      PROVE  [Contract!Next]_(Contract!vars)
  <2>1. CASE handle = "open"
    BY <1>8, <2>1 DEF BeginWait, Goto
  <2>2. CASE handle = "closed"
    BY <1>8, <2>2 DEF BeginWait, Goto
  <2>3. CASE handle = "reused"
    BY <1>8, <2>3 DEF BeginWait, Goto
  <2>4. QED
    BY <2>1, <2>2, <2>3
<1>9. ASSUME NEW g \in Getter, Woken(g)
      PROVE  [Contract!Next]_(Contract!vars)
  <2>1. Contract!Claim(g)
    BY <1>9 DEF Woken, Goto, Contract!Claim
  <2>2. QED
    BY <2>1 DEF Contract!Next
<1>10. ASSUME NEW g \in Getter, Terminated(g)
       PROVE  [Contract!Next]_(Contract!vars)
  <2>1. Contract!Fail(g)
    BY <1>10 DEF Terminated, Finish, Contract!Fail
  <2>2. QED
    BY <2>1 DEF Contract!Next
<1>11. ASSUME NEW g \in Getter, ReadValue(g)
       PROVE  [Contract!Next]_(Contract!vars)
  <2>1. Contract!Return(g)
    BY <1>11 DEF ReadValue, Finish, Contract!Return
  <2>2. QED
    BY <2>1 DEF Contract!Next
<1>12. ASSUME NEW g \in Getter, GetFuture(g)
       PROVE  [Contract!Next]_(Contract!vars)
  <2>1. CASE taker = None
    <3>1. Contract!Claim(g)
      BY <1>12, <2>1 DEF GetFuture, Goto, Contract!Claim
    <3>2. QED
      BY <3>1 DEF Contract!Next
  <2>2. CASE taker # None
    <3>1. Contract!Fail(g)
      BY <1>12, <2>2 DEF GetFuture, Finish, Contract!Fail
    <3>2. QED
      BY <3>1 DEF Contract!Next
  <2>3. QED
    BY <2>1, <2>2
<1>13. ASSUME NEW g \in Getter, FutureReady(g)
       PROVE  [Contract!Next]_(Contract!vars)
  <2>1. Contract!Return(g)
    BY <1>13 DEF FutureReady, Finish, Contract!Return
  <2>2. QED
    BY <2>1 DEF Contract!Next
<1>14. CASE ReuseHandle
  BY <1>14 DEF ReuseHandle
<1>15. ASSUME NEW g \in Getter, Misreported(g)
       PROVE  [Contract!Next]_(Contract!vars)
  <2>1. Contract!Fail(g)
    BY <1>15 DEF Misreported, Finish, Contract!Fail
  <2>2. QED
    BY <2>1 DEF Contract!Next
<1>16. ASSUME NEW g \in Getter, LookAgain(g)
      PROVE  [Contract!Next]_(Contract!vars)
  <2>1. Contract!Fail(g)
    BY <1>16 DEF LookAgain, Finish, Contract!Fail
  <2>2. QED
    BY <2>1 DEF Contract!Next
<1>17. CASE UNCHANGED vars
  BY <1>17 DEF vars
<1>18. QED
  BY <1>1, <1>2, <1>3, <1>4, <1>5, <1>6, <1>7, <1>8, <1>9, <1>10, <1>11,
     <1>12, <1>13, <1>14, <1>15, <1>16, <1>17 DEF Next, GetStep

(* PromiseEx implements the contract OneShot, for every instance. *)
THEOREM Refinement == Spec => ImplementsOneShot
<1>1. Init => Contract!Init
  BY InitRefines
<1>2. IInv /\ [Next]_vars => [Contract!Next]_(Contract!vars)
  BY NextRefines
<1>3. QED
  BY <1>1, <1>2, Invariance, PTL DEF Spec, Contract!Spec, ImplementsOneShot
=============================================================================
