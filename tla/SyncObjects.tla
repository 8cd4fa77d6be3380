---------------------------- MODULE SyncObjects -----------------------------
(***************************************************************************)
(* rcp::Win::SyncObject and its heirs, include/win/sync.h: CriticalSection *)
(* and Event, and the scopes of SyncLock that threads open on them.  The   *)
(* kernel is external: a critical section that its owner may enter again,  *)
(* and an event behind a handle that others may close.                     *)
(***************************************************************************)
EXTENDS Naturals, FiniteSets, SequencesExt

CONSTANTS
  Thread,    \* the threads that use the objects
  Section,   \* CriticalSection objects
  Event,     \* Event objects
  None,      \* no thread, no object
  Uses,      \* the pairs <<t, x>> where t opens SyncLocks on x
  MaxScopes  \* bound: SyncLocks a thread has on its stack

Object == Section \cup Event

ASSUME SyncAssumption ==
  /\ None \notin Thread \cup Object
  /\ Section \cap Event = {}
  /\ Uses \subseteq Thread \X Object
  /\ MaxScopes \in Nat

VARIABLES
  life,     \* [Object]  "raw" storage or "alive"
  owner,    \* [Section] the thread inside, or None
  depth,    \* [Section] how many times it has entered
  manual,   \* [Event]   manualReset
  signal,   \* [Event]   is it set?
  open,     \* [Event]   is m_handle open?
  dead,     \* the threads that were terminated
  waiting,  \* [Thread]  the object whose Lock() it is inside, or None
  scopes    \* [Thread]  the objects of the SyncLocks on its stack

sectionVars == <<owner, depth>>
eventVars   == <<manual, signal, open>>
threadVars  == <<dead, waiting, scopes>>
vars == <<life, owner, depth, manual, signal, open, dead, waiting, scopes>>

Init ==
  /\ life = [x \in Object |-> "raw"]
  /\ owner = [s \in Section |-> None]
  /\ depth = [s \in Section |-> 0]
  /\ manual = [e \in Event |-> FALSE]
  /\ signal = [e \in Event |-> FALSE]
  /\ open = [e \in Event |-> FALSE]
  /\ dead = {}
  /\ waiting = [t \in Thread |-> None]
  /\ scopes = [t \in Thread |-> <<>>]

Runs(t)  == t \notin dead /\ waiting[t] = None
InUse(x) == \E t \in Thread : waiting[t] = x \/ x \in Range(scopes[t])

-----------------------------------------------------------------------------
(* Construction and destruction.  A constructor that fails throws and      *)
(* leaves nothing behind.  Nobody destroys an object in use, nor one that  *)
(* a terminated thread has left locked.                                    *)

CriticalSection(s) ==
  /\ life[s] = "raw"
  /\ life' = [life EXCEPT ![s] = "alive"]
  /\ UNCHANGED <<sectionVars, eventVars, threadVars>>

NewEvent(e, initiallyOwn, manualReset) ==
  /\ life[e] = "raw"
  /\ life' = [life EXCEPT ![e] = "alive"]
  /\ manual' = [manual EXCEPT ![e] = manualReset]
  /\ signal' = [signal EXCEPT ![e] = initiallyOwn]
  /\ open' = [open EXCEPT ![e] = TRUE]
  /\ UNCHANGED <<sectionVars, threadVars>>

(* ~CriticalSection(), and ~SyncObject() with its ::CloseHandle. *)
Destroy(x) ==
  /\ life[x] = "alive"
  /\ ~InUse(x)
  /\ life' = [life EXCEPT ![x] = "raw"]
  /\ open' = [e \in Event |-> open[e] /\ e # x]
  /\ signal' = [e \in Event |-> signal[e] /\ e # x]
  /\ manual' = [e \in Event |-> manual[e] /\ e # x]
  /\ UNCHANGED <<sectionVars, threadVars>>

(* A client closes what ObjHandle() gave it. *)
ClientCloses(e) ==
  /\ open[e]
  /\ open' = [open EXCEPT ![e] = FALSE]
  /\ UNCHANGED <<life, sectionVars, manual, signal, threadVars>>

-----------------------------------------------------------------------------
(* SyncLock. *)

(* SyncLock( obj ): the thread is inside obj.Lock( INFINITE ). *)
BeginLock(t, x) ==
  /\ Runs(t) /\ <<t, x>> \in Uses
  /\ life[x] = "alive"
  /\ Len(scopes[t]) < MaxScopes
  /\ waiting' = [waiting EXCEPT ![t] = x]
  /\ UNCHANGED <<life, sectionVars, eventVars, dead, scopes>>

(* Lock() has returned true: the SyncLock is constructed. *)
Locked(T, x) ==
  /\ waiting' = [t \in Thread |-> IF t \in T THEN None ELSE waiting[t]]
  /\ scopes' = [t \in Thread |-> IF t \in T THEN Append(scopes[t], x) ELSE scopes[t]]

(* Mutant: ::TryEnterCriticalSection, with its result not looked at. *)
TryEnterSection(t, s) ==
  /\ waiting[t] = s
  /\ owner' = [owner EXCEPT ![s] = IF @ = None THEN t ELSE @]
  /\ depth' = [depth EXCEPT ![s] = IF owner[s] \in {None, t} THEN @ + 1 ELSE @]
  /\ Locked({t}, s)
  /\ UNCHANGED <<life, eventVars, dead>>

(* CriticalSection::Lock: ::EnterCriticalSection returns. *)
EnterSection(t, s) ==
  /\ waiting[t] = s
  /\ owner[s] \in {None, t}
  /\ owner' = [owner EXCEPT ![s] = t]
  /\ depth' = [depth EXCEPT ![s] = @ + 1]
  /\ Locked({t}, s)
  /\ UNCHANGED <<life, eventVars, dead>>

(* SyncObject::Lock for an event that is set: WAIT_OBJECT_0. *)
WaitEvent(t, e) ==
  /\ waiting[t] = e
  /\ open[e]
  /\ signal[e]
  /\ signal' = [signal EXCEPT ![e] = manual[e]]
  /\ Locked({t}, e)
  /\ UNCHANGED <<life, sectionVars, manual, open, dead>>

(* The handle was closed: WAIT_FAILED.  Lock() returns false, the          *)
(* constructor of SyncLock throws and its destructor will not run.         *)
LockFails(t, e) ==
  /\ waiting[t] = e
  /\ ~open[e]
  /\ waiting' = [waiting EXCEPT ![t] = None]
  /\ UNCHANGED <<life, sectionVars, eventVars, dead, scopes>>

(* Mutant: the call that should leave the section for good is missing. *)
UnlockKeepsOwner(t, x) ==
  IF x \in Section
    THEN /\ depth' = [depth EXCEPT ![x] = @ - 1]
         /\ UNCHANGED owner
    ELSE UNCHANGED sectionVars

(* ~SyncLock(): Unlock() leaves a section and does nothing for an event. *)
Unlock(t, x) ==
  IF x \in Section
    THEN /\ depth' = [depth EXCEPT ![x] = @ - 1]
         /\ owner' = [owner EXCEPT ![x] = IF depth[x] = 1 THEN None ELSE @]
    ELSE UNCHANGED sectionVars

EndScope(t) ==
  /\ Runs(t)
  /\ scopes[t] # <<>>
  /\ Unlock(t, Last(scopes[t]))
  /\ scopes' = [scopes EXCEPT ![t] = Front(@)]
  /\ UNCHANGED <<life, eventVars, dead, waiting>>

-----------------------------------------------------------------------------
(* Event::Set, Reset and Pulse; they return false on a closed handle. *)

Set(t, e) ==
  /\ Runs(t) /\ open[e]
  /\ signal' = [signal EXCEPT ![e] = TRUE]
  /\ UNCHANGED <<life, sectionVars, manual, open, threadVars>>

Reset(t, e) ==
  /\ Runs(t) /\ open[e]
  /\ signal' = [signal EXCEPT ![e] = FALSE]
  /\ UNCHANGED <<life, sectionVars, manual, open, threadVars>>

(* ::PulseEvent releases the threads that wait at this moment, one if the  *)
(* event resets itself; the system may miss some of them.                  *)
Pulse(t, e) ==
  /\ Runs(t) /\ open[e]
  /\ \E T \in SUBSET {u \in Thread : waiting[u] = e} :
       /\ manual[e] \/ Cardinality(T) <= 1
       /\ Locked(T, e)
  /\ signal' = [signal EXCEPT ![e] = FALSE]
  /\ UNCHANGED <<life, sectionVars, manual, open, dead>>

(* ::TerminateThread: the destructors of t's SyncLocks never run. *)
Terminate(t) ==
  /\ t \notin dead
  /\ dead' = dead \cup {t}
  /\ waiting' = [waiting EXCEPT ![t] = None]
  /\ UNCHANGED <<life, sectionVars, eventVars, scopes>>

Next ==
  \/ \E s \in Section : CriticalSection(s)
  \/ \E e \in Event : \/ \E initiallyOwn, manualReset \in BOOLEAN :
                            NewEvent(e, initiallyOwn, manualReset)
                      \/ ClientCloses(e)
  \/ \E x \in Object : Destroy(x)
  \/ \E t \in Thread, x \in Object : BeginLock(t, x)
  \/ \E t \in Thread, s \in Section : EnterSection(t, s)
  \/ \E t \in Thread, e \in Event : \/ WaitEvent(t, e)
                                   \/ LockFails(t, e)
                                   \/ Set(t, e)
                                   \/ Reset(t, e)
                                   \/ Pulse(t, e)
  \/ \E t \in Thread : EndScope(t) \/ Terminate(t)

Spec == Init /\ [][Next]_vars

(* Fairness: Windows is fair to the threads that wait for a section, and a *)
(* thread that can leave a scope does not stay in it for ever, whatever    *)
(* scopes it opens and leaves inside it.                                   *)
FairSpec ==
  /\ Spec
  /\ \A t \in Thread :
       /\ SF_vars(\E s \in Section : EnterSection(t, s))
       /\ WF_vars(EndScope(t))
       /\ \A n \in 1..(MaxScopes - 1) : SF_vars(Len(scopes[t]) = n /\ EndScope(t))

-----------------------------------------------------------------------------
(* Every variable holds a value of its type. *)
TypeOK ==
  /\ life \in [Object -> {"raw", "alive"}]
  /\ owner \in [Section -> Thread \cup {None}]
  /\ depth \in [Section -> Nat]
  /\ manual \in [Event -> BOOLEAN]
  /\ signal \in [Event -> BOOLEAN]
  /\ open \in [Event -> BOOLEAN]
  /\ dead \subseteq Thread
  /\ waiting \in [Thread -> Object \cup {None}]
  /\ scopes \in [Thread -> Seq(Object)]

(* How many SyncLocks on s are on the stack q. *)
Locks(q, s) == Cardinality({i \in DOMAIN q : q[i] = s})

(* A section has been entered exactly as often as there are SyncLocks on   *)
(* it, all of one thread: they exclude each other, may nest, and give back *)
(* what they took and no more, whatever else throws or is killed           *)
(* (sync.h:48-82).                                                         *)
LocksMatchEntries ==
  \A s \in Section, t \in Thread :
    Locks(scopes[t], s) = IF owner[s] = t THEN depth[s] ELSE 0

(* t waits for a section and for ever unless something else happens first: *)
(* from t the owners lead to a terminated thread, to one that waits for an *)
(* event, or round in a circle.                                            *)
Stuck(t) ==
  \E S \in SUBSET Thread :
    /\ t \in S
    /\ \A u \in S : \/ u \in dead \/ waiting[u] \in Event
                     \/ /\ waiting[u] \in Section
                        /\ owner[waiting[u]] \in S \ {u}

(* SyncLock on a CriticalSection returns, whatever competes for it, unless *)
(* its owner was terminated inside, or is itself kept waiting so.          *)
LockReturns ==
  \A t \in Thread :
    waiting[t] \in Section ~> waiting[t] \notin Section \/ Stuck(t)
=============================================================================
