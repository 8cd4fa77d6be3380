# A formal model of RCPLib

RCPLib is a small C++20 library of utilities: threads that can be terminated,
a promise that survives the death of its worker, access to environment
variables, wrappers of Windows objects, string conversions and buffers. It has
neither tests nor documents; what it promises stands in a handful of comments,
in the shape of its interfaces (`std::thread`, `std::promise`, RAII) and in what
its callers would have to rely on. This directory holds TLA+ modules of the
parts in which something can go wrong between two steps, TLC configurations
that check them on small instances, and proofs for TLAPS that hold for every
instance.

Paths below are relative to the root of the repository.

## 1. Inventory

| Component | State | Operations | Speaks to |
|---|---|---|---|
| `rcp::Thread` (`include/threads/thread.h`, `src/threads/thread.cpp`) | `m_handle`, `m_id`; during construction a `Callable` on the heap and a `promise<void>` shared by `shared_ptr` | constructors, destructor, move, `swap`, `join`, `detach`, `terminate` | the system through `initialize`, `joinImpl`, `detachImpl`, `terminateImpl` |
| its Windows half (`src/threads/win/thread_win.cpp`, `src/win/win_common.cpp`) | none of its own; the kernel's table of handles | `CreateThread`, `WaitForSingleObject`, `TerminateThread`, `CloseHandleAndCheck` | kernel; throws `runtime_error` |
| its macOS half (`src/threads/mac/thread_mac.cpp`) | none; the pthread library's threads | `pthread_create`, `_join`, `_detach`, `_kill` | pthreads, results ignored |
| `rcp::PromiseEx` (`include/threads/promise_ex*.h`) | Windows: `m_event`, `m_exception`, `m_val`; else a `std::promise` | `set_value`, `set_exception`, `get( threadHandle )` | `Win::Event`, a thread's native handle |
| `rcp::SysEnv`, `rcp::EnvRAII` (`include/utils/sys_env.h`, `src/utils/**/sys_env*.cpp`) | the environment of the process; an `EnvRAII` its name and the previous value | `get`, `put`, `clear`, `exists`, `dump`; scope entry and exit | the system's environment; `NumTraits`, `Platform` conversions |
| `Win::SyncObject`, `SyncLock`, `CriticalSection`, `Event` (`include/win/sync.h`) | a handle, a `CRITICAL_SECTION` | lock and unlock by scope; `Set`, `Pulse`, `Reset` | kernel |
| `NumTraits` (`include/utils/num_traits.h`) | none | text to number | `std::sto*` |
| `Platform` (`src/platform/**`) | none | ANSI, wide, UTF-8 and console conversions | system converters |
| Buffers (`include/data/data_buffer.h`) | a vector, string, value or shared pointer | `data`, `size` | none |
| `FuncRAII`, `noncopyable`, `IVirtualDestroy` | a `function<void()>` | call it in the destructor | none |
| `ScopedTypeRef` (`src/platform/mac/scoped_*.h`, third party) | a CoreFoundation reference | retain, release | CoreFoundation |

How they interact: `PromiseEx::get` is given the native handle of a `Thread` and
trusts its owner to keep it open; the Windows `PromiseEx` is built on
`Win::Event`; `Thread` on Windows closes handles with `CloseHandleAndCheck`;
`EnvRAII` is `get` followed by `put`. The rest are leaves.

What is hard, and what makes each component correct:

* **Thread.** The new thread runs before its creator has stored its handle, its
  id, or given up the pointer to the Callable. Handles and ids are names that
  the system uses again. An exception leaves `join`, `detach` or `terminate`
  half way. `TerminateThread` and `ExitProcess` end threads anywhere, and then
  destructors run among the debris. Correct: one owner per thread; `m_handle`
  and `m_id` name the same, live, thread; nothing leaks; `join` waits; the
  Callable and the promise outlive their users and no longer.
* **PromiseEx.** Several getters, a worker that may vanish between storing the
  value and signalling it, both handles signalled at once. Correct: a value
  returned is the value set; a value published is not passed over; nobody waits
  for a worker that is gone.
* **SysEnv, EnvRAII.** Every `get` is two steps on memory nobody locks, every
  scope is two calls, and a value is cut at its first Nul. Correct: an undisturbed
  `get` is exact; a scope restores what was there.
* **Thread and PromiseEx together.** `get()` waits for a handle that `join`,
  `detach` and `terminate` close, and that the system gives to another thread.
  Correct: a wait that began in time ends with the worker's own end, although
  the handle's value and the worker's id may be another thread's by then;
  `get()` answers.
* **Synchronization objects.** Nested scopes, a constructor of `SyncLock` that
  throws, a thread killed inside a lock. Correct: a section is entered as often
  as there are scopes on it; a lock is granted unless its owner can no longer
  give it back.
* **NumTraits, Platform, dump.** Values at the limits of a type, buffers one
  short, a terminator counted twice or not at all, a listing that another thread
  or an exception cuts into. Correct: what is converted and converted back, put
  and got, stored and listed, is the same; the block of the listing is freed.

The headers `promise_ex_win.h` and `promise_ex_std.h` name `Utils::noncopyable`,
which the library calls `rcp::noncopyable`, and the first uses `fmt` without
including it; they cannot be compiled as they stand, and are modelled as they
are plainly meant. `src/platform/mac/utf8.cpp` likewise defines its functions in
a namespace nobody calls.

## 2. Modules

| Module | What it is |
|---|---|
| `Thread` | the shared part of `rcp::Thread`: state and every operation that makes no system call |
| `ThreadWin` | extends `Thread` with the Windows kernel and the four platform functions; properties, fairness, refinement |
| `ThreadMac` | the same for pthreads |
| `ThreadOwnership` | abstract: threads have at most one owner, and owned threads keep their id |
| `ThreadProofs` | what the shared part keeps true on every platform |
| `ThreadWinProofs`, `ThreadMacProofs` | theorems about `ThreadWin` and `ThreadMac` |
| `PromiseEx` | both builds of the promise |
| `OneShot` | abstract: one content, one claim, failures only for a reason |
| `PromiseExProofs` | theorems about `PromiseEx` |
| `Worker` | extends `ThreadWin` with the promise: fulfilled by the function of a Thread, awaited on the Thread's handle in the kernel's table |
| `WorkerProofs` | `Worker` implements `PromiseEx` |
| `SysEnv` | `get`, `put` and `EnvRAII` of strings, both builds |
| `Scopes` | abstract: scoped settings with atomic entry and exit |
| `SysEnvProofs` | theorems about `SysEnv` |
| `SyncObjects` | `CriticalSection`, `Event` and the scopes of `SyncLock` |
| `SyncObjectsProofs` | theorems about `SyncObjects` |
| `Conversions` | pure operators: the conversions of `PlatformBase` on Windows and macOS, numbers from text |
| `EnvDump` | the listing of the environment behind `dump`, with another thread writing; both builds |
| `TextsProofs` | theorems about `Conversions` and `EnvDump` |
| `MCThreadWin`, `MCWorker`, `MCThreadMac`, `MCSysEnv`, `MCTexts`, `MCSyncObjects` | small instances: model values, symmetry, inputs |

### Thread, ThreadWin, ThreadMac

A Thread object is a storage location `o \in Obj` with `life[o]` "raw", "ctor"
(under construction) or "alive" and members `m_handle[o]`, `m_id[o]`. Threads of
the system are `Slot`s, which are also the values of ids; `Main` is the first
thread. `at[a]` says where thread `a` is in the code:

    constructor   create -> release -> tieHandle -> tieId -> await -> idle
    new thread    entry -> signal -> apply -> idle (the user's function) -> leaving
    join          join -> waited -> idle             (the wait succeeded)
                  join -> recheck -> missing -> idle (it failed: second look)
    terminate     terminated -> idle

so each of these boundaries is a place where other threads run and where a
thread may be killed. `idle` in a created thread is the user's function, which
may itself construct, move, join and terminate Thread objects.

`ctor[o]` holds the locals of a constructor (the pair returned by `initialize`),
`callable[t]` the life of the heap object given to `t`, `promise[t]` who holds a
`shared_ptr` to `started` and whether its value is set, `args[t]` whether the
stored arguments are the callable's own or refer to the caller's objects.
`kernel` is the table of open handles on Windows, the joinable and detached
pthreads on macOS. `crash` is the reason of a deliberate crash
(`THREAD_FORCE_CRASH`, an exception out of the thread's function, SIGHUP); the
process has then ended and no action is enabled, which is why the configurations
turn the deadlock check off.

Windows: an id is not used again while a handle to its thread is open, a handle
value is used again at once after it is closed. `TerminateThread` and
`ExitProcess` may end a thread at any label; its Callable is then "leaked", as
the code lets it. A constructor cut short by a kill leaves its object in "ctor"
for good. The endings are modelled call by call: `WaitForThread`, `WaitFails` and
`Recheck` are the two looks of `waitForThread`, `Terminate` is
`TerminateThread`, and `CloseAndReset` is what `join` and `terminate` do after
them, `CloseHandleAndCheck` with the reset of the members, or its exception.
Between these steps every other thread runs, so that a client that closes the
handle makes an ending throw after the thread has ended, or close what the value
refers to by then. `detach`, which has one system call, is one step. A wait that
is under way is for what the handle's value refers to when it ends.

The locals of a constructor are found by the id it was given, so `Created` does
not give an id out again while that constructor has not returned. The handle that
the constructor holds sees to this, except with `EarlyUse` or `ClientCloses`, where
others may already have closed it: there it is a limit of the model.

macOS: `terminateImpl` calls `pthread_kill( m_handle, EXIT_FAILURE )`. The value
is 1, which is SIGHUP: unless it is handled (constant `HangupFatal`) it ends the
process, and where it is handled nothing ends the thread and `terminate()` waits
for it. The configuration uses the default, `TRUE`.

Assumed of callers: a Thread object is used by one thread at a time (it is not
synchronized, like `std::thread`); a callable leaves its own Thread object alone
until the constructor has returned, unless `EarlyUse`; nobody closes the result
of `native_handle()`, unless `ClientCloses`.

### PromiseEx

One worker, `Getter` calls of `get()`. In the Windows build `Set` and `Signal`
are the two statements of `set`, and a getter goes `checked` (past the look at
`m_exception`), `waiting`, `woken`, `done`. The worker may end at any moment,
also between `Set` and `Signal`; `handle` may be closed at any moment, and its
value given to another object (`ReuseHandle`). A getter that begins to wait
after that is `misled`: it waits for the event and for something that is not the
worker, and may be told of a termination that is not the worker's
(`Misreported`). One whose wait fails is `failed` until it has looked at the
handle a second time (`LookAgain`), and throws "thread terminated" or, where the
value belongs to a signalled object by then, the error of the wait.
`ExitProcess` kills the other getters. In the std build publication is atomic
and only the first `get_future()` succeeds. `Content` and `Result` of the
refinement: a value counts as given when the event is set, not when it is
stored.

### Worker

The main thread keeps the handle of the first Thread that it makes and calls
`get( handle )` whenever it likes, also after it has joined, detached or
terminated that Thread or made another, to which the system may have given the
value of the handle. The function of the Thread fulfils the promise or does not.
A step is one of `ThreadWin` or one inside `promise_ex_win.h`, during which the
thread is in "set_value" or "get" and does nothing else; it may be killed there.

What `PromiseEx` assumes, here comes from the kernel's table. `get()` knows the
value of the handle and nothing else: `BeginWait` waits for whatever thread the
table has there (`awaited`) or fails, `LookAgain` looks at the table once more.
`Observed` keeps a history of the worker (`over`, `lost`) by comparing the table
and the running threads with its id, which other threads may get as well.
`ImplementsPromiseEx` maps this history to `worker` and `handle` of `PromiseEx`
and so says that a wait ends with the worker's own end if it began before the
handle was lost, that the second look finds what `PromiseEx` allows, and that a
value is not given out again before it was closed, whatever becomes of the
Thread object.

### SyncObjects

`owner` and `depth` are the kernel's view of a section, `scopes[t]` the
SyncLocks on the stack of `t`, `waiting[t]` the object in whose `Lock()` it is.
`LockFails` is the constructor of SyncLock that throws on a closed handle;
`Terminate` ends a thread whose destructors then never run; `Pulse` may miss a
waiter. Objects are destroyed only when nobody uses them, and a thread opens its
scopes as a stack. `Uses` says which thread may lock what, and keeps the run small.

### SysEnv

A string is a sequence over `Char` and `Nul`. `FirstStep` is the call that asks
for the size (Windows) or the pointer (macOS), `CopyWin` and `CopyMac` the step
that copies the text. `stale[t]` is not in the code: it remembers that the
variable has been written since the call of `t` began. A disturbed call may
return, on Windows, the text padded with Nuls, nothing, or an undefined buffer
(the system's answer "too small" is taken for success at `sys_env_win.cpp:22`),
on macOS anything at all; these outcomes are in the model. A value that the system
refuses (`TooLong`) changes nothing, and the code does not look at the result.

A value that begins with a Nul is not `empty()` and leaves an empty variable,
which `get` and `exists` cannot tell from one that is not there.

Assumed: each variable is written by one thread (`Owner`); an empty value is
never refused; EnvRAII objects of a thread end last in, first out. Conversions
of wide strings and numbers are in a module of their own.

### Conversions, EnvDump

The functions of `Conversions` have no state; its variables only range over
inputs, and the invariants compare each function with a reference definition. A
character takes one to `Bytes[c]` bytes, `Converted` is the contract of the
Windows converters (the required size for no buffer, failure for one too small)
and `fnCall` the lambda of `Wide2AnsiiHelper`; a code page puts a substitute for
what it cannot hold, which the code does not look at. On macOS a text goes
through a CFString, which refuses bytes that are not whole characters. The last
group of operators is `PlatformBase` itself, for both targets.

Numbers are taken at small widths; `StrToUnsigned` negates modulo the width as
`strtoull` does, which is why `from<long long>` works for negative numbers at
all. `long long` and `unsigned long` do not refuse every number that is out of
range; the model says so and no property claims otherwise.

`EnvDump` is one call of `allW`: `Start` takes the block that
`GetEnvironmentStringsW` returns (or fails), `LoopWin` and `LoopMac` are a turn
of the loop, `Leave` is the way out, where `FuncRAII` frees the block, `Throw` an
exception from `push_back`. `OtherPut` writes the environment once at any time:
Windows walks a copy, on macOS the array may have moved under the loop
(`LoopStale`, undefined behaviour, of which the model takes a few outcomes). The
reference, `Meanings`, finds the pairs from what a text means. The sort of `dump`
is `std::sort` on names and is not modelled.

## 3. Runs

`tlc -workers 2 -config <cfg> <module>`.

| Run | Instance | Checks |
|---|---|---|
| `win` (`MCThreadWin.cfg`) | 2 objects, 2 threads and the main one, 2 handles; all three threads are clients; 203,873 states up to symmetry | the type invariant; `OwnershipExclusive`, `HandleMatchesId`, `NoHandleLeak` (ownership); `NoSelfWait`, `SelfJoinCrashIsReal` (the self-join check); `CallableAliveWhileUsed`, `CallableNotLeaked`, `PromiseAliveWhileUsed` (hand-over); `JoinWaits`; `ImplementsOwnership` |
| `win_close` (`MCThreadWinClose.cfg`) | the same with `ClientCloses`; 613,405 states | `GivenUpOnlyWhenClosed`: endings whose handle is closed by a client at any point, between their system calls too |
| `worker` (`MCWorker.cfg`) | 1 object, 2 threads, 1 handle value, main is the only client, 1 value; no symmetry; 92,062 states | `ConstructorReturns`, `EndingReturns`, `GetAnswers` (liveness); `ImplementsPromiseEx` |
| `mac` (`MCThreadMac.cfg`) | 2 objects, 2 threads and the main one, all clients; no symmetry; 219,668 states | `HeldIsJoinable`, `NoPthreadLeak`, `JoinWaits`, `ImplementsOwnership`, types; `JoinReturns` (liveness) |
| `promise` (`MCPromiseEx.cfg`) | 3 getters, 2 values, both builds; 15,133 states | `ValueWasSet`, `ValueNotLost`, `ImplementsOneShot`, `GetReturns`, types |
| `env` (`MCSysEnv.cfg`) | 2 threads, 2 variables both written by one of them, 5 texts (empty, two characters, one with a Nul inside, one that begins with a Nul, one too long), scopes nested 2 deep, both builds; 497,452 states up to symmetry | `GuardSavesCurrent`, `GetIsExact`, `ImplementsScopes`, types |
| `texts` (`MCTexts.cfg`) | texts of up to 4 out of characters of 1, 2 and 3 bytes and Nul, each code page lacking one character; `int` and `long` of 3 bits, `long long` of 4, every number to twice that; environments of up to 3 texts of up to 3 characters, both builds; 397,950 states | `NarrowingExact`, `ConversionsInverse`, `NumberRoundTrip`, `EveryVariableListed`, `BlockFreed` |
| `sync` (`MCSyncObjects.cfg`) | 3 threads, 2 sections, 1 event, scopes nested 2 deep; 25,056 states | `LocksMatchEntries`, `LockReturns` (liveness), types |

Bounds. Two objects make every move, swap and exclusive-ownership question
visible; a third thread is there as the main one, so a thread can be joined by
one and terminated by another; two handle values are enough for a value that is
closed and used again while an object still compares it. `Slot` and `Handle` are
pools that are used again without limit: no counter is bounded in the Thread
models. In `worker` one object and one handle value force the value to be used
again by the very next Thread; its constraint `OwnedArguments` drops only the
branch of `Construct` for arguments passed by reference, on which no step of the
two classes depends and about which no fairness is assumed. Three getters give
one that wins, one that loses and one that comes late. In `SysEnv` stored texts
of length 0, 1 and 2 make a buffer too small, right and too large; `MaxGuards`
bounds nesting and `TornLength` the text invented by undefined behaviour. In
`Conversions` one character of three bytes already overflows the doubled buffer
and one of one byte leaves it exactly full; `MaxLength` bounds them. In
`EnvDump` two texts are enough for a step from one to the next, `MaxItems` is 3,
and `MaxItemLength` 3 allows a name, '=' and a value or a second '='. In
`SyncObjects` three threads make a queue at one section, two threads and two
sections a circle; `MaxScopes` is 2, as an inner scope on the same section and
one on the other are all that nesting can do. Symmetry is used in safety runs
only.

Fairness. `FairSpec` of ThreadWin, which `worker` has for its threads: the
system runs every thread that is not blocked (weak fairness of `ThreadStep`),
functions given to a Thread return (`BodyReturns` is a `ThreadStep`), and a
thread inside a constructor or an ending goes on when it can (`BlockedStep`). No
client is obliged to begin an operation, and a kill may always intervene. Weak
fairness is enough: what a blocked thread waits for (a promise set, a thread
ended) does not become false again. `worker` adds that a thread inside
`set_value()` or `get()` goes on. In `ThreadMac` every thread may join others,
so a function is not always ready to return; that it returns if it is ready
again and again is strong fairness of `BodyReturns`. In `SyncObjects` Windows
gives a section that is freed again and again to each waiter in the end (strong
fairness of `EnterSection`: sections are handed out without a promise of order,
so this is an assumption about the system's scheduler), and a thread leaves each
scope in the end, also one inside which it opens and leaves others again and
again. In `PromiseEx`, a call of `get()` that has begun goes on and `Signal`
follows `Set`; the worker need never fulfil the promise, so `GetReturns` rests
on the wait for the thread's handle alone.

Each property of a passing run has a mutant of the modelled code, kept in the
modules under the comment "Mutant", that the property rejects.

### Disagreements found

Four runs state what a comment of the source says and end in a counterexample.

* `win_early_join`, `NoSelfWait`: `join()` compares ids "instead of infinite
  waiting" (`thread.cpp:50`). The constructor assigns `m_handle` before `m_id`
  when the new thread is already running (`thread.h:108`). A callable that joins
  its own Thread in between passes the check and waits for itself. Takes a
  callable with a reference to the object under construction.
* `win_lent`, `ArgumentsOutliveCall`: "interface is the same with std::thread"
  (`thread.h:13`), but the constructor with a `StartStrategy` stores lvalue
  arguments as references (`thread.h:80-81`), not copied. The constructor without
  one moves from them instead (`thread.h:117-118`).
* `win_missing`, `JoinToleratesMissingThread`: `waitForThread` goes out of its way
  to return normally for a thread that does not exist
  (`thread_win.cpp:34-41`), and `CloseHandleAndCheck` then throws on the same
  handle: as long as its value refers to nothing, `join()` does not return
  normally on that path. (If the value has been used again, `join()` returns and
  has closed somebody else's handle.)
* `promise_exception`, `ExceptionDelivered`: in the Windows build
  `set_exception` does not wake a `get()` that waits, which later reports
  "thread terminated" in place of the exception (`promise_ex_win.h:43-47`).

## 4. Proofs

Everything listed is checked by `tlapm` without omitted steps, for every value of
the constants that satisfies the named assumptions: `ThreadAssumption`,
`WinAssumption`, `MacAssumption`, `PromiseAssumption`, `SysEnvAssumption`,
`SyncAssumption`, `ConversionsAssumption`, `WidthAssumption` and
`EnvDumpAssumption`. TLC evaluates them in the runs. Where a theorem also assumes
something of the clients (`~ClientCloses`, `~EarlyUse`) or of the system
(`HangupFatal`), its statement says so.

**ThreadProofs.** What both platforms share is proved once. `SharedInv`, kept by
every shared action, is

* `SharedType`: the types, and a thread inside a constructor or a join is inside
  one of some object;
* `ThreadInv`: a thread runs exactly while it is somewhere in its code, has its
  Callable until it has deleted it itself, and sets a promise only while the
  Callable keeps that alive;
* `BuildInv`: a member and a constructor's local never both hold a handle, raw
  storage holds none, each constructor works on an object and a thread of its
  own, and what it has stored so far goes with how far it has come;
* `WaitInv`: a thread in `join` or `terminate` has a joinable object to itself,
  and a crash for a self-join leaves it standing on an object of its own.

None of the properties of the runs is inductive: a constructor passes its handle
on in two steps, between which it may be cut short, and a `join` compares an id in
one step and waits in another. `NoSelfJoin` (who joins has compared `m_id` to its
own id, and it has stayed the same) is carried beside the invariant, because
`terminate()` on macOS waits without the comparison. `CommonEffect` sums up what a
shared step does to the handles: nothing, one moves from a local to a member, or
members move among the objects.

**ThreadWinProofs.** `WinInv` adds that each open handle is the only one for its
thread, and holds whatever clients do. It gives, with no assumption about
clients, `TypeCorrect`, `NoCallableLeak`, `CallableOutlivesUse`,
`PromiseOutlivesUse`, the action property `HandlesGivenUpClosed` (an object
loses its handle only by passing it on or closing it, and a `join` or
`terminate` that throws has changed nothing), and, since no step takes an open
handle out of reach, `HandlesNotLeaked`. `OwnInv`, a handle that is held is
open, for the thread whose id it is kept with, and has one holder, needs
`~ClientCloses`: a client that closes a handle behind the class's back makes its
value free for a second object, and both then hold it. `EndedInv` adds to the
two that between a successful wait, or `TerminateThread`, and the closing of the
handle the thread behind it stays ended, and that nobody gets to
`waitForThread`'s second look; with it `JoinHasWaited`. From `WinInv` and
`OwnInv` follow `HandlesExclusive`, `HandleAndIdMatch`, `SelfJoinOnlyIfSelf` and
the refinement `ImplementsThreadOwnership`, in which the steps of `CommonEffect`
are those of the abstract specification; and, for `~EarlyUse` as well,
`NeverWaitsForItself`. The run `win_early_join` shows that the last condition is
needed.

**ThreadMacProofs.** `MacInv` is `SharedInv`, the agreement of the pthread
library's table with what runs (`PthreadInv`), that the handle is the id, and
`HeldIsJoinable`. It gives, with no assumption about clients, `TypeCorrect`,
`HeldJoinable`, `JoinHasWaited` and `ImplementsThreadOwnership`.
`PthreadsNotLeaked` needs `HangupFatal` and `~EarlyUse`: where SIGHUP is handled, a
thread may terminate() itself, joins itself in vain, and its object forgets a
thread that nobody can join any more. This is the rest of the misuse of
`pthread_kill` described above.

**WorkerProofs.** `WorkerInv` adds to the kernel's types (`KernelType`) what the
history says of it (`JobInv`: a worker that is not over runs, and a handle that is
not lost is for the worker), what a wait is for (`WaitingInv`: one that is not
misled is for the worker, which is over once the object of the wait is signalled)
and how the event, the value and the thread inside `set_value()` go together
(`MemoryInv`). A step of the threads is then taken apart into what it does to the
worker and to the handle (`ObservedStep`), the steps of `set_value()` and `get()`
are those of `PromiseEx` because of what `WaitingInv` and `MemoryInv` say of them
(`SetStep`, `GetStep`). `ImplementsPromise` holds for any clients, also with
`ClientCloses` and `EarlyUse`.

**PromiseExProofs.** `IInv` adds to the types how the event, the value and the
worker go together (`MemoryInv`), what each position of a getter implies
(`GetterInv`) and what an outcome implies (`OutcomeInv`). It gives the four
safety properties, among them `TerminatedOnlyIfEnded` ("thread terminated" is
true unless the handle was closed) and `OneTaker` (at most one `get()` returns
the value), which no run repeats, and `Refinement`:
`Spec => ImplementsOneShot`, one step per action.

**SysEnvProofs.** Lemmas about `CString` (found by the first Nul; a text without
Nul is itself), then `IInv`:
the size a call remembers is that of the text, unless it is stale; what a scope
saved is a text the environment can hold. A variable's owner is the only thread
that can make a call stale and it does not write while it is inside a scope's
constructor; this is where `Owner` is used. It gives `GuardsSaveCurrent`,
`UndisturbedGet` and `Refinement`: an EnvRAII constructor acts as
if it were atomic.

**SyncObjectsProofs.** Two lemmas count the SyncLocks on a stack as one is
added (`LocksAppend`) or taken off (`LocksFront`). `LocksMatchEntries` is
inductive together with the types and `FreeIsUnentered` (a section without an
owner has depth 0): `LeaveCriticalSection` frees the section exactly when the
last SyncLock on it goes. It gives `LocksBalanced`.

**TextsProofs.** `FlattenSeq`, on which `Encode`, `Decode` and the block of the
environment rest, is a recursive function. That there is one, and that it grows by
a concatenation with each text, is proved from the well-foundedness of the
naturals; what holds of texts of every length then follows from `AllTexts` (a set
that holds the empty text and, with a text, each one an element longer, holds all),
since the library's own induction theorems take an operator as a parameter.
`Spread` is what the three have in common: each element becomes a text, and these
are concatenated.

`NarrowingIsExact`, `ConversionsAreInverse` and `NumbersComeBack` hold of any
text and number that `InputsSpec` lets through, which bounds nothing but what
`MaxLength` and the widths bound, and these are arbitrary. The reason for the
first is that the code's second call gets the size that the first asked for; for
the second, that a character's first byte tells it from its others, so that
decoding goes element by element as encoding does. `WidthAssumption` states two
facts about powers of two, true of every width, that the provers do not know.

`VariablesListed` and `BlockIsFreed` rest on `DumpInv`: while the loop runs and
nothing has moved under it, the environment as it was at the call is some texts
`done` followed by others, `current` stands behind those of `done` in the block or
the array, and the pairs listed are those that `done` splits into. One turn of the
loop moves one text over (`ItemIs`: behind the last one, and only there, the loop
finds an empty text). `Meanings`, the reference, is then the list for all of
them. `MCTexts` interleaves `InputsSpec` and `DumpSpec`, which share no variable.

Every safety property of every passing run, refinements included, is stated by
one of these theorems. Model-checked only is liveness, which is out of the
prover's reach: `ConstructorReturns`, `EndingReturns` and `GetAnswers` of
`worker`, `JoinReturns` of `mac`, `GetReturns` of `promise`, `LockReturns` of
`sync`. `WorkerSpec` and the other fair specifications of these runs imply the
specifications the theorems are about.

## 5. Not modelled, and what the models leave out

* Granularity: a thread is killed, and others run, only at the labels above. A
  kill between `CloseHandle` and the reset of the members, one machine
  instruction apart, is not covered; nor are torn reads of `m_exception` or of
  Thread objects used by two threads at once.
* A wait on Windows that has begun is, in `ThreadWin`, for what the handle's value
  refers to when it ends. This makes a difference only where a client closes the
  handle during the wait, which Windows leaves undefined. `Worker` and
  `PromiseEx` keep a wait to the thread it began with.
* With `EarlyUse` or `ClientCloses`, an id is not used again while the constructor
  that was given it has not returned (see section 2); it is a limit of the runs
  `win_close`, `win_early_join` and `win_missing`.
* Error texts, `hardware_concurrency`, `toThreadID`, the `WAIT_TIMEOUT` and
  `WAIT_ABANDONED` branches, which the source itself calls impossible for the
  objects it waits for, and failures to allocate memory outside `allW`.
* Cyclic joins of different threads deadlock, as with `std::thread`: clients
  decide it.
* The sort and the text of `dump`. A second thread that writes the same variable.
* Named events and security attributes: the library passes neither.
  `CRITICAL_SECTION`s of more than one process do not exist.
* Invalid text, apart from text cut inside a character on macOS; line ends; views
  that are not followed by a Nul (`Wide2AnsiiHelper` passes -1 for the length);
  `throwOfFail`, since no conversion of the model fails.
* Buffers and the two base classes: no control flow and no state that changes.
  `ScopedTypeRef` is third party code. Build files and compiler macros have no
  behaviour.

## 6. Plan

Modelled first what the library exists for, threads that can be killed and a
promise that notices, then the environment, then the pure functions.

Done: Thread, ThreadWin, ThreadMac, ThreadOwnership; PromiseEx, OneShot; Worker;
SysEnv, Scopes; SyncObjects; Conversions, EnvDump; the proofs above.

Every safety property that a run checks is proved. What is left:

1. The proofs that are longest for what they say (the shared steps of
   `ThreadProofs`, the operators of `TextsProofs`) shortened where a lemma about
   the operator would serve several leaves.
2. Safety facts on which the liveness properties rest and which can be proved:
   what a blocked thread waits for, once there, stays (a promise that is set, a
   thread that has ended); whoever waits in a constructor, a `get()` or a lock waits
   for something that a step of another thread still brings.
