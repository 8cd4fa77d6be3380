------------------------------- MODULE SysEnv -------------------------------
(***************************************************************************)
(* rcp::SysEnv and rcp::EnvRAII: include/utils/sys_env.h,                  *)
(* src/utils/sys_env.cpp and the two files of src/utils/{win,mac}.  The    *)
(* environment belongs to the process and nothing in the code protects it. *)
(* get() takes two system calls (Windows: one for the size, one for the    *)
(* text) or a call and a copy (macOS: getenv returns a pointer into the    *)
(* environment); an EnvRAII reads in one step and writes in another.       *)
(*                                                                         *)
(* A string is a sequence of characters that may hold Nul, as std::string  *)
(* may; what the system stores ends before the first Nul.  Wide strings    *)
(* follow the same steps.  The environment itself is external.             *)
(***************************************************************************)
EXTENDS Naturals, Sequences

CONSTANTS
  Thread,    \* the threads of the process
  Var,       \* names of environment variables
  Char,      \* characters other than Nul
  Nul,       \* the terminator
  Absent,    \* the variable does not exist
  Arg,       \* the strings that put() and EnvRAII are given
  DefVal,    \* those that get() is given for a default
  TooLong,   \* the texts that the system refuses to store
  Owner,     \* [Var -> Thread] the one thread that writes the variable
  Builds,    \* the builds to consider, a subset of {"win", "mac"}
  MaxGuards, \* bound on the EnvRAII objects a thread has at a time
  TornLength \* bound on the text copied from a pointer that has gone stale

String == Seq(Char \cup {Nul})

ASSUME SysEnvAssumption ==
  /\ Nul \notin Char
  /\ Absent \notin String
  /\ DefVal \subseteq Arg /\ Arg \subseteq String
  /\ <<>> \notin TooLong
  /\ Var # {}
  /\ Owner \in [Var -> Thread]
  /\ Builds \subseteq {"win", "mac"}
  /\ MaxGuards \in Nat
  /\ TornLength \in Nat

VARIABLES
  build,   \* which source file was compiled, never changes
  env,     \* [Var]    the text of the variable, or Absent
  guards,  \* [Thread] the EnvRAII objects on its stack: m_name, m_prevValue
  at,      \* [Thread] "idle", "copy" (inside a get(), between its two
           \*          steps), "put" (inside an EnvRAII constructor)
  call,    \* [Thread] the call in progress or the last one
  stale    \* [Thread] has the variable been written since the call's first
           \*          step?  (no variable of the code)

vars == <<build, env, guards, at, call, stale>>

(* How c_str() is read: up to the first Nul. *)
CString(s) ==
  LET n == CHOOSE n \in 0..Len(s) :
             /\ \A i \in 1..n : s[i] # Nul
             /\ n = Len(s) \/ s[n + 1] = Nul
  IN SubSeq(s, 1, n)

(* What the program takes a variable's value to be. *)
Visible(x) == IF env[x] = Absent THEN <<>> ELSE env[x]

(* What a variable that exists can hold. *)
Stored == ({<<>>} \cup {CString(v) : v \in Arg}) \ TooLong

NewCall(op, x, v) ==
  [op |-> op, name |-> x, val |-> v, size |-> 0, result |-> <<>>]

-----------------------------------------------------------------------------
(* SysEnvProc::put: an empty value deletes the variable.  One that only    *)
(* starts with a Nul is not empty() and leaves the variable there, empty.  *)

(* Mutant: the value is stored with the Nuls it holds. *)
StoresWhole(v) == IF v = <<>> THEN Absent ELSE v

(* unsetenv or setenv; SetEnvironmentVariable with nullptr or the value.   *)
Stores(v) == IF v = <<>> THEN Absent ELSE CString(v)

(* A call that the system refuses changes nothing, and nobody is told. *)
SysPut(x, v) ==
  IF CString(v) \in TooLong
    THEN UNCHANGED <<env, stale>>
    ELSE /\ env' = [env EXCEPT ![x] = Stores(v)]
         /\ stale' = [t \in Thread |->
                        stale[t] \/ (at[t] = "copy" /\ call[t].name = x)]

(* SysEnv::put and clear. *)
Put(t, x, v) ==
  /\ at[t] = "idle"
  /\ Owner[x] = t
  /\ SysPut(x, v)
  /\ UNCHANGED <<build, guards, at, call>>

-----------------------------------------------------------------------------
(* SysEnv::get<std::string>, which exists() and EnvRAII use too, both with *)
(* an empty default value.                                                 *)

(* The value of a call that found s: get() has a default for an empty one. *)
Result(c, s) == IF c.op = "get" /\ s = <<>> THEN c.val ELSE s

(* The call has its result: get() returns it, EnvRAII() keeps it. *)
Return(t, s) ==
  /\ call' = [call EXCEPT ![t].result = Result(call[t], s)]
  /\ at' = [at EXCEPT ![t] = IF call[t].op = "guard" THEN "put" ELSE "idle"]

(* Mutant: the second call is given a buffer without room for the Nul. *)
FirstStepNoNul(t, c) ==
  /\ at[t] = "idle"
  /\ env[c.name] # Absent
  /\ stale' = [stale EXCEPT ![t] = FALSE]
  /\ call' = [call EXCEPT ![t] = [c EXCEPT !.size = Len(env[c.name])]]
  /\ at' = [at EXCEPT ![t] = "copy"]
  /\ UNCHANGED <<build, env, guards>>

(* The first step of c: the size of the text with its Nul, or a pointer.   *)
(* No second step if there is no variable.                                 *)
FirstStep(t, c) ==
  /\ at[t] = "idle"
  /\ stale' = [stale EXCEPT ![t] = FALSE]
  /\ IF env[c.name] = Absent
       THEN /\ call' = [call EXCEPT ![t] = [c EXCEPT !.result = Result(c, <<>>)]]
            /\ at' = [at EXCEPT ![t] = IF c.op = "guard" THEN "put" ELSE "idle"]
       ELSE /\ call' = [call EXCEPT ![t] =
                          [c EXCEPT !.size = Len(env[c.name]) + 1]]
            /\ at' = [at EXCEPT ![t] = "copy"]
  /\ UNCHANGED <<build, env, guards>>

Get(t, x, defVal) == FirstStep(t, NewCall("get", x, defVal))

(* EnvRAII::EnvRAII begins with get(). *)
GuardBegin(t, x, v) ==
  /\ Owner[x] = t
  /\ Len(guards[t]) < MaxGuards
  /\ FirstStep(t, NewCall("guard", x, v))

(* The text followed by Nuls, as retVal.resize() left them. *)
Padded(s, n) == [i \in 1..n |-> IF i <= Len(s) THEN s[i] ELSE Nul]

(* Mutant: resize( newSize ). *)
CopiedOneMore(size, x) ==
  IF env[x] = Absent \/ env[x] = <<>> THEN {<<>>}
  ELSE IF Len(env[x]) < size THEN {Padded(env[x], size)}
  ELSE [1..size -> Char \cup {Nul}]

(* The second GetEnvironmentVariable: nothing if there is no text (any     *)
(* more); a text that has grown too long for the buffer leaves anything in *)
(* it, and the required size that the system returns is taken for success. *)
Copied(size, x) ==
  IF env[x] = Absent \/ env[x] = <<>> THEN {<<>>}
  ELSE IF Len(env[x]) < size THEN {Padded(env[x], size - 1)}
  ELSE [1..(size - 1) -> Char \cup {Nul}]

CopyWin(t) ==
  /\ build = "win"
  /\ at[t] = "copy"
  /\ \E s \in Copied(call[t].size, call[t].name) : Return(t, s)
  /\ UNCHANGED <<build, env, guards, stale>>

(* The copy from getenv's pointer.  If setenv or unsetenv has run since,   *)
(* the behaviour is undefined: any text may come out.                      *)
CopyMac(t) ==
  /\ build = "mac"
  /\ at[t] = "copy"
  /\ IF stale[t] THEN \E n \in 0..TornLength : \E s \in [1..n -> Char] : Return(t, s)
                 ELSE Return(t, Visible(call[t].name))
  /\ UNCHANGED <<build, env, guards, stale>>

-----------------------------------------------------------------------------
(* EnvRAII.                                                                *)

(* Mutant: m_prevValue is read after the put(). *)
GuardPutFirst(t) ==
  LET c == call[t] IN
  /\ at[t] = "put"
  /\ guards' = [guards EXCEPT ![t] =
                  Append(@, [name |-> c.name, prev |-> CString(c.val)])]
  /\ at' = [at EXCEPT ![t] = "idle"]
  /\ SysPut(c.name, c.val)
  /\ UNCHANGED <<build, call>>

(* The rest of the constructor: put(). *)
GuardPut(t) ==
  LET c == call[t] IN
  /\ at[t] = "put"
  /\ guards' = [guards EXCEPT ![t] =
                  Append(@, [name |-> c.name, prev |-> c.result])]
  /\ at' = [at EXCEPT ![t] = "idle"]
  /\ SysPut(c.name, c.val)
  /\ UNCHANGED <<build, call>>

(* ~EnvRAII of the object constructed last. *)
GuardEnd(t) ==
  LET guard == guards[t][Len(guards[t])] IN
  /\ at[t] = "idle"
  /\ guards[t] # <<>>
  /\ guards' = [guards EXCEPT ![t] = SubSeq(@, 1, Len(@) - 1)]
  /\ SysPut(guard.name, guard.prev)
  /\ UNCHANGED <<build, at, call>>

Init ==
  /\ build \in Builds
  /\ env \in [Var -> Stored \cup {Absent}]
  /\ guards = [t \in Thread |-> <<>>]
  /\ at = [t \in Thread |-> "idle"]
  /\ call = [t \in Thread |-> NewCall("get", CHOOSE x \in Var : TRUE, <<>>)]
  /\ stale = [t \in Thread |-> FALSE]

Next ==
  \E t \in Thread :
    \/ CopyWin(t) \/ CopyMac(t) \/ GuardPut(t) \/ GuardEnd(t)
    \/ \E x \in Var, defVal \in DefVal : Get(t, x, defVal)
    \/ \E x \in Var, v \in Arg : Put(t, x, v) \/ GuardBegin(t, x, v)

Spec == Init /\ [][Next]_vars

-----------------------------------------------------------------------------
Guard == [name : Var, prev : String]

Call == [op : {"get", "guard"}, name : Var, val : Arg \cup {<<>>},
         size : Nat, result : String]

(* Every variable holds a value of its type. *)
TypeOK ==
  /\ build \in Builds
  /\ env \in [Var -> Stored \cup {Absent}]
  /\ \A t \in Thread : guards[t] \in Seq(Guard)
  /\ at \in [Thread -> {"idle", "copy", "put"}]
  /\ call \in [Thread -> Call]
  /\ stale \in [Thread -> BOOLEAN]

(* What an EnvRAII has read is still the variable's value when it writes   *)
(* it: the constructor is not atomic (sys_env.cpp:34-39), but with one     *)
(* writing thread per variable nothing comes between, and the two-step     *)
(* get() returned exactly the text, without the Nuls of its buffer.        *)
GuardSavesCurrent ==
  \A t \in Thread : at[t] = "put" => call[t].result = Visible(call[t].name)

(* get() in any thread, and the one inside EnvRAII, yields exactly the     *)
(* variable's value, or the default for one that is empty or not there,    *)
(* unless the variable was written during the call (sys_env_win.cpp:11-27, *)
(* sys_env_mac.cpp:13-17, sys_env.h:91-102).                               *)
GetIsExact ==
  [][\A t \in Thread :
       /\ at'[t] # "copy" /\ (at[t] = "copy" \/ call'[t] # call[t])
       /\ at[t] = "copy" => ~stale[t]
       => call'[t].result = Result(call'[t], Visible(call'[t].name))]_vars

(* Refinement: an EnvRAII sets a variable and brings back its value as if  *)
(* its constructor were atomic, however scopes nest and whatever the other *)
(* threads read and write.                                                 *)
Scope == INSTANCE Scopes
           WITH Text <- Stored, value <- [x \in Var |-> Visible(x)],
                scopes <- guards

(* SysEnv implements Scopes. *)
ImplementsScopes == Scope!Spec
=============================================================================
