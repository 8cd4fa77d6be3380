---------------------------- MODULE SysEnvProofs ----------------------------
(***************************************************************************)
(* Theorems about SysEnv, for any number of threads, variables and nested  *)
(* EnvRAII objects, any strings and both builds, where each variable has   *)
(* one writing thread (the constant Owner).                                *)
(***************************************************************************)
EXTENDS SysEnv, SequenceTheorems, WellFoundedInduction, TLAPS

(* A string without Nul, for which c_str() is the whole string. *)
Clean(s) == s \in String /\ \A i \in 1..Len(s) : s[i] # Nul

(* The text before the first Nul exists. *)
LEMMA FirstNul ==
  ASSUME NEW s \in String
  PROVE  \E n \in 0..Len(s) : /\ \A i \in 1..n : s[i] # Nul
                              /\ n = Len(s) \/ s[n + 1] = Nul
<1> DEFINE Stop == {n \in 0..Len(s) : n = Len(s) \/ s[n + 1] = Nul}
<1>1. Len(s) \in Stop
  BY DEF String
<1>2. PICK n \in Stop : \A m \in Stop : ~(<<m, n>> \in OpToRel(<, Nat))
  <2>1. Stop \subseteq Nat /\ Stop # {}
    BY <1>1 DEF String
  <2>2. IsWellFoundedOn(OpToRel(<, Nat), Nat)
    BY NatLessThanWellFounded
  <2>3. QED
    BY <2>1, <2>2, WFMin
<1>3. \A m \in Stop : ~(m < n)
  <2>1. \A m \in Stop : m \in Nat /\ n \in Nat
    BY DEF String
  <2> HIDE DEF Stop
  <2>2. \A m \in Stop : <<m, n>> \in Nat \X Nat
    BY <2>1
  <2>3. QED
    BY <1>2, <2>2, Zenon DEF OpToRel
<1>4. ASSUME NEW i \in 1..n PROVE s[i] # Nul
  <2>1. i - 1 \notin Stop
    BY <1>3 DEF String
  <2>2. i - 1 \in 0..Len(s) /\ (i - 1) + 1 = i
    BY DEF String
  <2>3. QED
    BY <2>1, <2>2
<1>5. QED
  BY <1>4

(* c_str() holds no Nul, ... *)
LEMMA CStringClean ==
  ASSUME NEW s \in String
  PROVE  Clean(CString(s))
<1> DEFINE n == CHOOSE n \in 0..Len(s) :
                  /\ \A i \in 1..n : s[i] # Nul
                  /\ n = Len(s) \/ s[n + 1] = Nul
<1>1. /\ n \in 0..Len(s)
      /\ \A i \in 1..n : s[i] # Nul
      /\ n = Len(s) \/ s[n + 1] = Nul
  BY FirstNul
<1>2. CString(s) = SubSeq(s, 1, n)
  BY DEF CString
<1> HIDE DEF n
<1>3. /\ SubSeq(s, 1, n) \in String
      /\ Len(SubSeq(s, 1, n)) = n
      /\ \A i \in 1..n : SubSeq(s, 1, n)[i] = s[i]
  BY <1>1 DEF String
<1>4. QED
  BY <1>1, <1>2, <1>3 DEF Clean

(* ... and is all of a string that holds none. *)
LEMMA CStringOfClean ==
  ASSUME NEW s, Clean(s)
  PROVE  CString(s) = s
<1> DEFINE n == CHOOSE n \in 0..Len(s) :
                  /\ \A i \in 1..n : s[i] # Nul
                  /\ n = Len(s) \/ s[n + 1] = Nul
<1>1. /\ n \in 0..Len(s)
      /\ n = Len(s) \/ s[n + 1] = Nul
  BY FirstNul DEF Clean
<1>2. CString(s) = SubSeq(s, 1, n)
  BY DEF CString
<1> HIDE DEF n
<1>3. n = Len(s)
  BY <1>1 DEF Clean, String
<1>4. SubSeq(s, 1, Len(s)) = s
  BY DEF Clean, String
<1>5. QED
  BY <1>2, <1>3, <1>4

(* What put() stores, given an argument or what a get() has returned. *)
LEMMA StoredText ==
  /\ <<>> \in Stored /\ Absent \notin Stored
  /\ \A s \in Stored : Clean(s) /\ CString(s) = s
  /\ \A v \in Arg \cup Stored :
       CString(v) \in TooLong \/ CString(v) \in Stored
<1>1. Clean(<<>>) /\ <<>> \in Stored
  BY SysEnvAssumption DEF Clean, String, Stored
<1>2. \A v \in Arg : v \in String
  BY SysEnvAssumption
<1>3. \A s \in Stored : Clean(s)
  BY <1>1, <1>2, CStringClean DEF Stored
<1>4. \A s \in Stored : CString(s) = s
  BY <1>3, CStringOfClean
<1>5. \A v \in Arg : CString(v) \in TooLong \/ CString(v) \in Stored
  BY DEF Stored
<1>6. Absent \notin Stored
  BY <1>3, SysEnvAssumption DEF Clean
<1>7. QED
  BY <1>1, <1>3, <1>4, <1>5, <1>6

-----------------------------------------------------------------------------
(* The inductive invariant.                                                *)

(* A get() that nobody has disturbed knows the size of the text.  Only the *)
(* variable's owner constructs an EnvRAII, so its get() is not disturbed.  *)
CallInv ==
  \A t \in Thread :
    /\ at[t] = "copy" => call[t].size # 0
    /\ at[t] = "copy" /\ ~stale[t] =>
         /\ env[call[t].name] # Absent
         /\ call[t].size = Len(env[call[t].name]) + 1
    /\ at[t] # "idle" /\ call[t].op = "guard" =>
         Owner[call[t].name] = t /\ ~stale[t]
    /\ at[t] = "put" => call[t].op = "guard"

(* EnvRAII objects hold what the environment has held. *)
GuardInv ==
  \A t \in Thread : \A i \in 1..Len(guards[t]) :
    /\ guards[t][i].prev \in Stored
    /\ Owner[guards[t][i].name] = t

IInv == TypeOK /\ CallInv /\ GuardInv /\ GuardSavesCurrent

(* The invariant holds at the start. *)
LEMMA InitIInv == Init => IInv
<1> SUFFICES ASSUME Init PROVE IInv
  OBVIOUS
<1>1. (CHOOSE x \in Var : TRUE) \in Var
  BY SysEnvAssumption
<1>2. <<>> \in String
  BY DEF String
<1>3. NewCall("get", CHOOSE x \in Var : TRUE, <<>>) \in Call
  BY <1>1, <1>2 DEF NewCall, Call
<1>4. \A t \in Thread : guards[t] = <<>>
  BY DEF Init
<1>5. \A t \in Thread : guards[t] \in Seq(Guard)
  BY <1>4, EmptySeq
<1>6. TypeOK
  BY <1>3, <1>5 DEF Init, TypeOK
<1>7. QED
  BY <1>4, <1>6 DEF Init, IInv, CallInv, GuardInv, GuardSavesCurrent

(* What a variable holds after put(): what c_str() of the argument is, or  *)
(* what it held if the system refuses that.                                *)
After(x, v) == IF CString(v) \in TooLong THEN Visible(x) ELSE CString(v)

(* put() changes one variable at most, and those that are reading it go    *)
(* stale.                                                                  *)
LEMMA SysPutEffect ==
  ASSUME TypeOK, NEW x \in Var, NEW v \in Arg \cup Stored, SysPut(x, v)
  PROVE  /\ env' \in [Var -> Stored \cup {Absent}]
         /\ stale' \in [Thread -> BOOLEAN]
         /\ \A y \in Var : y # x => env'[y] = env[y]
         /\ [y \in Var |-> Visible(y)]'
              = [[y \in Var |-> Visible(y)] EXCEPT ![x] = After(x, v)]
         /\ After(x, v) \in Stored
         /\ \A t \in Thread :
              /\ stale[t] => stale'[t]
              /\ stale'[t] => stale[t] \/ (at[t] = "copy" /\ call[t].name = x)
              /\ at[t] = "copy" /\ call[t].name = x => stale'[t] \/ env' = env
<1>1. /\ env \in [Var -> Stored \cup {Absent}]
      /\ stale \in [Thread -> BOOLEAN]
  BY DEF TypeOK
<1>2. CASE CString(v) \in TooLong
  <2>1. UNCHANGED <<env, stale>>
    BY <1>2 DEF SysPut
  <2>2. After(x, v) = Visible(x) /\ Visible(x) \in Stored
    BY <1>1, <1>2, StoredText DEF After, Visible
  <2>3. [y \in Var |-> Visible(y)]' = [y \in Var |-> Visible(y)]
    BY <2>1 DEF Visible
  <2>4. QED
    BY <1>1, <2>1, <2>2, <2>3
<1>3. CASE CString(v) \notin TooLong
  <2>1. After(x, v) = CString(v) /\ CString(v) \in Stored
    BY <1>3, StoredText DEF After
  <2>2. CString(<<>>) = <<>> /\ <<>> # Absent /\ Absent \notin Stored
    BY StoredText
  <2>3. /\ env' = [env EXCEPT ![x] = IF v = <<>> THEN Absent ELSE CString(v)]
        /\ stale' = [t \in Thread |->
                       stale[t] \/ (at[t] = "copy" /\ call[t].name = x)]
    BY <1>3 DEF SysPut, Stores
  <2>4. /\ env'[x] = IF v = <<>> THEN Absent ELSE CString(v)
        /\ env'[x] \in Stored \cup {Absent}
        /\ \A y \in Var : y # x => env'[y] = env[y]
        /\ env' \in [Var -> Stored \cup {Absent}]
    BY <1>1, <2>1, <2>3
  <2>5. Visible(x)' = CString(v)
    <3>1. CASE v = <<>>
      BY <2>2, <2>4, <3>1 DEF Visible
    <3>2. CASE v # <<>>
      BY <2>1, <2>2, <2>4, <3>2 DEF Visible
    <3>3. QED
      BY <3>1, <3>2
  <2>6. \A y \in Var : y # x => Visible(y)' = Visible(y)
    BY <2>4 DEF Visible
  <2>7. [y \in Var |-> Visible(y)]'
          = [[y \in Var |-> Visible(y)] EXCEPT ![x] = After(x, v)]
    BY <2>1, <2>5, <2>6
  <2>8. QED
    BY <1>1, <2>1, <2>3, <2>4, <2>7
<1>4. QED
  BY <1>2, <1>3

(* A step that leaves the environment and the EnvRAII objects alone. *)
LEMMA QuietIInv ==
  ASSUME IInv, UNCHANGED <<build, env, guards>>,
         at' \in [Thread -> {"idle", "copy", "put"}],
         call' \in [Thread -> Call], stale' \in [Thread -> BOOLEAN],
         CallInv', GuardSavesCurrent'
  PROVE  IInv'
  BY DEF IInv, TypeOK, GuardInv

(* A write by the only thread that writes the variable.  That thread is    *)
(* not inside a get(), and those that are reading the variable go stale.   *)
LEMMA WriteIInv ==
  ASSUME IInv, NEW t \in Thread, NEW x \in Var, NEW v \in Arg \cup Stored,
         Owner[x] = t, at[t] # "copy", SysPut(x, v),
         at' = [at EXCEPT ![t] = "idle"], UNCHANGED <<build, call>>,
         \A u \in Thread : guards'[u] \in Seq(Guard), GuardInv'
  PROVE  IInv'
<1>1. /\ env' \in [Var -> Stored \cup {Absent}]
      /\ stale' \in [Thread -> BOOLEAN]
      /\ \A y \in Var : y # x => env'[y] = env[y]
      /\ \A u \in Thread :
           /\ stale[u] => stale'[u]
           /\ stale'[u] => stale[u] \/ (at[u] = "copy" /\ call[u].name = x)
           /\ at[u] = "copy" /\ call[u].name = x => stale'[u] \/ env' = env
  BY SysPutEffect DEF IInv
<1>2. /\ at \in [Thread -> {"idle", "copy", "put"}]
      /\ \A u \in Thread : call[u].name \in Var
  BY DEF IInv, TypeOK, Call
<1>3. TypeOK'
  BY <1>1, <1>2 DEF IInv, TypeOK
<1>4. \A u \in Thread : u # t /\ at[u] # "idle" /\ call[u].op = "guard"
        => call[u].name # x
  BY DEF IInv, CallInv
<1>5. CallInv'
  BY <1>1, <1>2, <1>4 DEF IInv, CallInv
<1>6. GuardSavesCurrent'
  BY <1>1, <1>2, <1>4 DEF IInv, CallInv, GuardSavesCurrent, Visible
<1>7. QED
  BY <1>3, <1>5, <1>6 DEF IInv

(* The first step of a get(). *)
LEMMA FirstStepIInv ==
  ASSUME IInv, NEW t \in Thread, NEW op \in {"get", "guard"}, NEW x \in Var,
         NEW v \in Arg \cup {<<>>}, op = "guard" => Owner[x] = t,
         FirstStep(t, NewCall(op, x, v))
  PROVE  IInv'
<1> DEFINE c == NewCall(op, x, v)
<1>1. /\ <<>> \in String
      /\ v \in String
      /\ Stored \subseteq String
      /\ env[x] # Absent => Len(env[x]) + 1 \in Nat
  BY StoredText, SysEnvAssumption DEF IInv, TypeOK, Clean, String
<1>2. /\ c.op = op /\ c.name = x /\ c.result = <<>> /\ c \in Call
      /\ c.val = v
      /\ \A s \in String : /\ [c EXCEPT !.result = s] \in Call
                           /\ [c EXCEPT !.result = s].op = op
                           /\ [c EXCEPT !.result = s].name = x
                           /\ [c EXCEPT !.result = s].result = s
      /\ \A n \in Nat : /\ [c EXCEPT !.size = n] \in Call
                        /\ [c EXCEPT !.size = n].op = op
                        /\ [c EXCEPT !.size = n].name = x
                        /\ [c EXCEPT !.size = n].size = n
  BY <1>1 DEF NewCall, Call
<1> HIDE DEF c
<1>3. FirstStep(t, c)
  BY DEF c
<1>4. /\ at \in [Thread -> {"idle", "copy", "put"}]
      /\ call \in [Thread -> Call]
      /\ stale \in [Thread -> BOOLEAN]
  BY DEF IInv, TypeOK
<1>5. CASE env[x] = Absent
  <2> DEFINE s == Result(c, <<>>)
             d == [c EXCEPT !.result = s]
  <2>0. /\ s \in String
        /\ op = "guard" => s = <<>>
    BY <1>1, <1>2 DEF Result
  <2>1. /\ call' = [call EXCEPT ![t] = d]
        /\ at' = [at EXCEPT ![t] = IF op = "guard" THEN "put" ELSE "idle"]
        /\ stale' = [stale EXCEPT ![t] = FALSE]
        /\ UNCHANGED <<build, env, guards>>
    BY <1>2, <1>3, <1>5 DEF FirstStep
  <2> HIDE DEF s
  <2>2. d \in Call /\ d.op = op /\ d.name = x /\ d.result = s
    BY <1>2, <2>0
  <2> HIDE DEF d
  <2>3. CallInv'
    BY <1>4, <2>1, <2>2 DEF IInv, CallInv
  <2>4. GuardSavesCurrent'
    BY <1>4, <1>5, <2>0, <2>1, <2>2 DEF IInv, GuardSavesCurrent, Visible
  <2>5. QED
    BY <1>4, <2>1, <2>2, <2>3, <2>4, QuietIInv
<1>6. CASE env[x] # Absent
  <2>1. /\ call' = [call EXCEPT ![t] = [c EXCEPT !.size = Len(env[x]) + 1]]
        /\ at' = [at EXCEPT ![t] = "copy"]
        /\ stale' = [stale EXCEPT ![t] = FALSE]
        /\ UNCHANGED <<build, env, guards>>
    BY <1>2, <1>3, <1>6 DEF FirstStep
  <2>2. CallInv'
    BY <1>1, <1>2, <1>4, <1>6, <2>1 DEF IInv, CallInv
  <2>3. GuardSavesCurrent'
    BY <1>4, <2>1 DEF IInv, GuardSavesCurrent, Visible
  <2>4. QED
    BY <1>1, <1>2, <1>4, <1>6, <2>1, <2>2, <2>3, QuietIInv
<1>7. QED
  BY <1>5, <1>6

(* A buffer of the right size holds the text and nothing else. *)
LEMMA PaddedText ==
  /\ \A s \in String : Padded(s, Len(s)) = s
  /\ \A s \in String, n \in Nat : Padded(s, n) \in String
<1>1. ASSUME NEW s \in String PROVE Padded(s, Len(s)) = s
  BY DEF Padded, String
<1>2. ASSUME NEW s \in String, NEW n \in Nat PROVE Padded(s, n) \in String
  <2>1. Padded(s, n) \in [1..n -> Char \cup {Nul}]
    BY DEF Padded, String
  <2>2. QED
    BY <2>1 DEF String
<1>3. QED
  BY <1>1, <1>2

(* The last step of a get(), which returns the variable's value unless the *)
(* variable has been written meanwhile.                                    *)
LEMMA ReturnIInv ==
  ASSUME IInv, NEW t \in Thread, at[t] = "copy", NEW s \in String,
         ~stale[t] => s = Visible(call[t].name),
         Return(t, s), UNCHANGED <<build, env, guards, stale>>
  PROVE  IInv'
<1>1. /\ at \in [Thread -> {"idle", "copy", "put"}]
      /\ call \in [Thread -> Call]
      /\ stale \in [Thread -> BOOLEAN]
  BY DEF IInv, TypeOK
<1> DEFINE c == [call[t] EXCEPT !.result = Result(call[t], s)]
<1>2. /\ c \in Call
      /\ c.op = call[t].op /\ c.name = call[t].name
      /\ c.op = "guard" => c.result = s
  <2>1. /\ Result(call[t], s) \in String
        /\ call[t].op = "guard" => Result(call[t], s) = s
    BY <1>1, StoredText, SysEnvAssumption DEF Call, Result, Clean
  <2>2. QED
    BY <1>1, <2>1 DEF Call
<1>3. /\ call' = [call EXCEPT ![t] = c]
      /\ at' = [at EXCEPT ![t] = IF call[t].op = "guard" THEN "put" ELSE "idle"]
  BY DEF Return
<1> HIDE DEF c
<1>4. CallInv'
  BY <1>1, <1>2, <1>3 DEF IInv, CallInv
<1>5. GuardSavesCurrent'
  BY <1>1, <1>2, <1>3 DEF IInv, CallInv, GuardSavesCurrent, Visible
<1>6. QED
  BY <1>1, <1>2, <1>3, <1>4, <1>5, QuietIInv

(* What the second system call or the copy yields. *)
LEMMA CopyExact ==
  ASSUME IInv, NEW t \in Thread, at[t] = "copy"
  PROVE  /\ \A s \in Copied(call[t].size, call[t].name) :
              s \in String /\ (~stale[t] => s = Visible(call[t].name))
         /\ ~stale[t] => Visible(call[t].name) \in String
<1> DEFINE x == call[t].name
           n == call[t].size
<1>1. /\ x \in Var /\ n \in Nat \ {0}
      /\ env[x] \in Stored \cup {Absent}
      /\ ~stale[t] => env[x] # Absent /\ n = Len(env[x]) + 1
  BY DEF IInv, TypeOK, CallInv, Call
<1>2. env[x] # Absent => env[x] \in String
  BY <1>1, StoredText DEF Clean
<1>3. <<>> \in String
  BY DEF String
<1>4. ASSUME NEW s \in Copied(n, x)
      PROVE  s \in String /\ (~stale[t] => s = Visible(x))
  <2>1. CASE env[x] = Absent \/ env[x] = <<>>
    BY <1>1, <1>3, <1>4, <2>1 DEF Copied, Visible
  <2>2. CASE env[x] # Absent /\ env[x] # <<>> /\ Len(env[x]) < n
    <3>1. s = Padded(env[x], n - 1) /\ n - 1 \in Nat
      BY <1>1, <1>4, <2>2 DEF Copied
    <3>2. s \in String
      BY <1>2, <2>2, <3>1, PaddedText
    <3>3. ~stale[t] => n - 1 = Len(env[x])
      BY <1>1, <1>2, <2>2 DEF String
    <3>4. QED
      BY <1>2, <2>2, <3>1, <3>2, <3>3, PaddedText DEF Visible
  <2>3. CASE env[x] # Absent /\ env[x] # <<>> /\ ~(Len(env[x]) < n)
    <3>1. s \in [1..(n - 1) -> Char \cup {Nul}] /\ n - 1 \in Nat
      BY <1>1, <1>4, <2>3 DEF Copied
    <3>2. stale[t]
      BY <1>1, <1>2, <2>3 DEF String, IInv, TypeOK
    <3>3. QED
      BY <3>1, <3>2 DEF String
  <2>4. QED
    BY <2>1, <2>2, <2>3
<1>5. ~stale[t] => Visible(x) \in String
  BY <1>1, <1>2 DEF Visible
<1>6. QED
  BY <1>4, <1>5

(* The end of an EnvRAII constructor. *)
LEMMA GuardPutIInv ==
  ASSUME IInv, NEW t \in Thread, GuardPut(t)
  PROVE  IInv'
<1> DEFINE x == call[t].name
           v == call[t].val
           g == [name |-> x, prev |-> call[t].result]
<1>1. /\ x \in Var /\ v \in Arg \cup Stored /\ Owner[x] = t
      /\ g \in Guard /\ g.name = x /\ g.prev = Visible(x)
  BY StoredText
     DEF GuardPut, IInv, TypeOK, CallInv, GuardSavesCurrent, Call, Guard
<1>2. Visible(x) \in Stored
  BY <1>1, StoredText DEF IInv, TypeOK, Visible
<1>3. /\ SysPut(x, v) /\ at[t] # "copy"
      /\ at' = [at EXCEPT ![t] = "idle"]
      /\ UNCHANGED <<build, call>>
      /\ guards' = [guards EXCEPT ![t] = Append(guards[t], g)]
  BY DEF GuardPut
<1> HIDE DEF x, v, g
<1>4. \A u \in Thread : guards[u] \in Seq(Guard)
  BY DEF IInv, TypeOK
<1>5. \A u \in Thread : guards'[u] \in Seq(Guard)
  BY <1>1, <1>3, <1>4
<1>6. GuardInv'
  BY <1>1, <1>2, <1>3, <1>4 DEF IInv, GuardInv
<1>7. QED
  BY <1>1, <1>3, <1>5, <1>6, WriteIInv

(* The destructor of an EnvRAII. *)
LEMMA GuardEndIInv ==
  ASSUME IInv, NEW t \in Thread, GuardEnd(t)
  PROVE  IInv'
<1> DEFINE n == Len(guards[t])
           g == guards[t][n]
<1>1. \A u \in Thread : guards[u] \in Seq(Guard)
  BY DEF IInv, TypeOK
<1>2. /\ n \in Nat /\ n # 0
      /\ g \in Guard
  BY <1>1 DEF GuardEnd
<1>3. g.name \in Var /\ g.prev \in Stored /\ Owner[g.name] = t
  BY <1>2 DEF IInv, GuardInv, Guard
<1>4. /\ SysPut(g.name, g.prev) /\ at[t] # "copy"
      /\ at' = [at EXCEPT ![t] = "idle"]
      /\ UNCHANGED <<build, call>>
      /\ guards' = [guards EXCEPT ![t] = SubSeq(guards[t], 1, n - 1)]
  BY DEF GuardEnd, IInv, TypeOK
<1>5. /\ SubSeq(guards[t], 1, n - 1) \in Seq(Guard)
      /\ Len(SubSeq(guards[t], 1, n - 1)) = n - 1
      /\ \A i \in 1..(n - 1) : SubSeq(guards[t], 1, n - 1)[i] = guards[t][i]
  BY <1>1, <1>2
<1> HIDE DEF n, g
<1>6. \A u \in Thread : guards'[u] \in Seq(Guard)
  BY <1>1, <1>4, <1>5
<1>7. \A i \in 1..(n - 1) : i \in 1..n
  BY <1>2
<1>8. GuardInv'
  <2>1. ASSUME NEW u \in Thread, NEW i \in 1..Len(guards'[u])
        PROVE  guards'[u][i].prev \in Stored /\ Owner[guards'[u][i].name] = u
    <3>1. CASE u = t
      BY <1>1, <1>4, <1>5, <1>7, <2>1, <3>1 DEF IInv, GuardInv, n
    <3>2. CASE u # t
      BY <1>1, <1>4, <2>1, <3>2 DEF IInv, GuardInv
    <3>3. QED
      BY <3>1, <3>2
  <2>2. QED
    BY <2>1 DEF GuardInv
<1>9. QED
  BY <1>3, <1>4, <1>6, <1>8, WriteIInv

(* put() outside of any other call. *)
LEMMA PutIInv ==
  ASSUME IInv, NEW t \in Thread, NEW x \in Var, NEW v \in Arg, Put(t, x, v)
  PROVE  IInv'
<1>1. /\ SysPut(x, v) /\ Owner[x] = t /\ at[t] = "idle"
      /\ UNCHANGED <<build, call, guards>>
      /\ at' = [at EXCEPT ![t] = "idle"]
  BY DEF Put, IInv, TypeOK
<1>2. (\A u \in Thread : guards'[u] \in Seq(Guard)) /\ GuardInv'
  BY <1>1 DEF IInv, TypeOK, GuardInv
<1>3. QED
  BY <1>1, <1>2, WriteIInv

(* The copy of a text on Windows and on macOS. *)
LEMMA CopyIInv ==
  ASSUME IInv, NEW t \in Thread, CopyWin(t) \/ CopyMac(t)
  PROVE  /\ IInv'
         /\ \E s \in String : /\ Return(t, s)
                              /\ ~stale[t] => s = Visible(call[t].name)
<1>1. \E s \in String : /\ Return(t, s)
                        /\ ~stale[t] => s = Visible(call[t].name)
  <2>1. CASE CopyWin(t)
    BY <2>1, CopyExact DEF CopyWin
  <2>2. CASE CopyMac(t) /\ stale[t]
    <3>1. PICK n \in 0..TornLength : \E s \in [1..n -> Char] : Return(t, s)
      BY <2>2 DEF CopyMac
    <3>2. [1..n -> Char] \subseteq String
      BY SysEnvAssumption DEF String
    <3>3. QED
      BY <2>2, <3>1, <3>2
  <2>3. CASE CopyMac(t) /\ ~stale[t]
    BY <2>3, CopyExact DEF CopyMac
  <2>4. QED
    BY <2>1, <2>2, <2>3
<1>2. at[t] = "copy" /\ UNCHANGED <<build, env, guards, stale>>
  BY DEF CopyWin, CopyMac
<1>3. IInv'
  <2>1. PICK s \in String : /\ Return(t, s)
                            /\ ~stale[t] => s = Visible(call[t].name)
    BY <1>1
  <2>2. QED
    BY <1>2, <2>1, ReturnIInv
<1>4. QED
  BY <1>1, <1>3

(* Every step keeps the invariant. *)
LEMMA NextIInv == IInv /\ [Next]_vars => IInv'
<1> SUFFICES ASSUME IInv, [Next]_vars PROVE IInv'
  OBVIOUS
<1>1. ASSUME NEW t \in Thread, CopyWin(t) \/ CopyMac(t) PROVE IInv'
  BY <1>1, CopyIInv
<1>2. ASSUME NEW t \in Thread, GuardPut(t) PROVE IInv'
  BY <1>2, GuardPutIInv
<1>3. ASSUME NEW t \in Thread, GuardEnd(t) PROVE IInv'
  BY <1>3, GuardEndIInv
<1>4. ASSUME NEW t \in Thread, NEW x \in Var, NEW v \in DefVal, Get(t, x, v)
      PROVE  IInv'
  BY <1>4, FirstStepIInv, SysEnvAssumption DEF Get
<1>5. ASSUME NEW t \in Thread, NEW x \in Var, NEW v \in Arg, Put(t, x, v)
      PROVE  IInv'
  BY <1>5, PutIInv
<1>6. ASSUME NEW t \in Thread, NEW x \in Var, NEW v \in Arg, GuardBegin(t, x, v)
      PROVE  IInv'
  BY <1>6, FirstStepIInv DEF GuardBegin
<1>7. CASE UNCHANGED vars
  BY <1>7 DEF vars, IInv, TypeOK, CallInv, GuardInv, GuardSavesCurrent, Visible
<1>8. QED
  BY <1>1, <1>2, <1>3, <1>4, <1>5, <1>6, <1>7 DEF Next

-----------------------------------------------------------------------------
(* The theorems.                                                           *)

(* The inductive invariant holds throughout. *)
THEOREM Invariance == Spec => []IInv
<1>1. Init => IInv
  BY InitIInv
<1>2. IInv /\ [Next]_vars => IInv'
  BY NextIInv
<1>3. QED
  BY <1>1, <1>2, PTL DEF Spec

(* Every variable keeps its type. *)
THEOREM TypeCorrect == Spec => []TypeOK
<1>1. IInv => TypeOK
  BY DEF IInv
<1>2. QED
  BY <1>1, Invariance, PTL

(* An EnvRAII saves the value that it replaces. *)
THEOREM GuardsSaveCurrent == Spec => []GuardSavesCurrent
<1>1. IInv => GuardSavesCurrent
  BY DEF IInv
<1>2. QED
  BY <1>1, Invariance, PTL

(* The result of a first step, if the call has it then. *)
LEMMA FirstStepExact ==
  ASSUME IInv, NEW t \in Thread, NEW u \in Thread, NEW op \in {"get", "guard"},
         NEW x \in Var, NEW v \in Arg, FirstStep(u, NewCall(op, x, v)),
         call'[t] # call[t], at'[t] # "copy"
  PROVE  call'[t].result = Result(call'[t], Visible(call'[t].name))
<1> DEFINE c == NewCall(op, x, v)
           d == [c EXCEPT !.result = Result(c, <<>>)]
<1>1. call \in [Thread -> Call] /\ at \in [Thread -> {"idle", "copy", "put"}]
  BY DEF IInv, TypeOK
<1>2. /\ c.op = op /\ c.name = x /\ c.val = v
      /\ d.op = op /\ d.name = x /\ d.val = v /\ d.result = Result(c, <<>>)
  BY DEF NewCall
<1>3. Result(c, <<>>) = Result(d, <<>>)
  BY <1>2 DEF Result
<1> HIDE DEF c, d
<1>4. /\ u = t /\ env[x] = Absent
      /\ call'[t] = d
  BY <1>1, <1>2 DEF FirstStep, c, d
<1>5. QED
  BY <1>2, <1>3, <1>4 DEF Visible

(* A get() that no write disturbs returns the variable's value, or the     *)
(* default for an empty one.                                               *)
THEOREM UndisturbedGet == Spec => GetIsExact
<1> DEFINE A == \A t \in Thread :
                  /\ at'[t] # "copy" /\ (at[t] = "copy" \/ call'[t] # call[t])
                  /\ at[t] = "copy" => ~stale[t]
                  => call'[t].result = Result(call'[t], Visible(call'[t].name))
<1>1. IInv /\ [Next]_vars => [A]_vars
  <2> SUFFICES ASSUME IInv, Next, NEW t \in Thread, at'[t] # "copy",
                      at[t] = "copy" \/ call'[t] # call[t],
                      at[t] = "copy" => ~stale[t]
               PROVE  call'[t].result = Result(call'[t], Visible(call'[t].name))
    OBVIOUS
  <2>1. at \in [Thread -> {"idle", "copy", "put"}] /\ call \in [Thread -> Call]
    BY DEF IInv, TypeOK
  <2>2. PICK u \in Thread :
          \/ CopyWin(u) \/ CopyMac(u) \/ GuardPut(u) \/ GuardEnd(u)
          \/ \E x \in Var, v \in DefVal : Get(u, x, v)
          \/ \E x \in Var, v \in Arg : Put(u, x, v) \/ GuardBegin(u, x, v)
    BY DEF Next
  <2>3. CASE CopyWin(u) \/ CopyMac(u)
    <3>1. u = t /\ at[t] = "copy"
      BY <2>1, <2>3 DEF CopyWin, CopyMac, Return
    <3>2. PICK s \in String : /\ Return(t, s)
                              /\ ~stale[t] => s = Visible(call[t].name)
      BY <2>3, <3>1, CopyIInv
    <3>3. call'[t] = [call[t] EXCEPT !.result = Result(call[t], s)]
      BY <2>1, <3>2 DEF Return
    <3>4. /\ call'[t].result = Result(call[t], s)
          /\ call'[t].name = call[t].name
          /\ call'[t].op = call[t].op /\ call'[t].val = call[t].val
      BY <2>1, <3>3 DEF Call
    <3>5. s = Visible(call[t].name)
      BY <3>1, <3>2
    <3>6. QED
      BY <3>4, <3>5 DEF Result
  <2>4. CASE GuardPut(u)
    BY <2>1, <2>4 DEF GuardPut
  <2>5. CASE GuardEnd(u)
    BY <2>5 DEF GuardEnd
  <2>6. ASSUME NEW c, FirstStep(u, c) PROVE call'[t] # call[t]
    BY <2>1, <2>6 DEF FirstStep
  <2>7. CASE \E x \in Var, v \in DefVal : Get(u, x, v)
    BY <2>6, <2>7, FirstStepExact, SysEnvAssumption DEF Get
  <2>8. CASE \E x \in Var, v \in Arg : GuardBegin(u, x, v)
    BY <2>6, <2>8, FirstStepExact DEF GuardBegin
  <2>9. CASE \E x \in Var, v \in Arg : Put(u, x, v)
    BY <2>9 DEF Put
  <2>10. QED
    BY <2>2, <2>3, <2>4, <2>5, <2>7, <2>8, <2>9
<1>2. QED
  BY <1>1, Invariance, PTL DEF Spec, GetIsExact

-----------------------------------------------------------------------------
(* The refinement.                                                         *)

(* The initial states of SysEnv are initial states of Scopes. *)
LEMMA InitRefines == Init => Scope!Init
  BY StoredText DEF Init, Scope!Init, Visible

(* A put() is a setting, of the old value if the system refuses it. *)
LEMMA PutRefines ==
  ASSUME IInv, NEW t \in Thread, NEW x \in Var, NEW v \in Arg, Put(t, x, v)
  PROVE  Scope!Next
<1>1. SysPut(x, v) /\ guards' = guards
  BY DEF Put
<1>2. Scope!Set(x, After(x, v)) /\ After(x, v) \in Stored
  BY <1>1, SysPutEffect DEF IInv, Scope!Set
<1>3. QED
  BY <1>2 DEF Scope!Next

(* The write of an EnvRAII constructor enters a scope, even one that the   *)
(* system refuses: the scope's value is then the old one.                  *)
LEMMA GuardPutRefines ==
  ASSUME IInv, NEW t \in Thread, GuardPut(t)
  PROVE  Scope!Next
<1> DEFINE x == call[t].name
           v == call[t].val
<1>1. /\ x \in Var /\ v \in Arg \cup Stored
      /\ call[t].result = Visible(x)
      /\ SysPut(x, v)
      /\ guards' = [guards EXCEPT ![t] =
           Append(guards[t], [name |-> x, prev |-> Visible(x)])]
  BY StoredText DEF GuardPut, IInv, TypeOK, GuardSavesCurrent, Call
<1>2. [y \in Var |-> Visible(y)][x] = Visible(x)
  BY <1>1
<1> HIDE DEF x, v
<1>3. Scope!Enter(t, x, After(x, v)) /\ After(x, v) \in Stored
  BY <1>1, <1>2, SysPutEffect DEF IInv, Scope!Enter
<1>4. QED
  BY <1>1, <1>3 DEF Scope!Next

(* The destructor of an EnvRAII leaves one. *)
LEMMA GuardEndRefines ==
  ASSUME IInv, NEW t \in Thread, GuardEnd(t)
  PROVE  Scope!Next
<1> DEFINE g == guards[t][Len(guards[t])]
<1>1. guards[t] \in Seq(Guard) /\ guards[t] # <<>>
  BY DEF GuardEnd, IInv, TypeOK
<1>2. Len(guards[t]) \in 1..Len(guards[t]) /\ g \in Guard
  BY <1>1
<1>3. g.name \in Var /\ g.prev \in Stored
  BY <1>2 DEF IInv, GuardInv, Guard
<1>4. After(g.name, g.prev) = g.prev
  BY <1>3, StoredText DEF After, Stored
<1>5. SysPut(g.name, g.prev)
  BY DEF GuardEnd
<1>6. guards' = [guards EXCEPT ![t] = SubSeq(guards[t], 1, Len(guards[t]) - 1)]
  BY DEF GuardEnd
<1>7. [y \in Var |-> Visible(y)]'
        = [[y \in Var |-> Visible(y)] EXCEPT ![g.name] = g.prev]
  <2> HIDE DEF g
  <2>1. QED
    BY <1>3, <1>4, <1>5, SysPutEffect DEF IInv
<1>8. Scope!Leave(t)
  BY <1>1, <1>6, <1>7 DEF Scope!Leave
<1>9. QED
  BY <1>8 DEF Scope!Next

(* Every step of SysEnv is a step or a stutter of Scopes. *)
LEMMA NextRefines == IInv /\ [Next]_vars => [Scope!Next]_(Scope!vars)
<1> SUFFICES ASSUME IInv, [Next]_vars PROVE [Scope!Next]_(Scope!vars)
  OBVIOUS
<1>1. ASSUME UNCHANGED <<env, guards>> PROVE UNCHANGED Scope!vars
  BY <1>1 DEF Scope!vars, Visible
<1>2. ASSUME NEW t \in Thread, CopyWin(t) \/ CopyMac(t)
      PROVE  UNCHANGED <<env, guards>>
  BY <1>2 DEF CopyWin, CopyMac
<1>3. ASSUME NEW t \in Thread, NEW x \in Var, NEW v \in DefVal, Get(t, x, v)
      PROVE  UNCHANGED <<env, guards>>
  BY <1>3 DEF Get, FirstStep
<1>4. ASSUME NEW t \in Thread, NEW x \in Var, NEW v \in Arg, GuardBegin(t, x, v)
      PROVE  UNCHANGED <<env, guards>>
  BY <1>4 DEF GuardBegin, FirstStep
<1>5. CASE UNCHANGED vars
  BY <1>1, <1>5 DEF vars
<1>6. QED
  BY <1>1, <1>2, <1>3, <1>4, <1>5, PutRefines, GuardPutRefines, GuardEndRefines
     DEF Next

(* EnvRAII makes scopes that read and set a variable at once. *)
THEOREM Refinement == Spec => ImplementsScopes
<1>1. Init => Scope!Init
  BY InitRefines
<1>2. IInv /\ [Next]_vars => [Scope!Next]_(Scope!vars)
  BY NextRefines
<1>3. QED
  BY <1>1, <1>2, Invariance, PTL DEF Spec, ImplementsScopes, Scope!Spec
=============================================================================
