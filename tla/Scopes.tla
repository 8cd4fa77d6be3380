------------------------------- MODULE Scopes -------------------------------
(***************************************************************************)
(* What rcp::EnvRAII promises: a scoped setting.  A thread that enters a   *)
(* scope gives a variable a value, and leaving the scope, last in first    *)
(* out, brings back the value the variable had.  A variable that does not  *)
(* exist and one that is empty are the same here.                          *)
(***************************************************************************)
EXTENDS Naturals, Sequences

CONSTANTS Thread, Var, Text

VARIABLES
  value,   \* [Var]    the value the program sees, <<>> if there is none
  scopes   \* [Thread] the scopes the thread is in, innermost last

vars == <<value, scopes>>

Init ==
  /\ value \in [Var -> Text]
  /\ scopes = [t \in Thread |-> <<>>]

(* Entering a scope sets the variable and remembers what it was, at once. *)
Enter(t, x, v) ==
  /\ scopes' = [scopes EXCEPT ![t] = Append(@, [name |-> x, prev |-> value[x]])]
  /\ value' = [value EXCEPT ![x] = v]

Leave(t) ==
  LET scope == scopes[t][Len(scopes[t])] IN
  /\ scopes[t] # <<>>
  /\ scopes' = [scopes EXCEPT ![t] = SubSeq(@, 1, Len(@) - 1)]
  /\ value' = [value EXCEPT ![scope.name] = scope.prev]

Set(x, v) ==
  /\ value' = [value EXCEPT ![x] = v]
  /\ UNCHANGED scopes

Next ==
  \/ \E t \in Thread : Leave(t)
  \/ \E t \in Thread, x \in Var, v \in Text : Enter(t, x, v)
  \/ \E x \in Var, v \in Text : Set(x, v)

Spec == Init /\ [][Next]_vars
=============================================================================
