------------------------------ MODULE OneShot -------------------------------
(***************************************************************************)
(* What rcp::PromiseEx promises in both of its builds: the worker gives at *)
(* most one content; a value goes to the one get() that claims it, and the *)
(* others fail only for a reason.                                          *)
(***************************************************************************)
CONSTANTS Getter, Value, None

VARIABLES
  content,  \* "empty", a value, or "exception"
  worker,   \* "alive", "ended", or "lost" to those who would wait for it
  claim,    \* the get() that the value is for, or None
  result    \* [Getter] "none", a value, "exception", or "error"

vars == <<content, worker, claim, result>>

Init ==
  /\ content = "empty"
  /\ worker = "alive"
  /\ claim = None
  /\ result = [g \in Getter |-> "none"]

Fulfil(c) ==
  /\ content = "empty"
  /\ worker # "ended"
  /\ content' = c
  /\ UNCHANGED <<worker, claim, result>>

(* A worker that is lost to the others may still fulfil the promise. *)
Leave(how) ==
  /\ worker = "alive" \/ how = "lost"
  /\ worker' = how
  /\ UNCHANGED <<content, claim, result>>

Claim(g) ==
  /\ claim = None
  /\ result[g] = "none"
  /\ claim' = g
  /\ UNCHANGED <<content, worker, result>>

Return(g) ==
  /\ result[g] = "none"
  /\ \/ claim = g /\ content # "empty"
     \/ content = "exception"
  /\ result' = [result EXCEPT ![g] = content]
  /\ UNCHANGED <<content, worker, claim>>

(* A get() fails because another has the value, or because the worker has  *)
(* left without giving one, or is out of sight.                            *)
Fail(g) ==
  /\ result[g] = "none"
  /\ claim # g
  /\ \/ claim # None
     \/ worker = "ended" /\ content \notin Value
     \/ worker = "lost"
  /\ result' = [result EXCEPT ![g] = "error"]
  /\ UNCHANGED <<content, worker, claim>>

Next ==
  \/ \E c \in Value \cup {"exception"} : Fulfil(c)
  \/ \E how \in {"ended", "lost"} : Leave(how)
  \/ \E g \in Getter : Claim(g) \/ Return(g) \/ Fail(g)

Spec == Init /\ [][Next]_vars
=============================================================================
