------------------------------ MODULE MCTexts -------------------------------
(* A small instance of Conversions and EnvDump for TLC: characters of one  *)
(* to three bytes, a long narrower than long long, as on Windows, and      *)
(* environments of '=' and a character of two bytes.  Either an            *)
(* environment is listed, or the empty one stays and the other inputs are  *)
(* enumerated.                                                             *)
EXTENDS EnvDump, TLC

CONSTANTS a, b, c

MCLacks == (ACP :> {b}) @@ (OEMCP :> {c})
MCBytes == (a :> 1) @@ (b :> 2) @@ (c :> 3)

Init == InputsInit /\ DumpInit

Next ==
  \/ NextInput /\ pc = "start" /\ environ = <<>> /\ UNCHANGED dumpVars
  \/ DumpNext /\ text = <<>> /\ number = -Limit /\ UNCHANGED inputs

(* InputsSpec and DumpSpec, side by side. *)
Spec == Init /\ [][Next]_<<inputs, dumpVars>>
=============================================================================
