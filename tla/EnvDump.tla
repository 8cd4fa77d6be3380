------------------------------ MODULE EnvDump -------------------------------
(***************************************************************************)
(* The listing of the environment behind rcp::SysEnv::dump: allW of        *)
(* src/utils/win/sys_env_win.cpp and src/utils/mac/sys_env_mac.cpp, with   *)
(* the FuncRAII that gives the block back, while another thread may write  *)
(* a variable.  Windows hands out a copy of the environment as one block   *)
(* of texts, each ended by a Nul; macOS has an array of texts in UTF-8     *)
(* that the listing walks in place.  A text is a name, '=' and a value; a  *)
(* value may hold more of them, and Windows has hidden variables whose     *)
(* texts begin with one.  The environment is external; dump() sorts the    *)
(* list and writes it out.                                                 *)
(***************************************************************************)
EXTENDS Conversions

CONSTANTS
  Eq,          \* '=', a character of one byte
  EnvChar,     \* the characters of the environment's texts
  MaxItems, MaxItemLength   \* bounds on the environment and its texts

ASSUME EnvDumpAssumption ==
  /\ Eq \in EnvChar /\ EnvChar \subseteq Char /\ Bytes[Eq] = 1
  /\ {MaxItems, MaxItemLength} \subseteq Nat

Text == UNION {[1..n -> EnvChar] : n \in 0..MaxItemLength}

VARIABLES
  build,     \* which source file was compiled, "win" or "mac"
  environ,   \* the texts of the environment, in the system's order
  pc,        \* the call of allW: "start", "loop", "returned", "thrown",
             \* "failed" (the system gave no block) or "crashed"
  envsW,     \* the block of texts, <<>> while the call has none
  current,   \* where in the block or the array the loop is
  retVal,    \* the pairs listed so far
  before,    \* the environment when allW was called
  disturbed  \* has another thread written a variable since?

dumpVars == <<build, environ, pc, envsW, current, retVal, before, disturbed>>

Block == FlattenSeq([i \in 1..Len(environ) |-> environ[i] \o <<Nul>>]) \o <<Nul>>

DumpInit ==
  /\ build \in {"win", "mac"}
  /\ environ \in UNION {[1..n -> Text \ {<<>>}] : n \in 0..MaxItems}
  /\ pc = "start"
  /\ envsW = <<>>
  /\ current = 1
  /\ retVal = <<>>
  /\ before = environ
  /\ disturbed = FALSE

-----------------------------------------------------------------------------
Find(s, c) == SelectInSeq(s, LAMBDA x : x = c)

EnvPair(item, pos) == [first  |-> SubSeq(item, 1, pos - 1),
                       second |-> SubSeq(item, pos + 1, Len(item))]

(* Mutant: rfind. *)
SplitAtLast(item, least) ==
  LET pos == SelectLastInSeq(item, LAMBDA x : x = Eq)
  IN IF pos < least THEN <<>> ELSE <<EnvPair(item, pos)>>

(* The pair of a text; none if it has no '=' or, with least 2, an empty    *)
(* name.                                                                   *)
Split(item, least) ==
  LET pos == Find(item, Eq)
  IN IF pos < least THEN <<>> ELSE <<EnvPair(item, pos)>>

(* Both parts of a text of environ, which is in UTF-8, made wide. *)
SplitMac(item) ==
  LET bytes == Encode(item)
      pos == Find(bytes, [char |-> Eq, byte |-> 1])
      pair == EnvPair(bytes, pos)
  IN IF pos = 0 THEN <<>>
     ELSE <<[first |-> fromUtf8Mac(pair.first), second |-> fromUtf8Mac(pair.second)]>>

(* Mutant: the block is freed at the end of the function, not by FuncRAII. *)
LeaveEarly(label) ==
  /\ pc' = label
  /\ envsW' = IF build = "win" /\ label = "returned" THEN <<>> ELSE envsW

(* The end of allW, by return or exception: FuncRAII frees the block. *)
Leave(label) ==
  /\ pc' = label
  /\ envsW' = IF build = "win" THEN <<>> ELSE envsW

(* ::GetEnvironmentStringsW, which may fail, with FuncRAII atEnd; nothing  *)
(* of the kind on macOS.                                                   *)
Start ==
  /\ pc = "start"
  /\ before' = environ
  /\ \/ pc' = "loop" /\ envsW' = IF build = "win" THEN Block ELSE <<>>
     \/ build = "win" /\ pc' = "failed" /\ UNCHANGED envsW
  /\ UNCHANGED <<build, environ, current, retVal, disturbed>>

(* The text at `current` in the block; an empty one ends it. *)
Item ==
  LET rest == SubSeq(envsW, current, Len(envsW))
  IN SubSeq(rest, 1, Find(rest, Nul) - 1)

LoopWin ==
  /\ pc = "loop" /\ build = "win"
  /\ IF Item = <<>>
       THEN Leave("returned") /\ UNCHANGED <<current, retVal>>
       ELSE /\ retVal' = retVal \o Split(Item, 2)
            /\ current' = current + Len(Item) + 1
            /\ UNCHANGED <<pc, envsW>>
  /\ UNCHANGED <<build, environ, before, disturbed>>

LoopMac ==
  /\ pc = "loop" /\ build = "mac" /\ ~disturbed
  /\ IF current > Len(environ)
       THEN Leave("returned") /\ UNCHANGED <<current, retVal>>
       ELSE /\ retVal' = retVal \o SplitMac(environ[current])
            /\ current' = current + 1
            /\ UNCHANGED <<pc, envsW>>
  /\ UNCHANGED <<build, environ, before, disturbed>>

(* The array or a text of it has been freed under the loop: undefined      *)
(* behaviour.  It may crash, end early, or read texts no longer there, of  *)
(* which the model takes one: the properties promise nothing from here on. *)
LoopStale ==
  /\ pc = "loop" /\ build = "mac" /\ disturbed
  /\ \/ pc' \in {"returned", "crashed"} /\ UNCHANGED retVal
     \/ /\ pc' = "returned"
        /\ \E item \in Range(before) : retVal' = retVal \o SplitMac(item)
  /\ UNCHANGED <<build, environ, envsW, current, before, disturbed>>

(* There is no memory for the next pair, and std::bad_alloc leaves allW. *)
Throw ==
  /\ pc = "loop"
  /\ Leave("thrown")
  /\ retVal' = <<>>
  /\ UNCHANGED <<build, environ, current, before, disturbed>>

(* Another thread adds a variable or deletes one, once during the call;    *)
(* the text it adds is short, as nothing depends on it.                    *)
OtherPut ==
  /\ pc = "loop" /\ ~disturbed
  /\ \/ \E c \in EnvChar : environ' = Append(environ, <<c>>)
     \/ environ # <<>> /\ environ' = Tail(environ)
  /\ disturbed' = TRUE
  /\ UNCHANGED <<build, pc, envsW, current, retVal, before>>

DumpNext == Start \/ LoopWin \/ LoopMac \/ LoopStale \/ Throw \/ OtherPut

DumpSpec == DumpInit /\ [][DumpNext]_dumpVars

-----------------------------------------------------------------------------
(* What a text says: its name holds no '=', and Windows hides those that   *)
(* begin with one.                                                         *)
Meanings(item) ==
  {pair \in [first : Text, second : Text] :
     /\ item = pair.first \o <<Eq>> \o pair.second
     /\ ~Contains(pair.first, Eq)
     /\ build = "win" => pair.first # <<>>}

(* allW lists every variable there was when it was called, once, in the    *)
(* system's order and whole, with values that are empty or hold '=', and   *)
(* none that is hidden; on Windows whatever other threads write meanwhile  *)
(* (sys_env_win.cpp:63-97, sys_env_mac.cpp:41-60).                         *)
EveryVariableListed ==
  LET listed == FlattenSeq([i \in 1..Len(before) |->
                              IF Meanings(before[i]) = {} THEN <<>> ELSE <<before[i]>>])
  IN pc = "returned" /\ (build = "win" \/ ~disturbed) =>
       /\ Len(retVal) = Len(listed)
       /\ \A i \in 1..Len(listed) : retVal[i] \in Meanings(listed[i])

(* The block is there exactly as long as the loop reads it: it is freed    *)
(* whichever way the call ends (func_raii.h:33-37, sys_env_win.cpp:72).    *)
BlockFreed ==
  build = "win" => (pc = "loop" <=> envsW # <<>>)
=============================================================================
