---------------------------- MODULE Conversions -----------------------------
(***************************************************************************)
(* The library's conversions, which are pure: text between wide, ANSI and  *)
(* UTF-8 on Windows (src/platform/win/platform.cpp and utf8.cpp) and macOS *)
(* (src/platform/mac/utf8.cpp), and text to numbers                        *)
(* (include/utils/num_traits.h under the numeric SysEnv::get).  The        *)
(* system's converters and std::sto* are external.                         *)
(*                                                                         *)
(* A wide character takes one to Bytes[c] narrow ones, its bytes; texts    *)
(* may hold Nul.  A decimal text is its value.  The variables range over   *)
(* the inputs and the properties compare what the code computes with what  *)
(* it should, for each of them.                                            *)
(***************************************************************************)
EXTENDS Integers, Sequences, SequencesExt

CONSTANTS
  Char,       \* wide characters other than Nul
  Bytes,      \* [Char -> 1..4] how many bytes a character takes
  Nul,
  ACP, OEMCP, \* the ANSI code page and the console's
  Lacks,      \* [{ACP, OEMCP} -> SUBSET Char] what a code page cannot hold
  Substitute, \* the character that is put in its place
  LongBits, LongLongBits, IntBits,   \* widths of long, long long and int
  Throws,     \* the conversion ends in an exception (or "" if not asked to)
  Default,    \* the default value that a caller of get() gives
  MaxLength   \* bound on the texts

ASSUME ConversionsAssumption ==
  /\ Nul \notin Char \cup [char : Char, byte : 1..4]
  /\ Bytes \in [Char -> 1..4]
  /\ ACP # OEMCP /\ Lacks \in [{ACP, OEMCP} -> SUBSET Char]
  /\ Substitute \in Char /\ \A codePage \in {ACP, OEMCP} : Substitute \notin Lacks[codePage]
  /\ Throws \notin Int /\ Default \notin Int
  /\ {LongBits, LongLongBits, IntBits} \subseteq Nat \ {0}
  /\ MaxLength \in Nat

(* What the provers have to be told of powers of two. *)
ASSUME WidthAssumption ==
  \A bits \in {LongBits, LongLongBits, IntBits} :
    2^(bits - 1) \in Nat \ {0} /\ 2^bits = 2 * 2^(bits - 1)

VARIABLES
  text,     \* the wide text to convert
  number    \* the decimal text to convert

inputs == <<text, number>>

-----------------------------------------------------------------------------
(* A text up to its first Nul; the code's texts are followed by one.       *)
CString(s) ==
  LET nul == SelectInSeq(s, LAMBDA c : c = Nul)
  IN IF nul = 0 THEN s ELSE SubSeq(s, 1, nul - 1)

(* Bytes of a text; the byte Nul is Nul.  The first byte tells where a     *)
(* character begins.                                                       *)
Encode(s) ==
  FlattenSeq([i \in 1..Len(s) |->
    IF s[i] = Nul THEN <<Nul>>
    ELSE [n \in 1..Bytes[s[i]] |-> [char |-> s[i], byte |-> n]]])

Decode(s) ==
  FlattenSeq([i \in 1..Len(s) |->
    IF s[i] = Nul THEN <<Nul>>
    ELSE IF s[i].byte = 1 THEN <<s[i].char>> ELSE <<>>])

(* A system converter that would write out to a buffer of this size: the   *)
(* required size for none, failure (0) if it is too small.                 *)
Converted(out, size) ==
  IF size = 0 THEN [result |-> Len(out), buff |-> <<>>]
  ELSE IF Len(out) > size THEN [result |-> 0, buff |-> SubSeq(out, 1, size)]
  ELSE [result |-> Len(out),
        buff |-> out \o [i \in 1..(size - Len(out)) |-> Nul]]

(* What of a text is left in a code page. *)
Held(codePage, s) ==
  [i \in 1..Len(s) |-> IF s[i] \in Lacks[codePage] THEN Substitute ELSE s[i]]

(* The length argument -1: up to and with the terminator. *)
fnCall(codePage, in, size) ==
  Converted(Encode(Held(codePage, CString(in))) \o <<Nul>>, size)

(* Mutant: the buffer grows to what did not fit. *)
Wide2AnsiiHelperNoRetry(codePage, in) ==
  LET first == fnCall(codePage, in, Len(in) * 2)
  IN IF in = <<>> THEN <<>>
     ELSE IF first.result = 0 THEN Throws
     ELSE CString(first.buff)

(* A doubled buffer at the start, the required one if that is too small.   *)
Wide2AnsiiHelper(codePage, in) ==
  LET first == fnCall(codePage, in, Len(in) * 2)
      last  == IF first.result # 0 THEN first
               ELSE fnCall(codePage, in, fnCall(codePage, in, 0).result)
  IN IF in = <<>> THEN <<>>
     ELSE IF last.result = 0 THEN Throws
     ELSE CString(last.buff)

(* Every character of a code page is a wide one. *)
Ansii2WideHelper(in) ==
  LET res == Converted(Decode(CString(in)) \o <<Nul>>, Len(in) + 1)
  IN IF in = <<>> THEN <<>>
     ELSE IF res.result = 0 THEN Throws
     ELSE CString(res.buff)

toUtf8(src) ==
  LET charcount == Converted(Encode(src), 0).result
  IN IF charcount = 0 THEN <<>> ELSE Converted(Encode(src), charcount).buff

fromUtf8(src) ==
  LET charcount == Converted(Decode(src), 0).result
  IN IF charcount = 0 THEN <<>> ELSE Converted(Decode(src), charcount).buff

-----------------------------------------------------------------------------
(* The same on macOS, where CFStrings lie between.  A wide character has   *)
(* WideSize bytes; ANSI and console are UTF-8.                             *)

WideSize == 4

(* CFStringCreateWithBytesNoCopy refuses bytes that are not whole          *)
(* characters.                                                             *)
WellFormed(bytes) == bytes = Encode(Decode(bytes))

(* Mutant: one element for each byte. *)
CFStringToSTLStringByBytes(out, size) ==
  LET elements == Len(out) * size + 1
  IN IF out = <<>> THEN <<>>
     ELSE SubSeq(out \o [i \in 1..(elements - Len(out)) |-> Nul], 1, elements - 1)

(* out is what CFStringGetBytes gives, in elements of size bytes: a buffer *)
(* with room for a Nul, and all of it but that.                            *)
CFStringToSTLString(out, size) ==
  LET out_size == Len(out) * size
      elements == out_size \div size + 1
  IN IF out = <<>> THEN <<>>
     ELSE SubSeq(out \o [i \in 1..(elements - Len(out)) |-> Nul], 1, elements - 1)

toUtf8Mac(in) == CFStringToSTLString(Encode(in), 1)

fromUtf8Mac(in) ==
  IF WellFormed(in) THEN CFStringToSTLString(Decode(in), WideSize) ELSE <<>>

-----------------------------------------------------------------------------
(* PlatformBase on "win" and "mac". *)

Wide2Ansii(target, in) ==
  IF target = "win" THEN Wide2AnsiiHelper(ACP, in) ELSE toUtf8Mac(in)

Ansii2Wide(target, in) ==
  IF target = "win" THEN Ansii2WideHelper(in) ELSE fromUtf8Mac(in)

Wide2Console(target, in) ==
  IF target = "win" THEN Wide2AnsiiHelper(OEMCP, in) ELSE toUtf8Mac(in)

Ansii2Console(target, in) ==
  IF target = "win" THEN Wide2Console(target, Ansii2WideHelper(in)) ELSE in

Wide2Utf8(target, in) == IF target = "win" THEN toUtf8(in) ELSE toUtf8Mac(in)

Utf82Wide(target, in) == IF target = "win" THEN fromUtf8(in) ELSE fromUtf8Mac(in)

-----------------------------------------------------------------------------
(* NumTraits::from<T>; Throws is std::out_of_range.                      *)

Types == {"int", "long", "unsigned long", "long long"}

Width(T) == CASE T = "int" -> IntBits
              [] T = "long long" -> LongLongBits
              [] OTHER -> LongBits

Values(T) ==
  IF T = "unsigned long" THEN 0..(2^Width(T) - 1)
                         ELSE -(2^(Width(T) - 1))..(2^(Width(T) - 1) - 1)

(* std::stoi and std::stol. *)
StrToSigned(T, n) == IF n \in Values(T) THEN n ELSE Throws

(* std::stoul and std::stoull: a minus sign negates modulo 2^bits. *)
StrToUnsigned(bits, n) ==
  IF n < 2^bits /\ -n < 2^bits THEN n % 2^bits ELSE Throws

(* The conversion of an unsigned value to long long. *)
ToLongLong(n) ==
  IF n \in Int /\ n >= 2^(LongLongBits - 1) THEN n - 2^LongLongBits ELSE n

(* Mutant: from<long long> calls std::stoul. *)
fromStoul(T, n) ==
  CASE T = "long long" -> ToLongLong(StrToUnsigned(LongBits, n))
    [] T = "unsigned long" -> StrToUnsigned(LongBits, n)
    [] OTHER -> StrToSigned(T, n)

from(T, n) ==
  CASE T = "long long" -> ToLongLong(StrToUnsigned(LongLongBits, n))
    [] T = "unsigned long" -> StrToUnsigned(LongBits, n)
    [] OTHER -> StrToSigned(T, n)

(* SysEnv::get<T> of a variable that holds n. *)
get(T, n, defVal) == IF from(T, n) = Throws THEN defVal ELSE from(T, n)

-----------------------------------------------------------------------------
Limit == 2 * 2^LongLongBits

(* The inputs, each reached from the one before. *)
InputsInit ==
  /\ text = <<>>
  /\ number = -Limit

NextInput ==
  \/ /\ Len(text) < MaxLength
     /\ \E c \in Char \cup {Nul} : text' = Append(text, c)
     /\ UNCHANGED number
  \/ /\ number < Limit
     /\ number' = number + 1
     /\ UNCHANGED text

InputsSpec == InputsInit /\ [][NextInput]_inputs

(* On Windows ANSI and console get all bytes of the text up to its first   *)
(* Nul that the code page can hold, whatever number of bytes the           *)
(* characters take: the second call never fails (platform.cpp:37-84).      *)
NarrowingExact ==
  /\ Wide2Ansii("win", text) = Encode(Held(ACP, CString(text)))
  /\ Wide2Console("win", text) = Encode(Held(OEMCP, CString(text)))

(* There and back again: through ANSI up to the first Nul on Windows,      *)
(* through UTF-8 with every Nul; no buffer is one too short or one too     *)
(* long.  The two builds agree on UTF-8, but macOS makes nothing of a text *)
(* that is cut inside a character.  The console shows what the text has    *)
(* become in ANSI (platform.cpp:37-153, utf8.cpp, mac/utf8.cpp).           *)
ConversionsInverse ==
  /\ \A target \in {"win", "mac"} :
       LET kept == IF target = "win" THEN Held(ACP, CString(text)) ELSE text
           ansi == Wide2Ansii(target, text)
       IN /\ Ansii2Wide(target, ansi) = kept
          /\ Ansii2Console(target, ansi) = Wide2Console(target, kept)
          /\ Utf82Wide(target, Wide2Utf8(target, text)) = text
  /\ Wide2Utf8("mac", text) = Wide2Utf8("win", text)
  /\ \A n \in 0..Len(Encode(text)) :
       LET part == SubSeq(Encode(text), 1, n)
       IN Utf82Wide("mac", part) =
            IF WellFormed(part) THEN Utf82Wide("win", part) ELSE <<>>

(* Whatever value of its type a program puts into a variable, the get() of *)
(* that type brings it back, though long long is read as unsigned; and int *)
(* and long refuse all other numbers (num_traits.h:23-45, sys_env.h:71-89).*)
NumberRoundTrip ==
  \A T \in Types :
    /\ number \in Values(T) => get(T, number, Default) = number
    /\ T \in {"int", "long"} /\ number \notin Values(T) =>
         get(T, number, Default) = Default
=============================================================================
