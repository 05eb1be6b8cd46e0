------------------------------ MODULE CopyCalls ------------------------------
(* Calls of the bounds checked memory and string functions, one at a time, and  *)
(* what they are for.                                                           *)
EXTENDS BoundedCopy, Calls

CONSTANT Contents       \* what the arena holds

Byte == 0 .. 255

(* A string anywhere in the arena ends within it. *)
ASSUME ContentsAssumption == Contents \subseteq {m \in [1 .. Arena -> Byte] : m[Arena] = 0}

CopyIn(m, dest, destsz, src, c, count) ==
    [m |-> m, dest |-> dest, destsz |-> destsz, src |-> src, c |-> c, count |-> count]

Counted   == {"memset", "memmove", "memcpy", "memccpy", "memcmove"}
Limited   == {"strncpy", "strnmove", "strncat", "strncatmove"}
Unlimited == {"strcpy", "strmove", "strcat", "strcatmove"}
Appending == {"strcat", "strcatmove", "strncat", "strncatmove"}

CopyOut(f, x) ==
    CASE f = "memset"      -> safe_memset(x.m, x.dest, x.destsz, x.c, x.count)
      [] f = "memmove"     -> safe_memmove(x.m, x.dest, x.destsz, x.src, x.count)
      [] f = "memcpy"      -> safe_memcpy(x.m, x.dest, x.destsz, x.src, x.count)
      [] f = "memccpy"     -> safe_memccpy(x.m, x.dest, x.destsz, x.src, x.c, x.count)
      [] f = "memcmove"    -> safe_memcmove(x.m, x.dest, x.destsz, x.src, x.c, x.count)
      [] f = "strcpy"      -> safe_strcpy(x.m, x.dest, x.destsz, x.src)
      [] f = "strmove"     -> safe_strmove(x.m, x.dest, x.destsz, x.src)
      [] f = "strncpy"     -> safe_strncpy(x.m, x.dest, x.destsz, x.src, x.count)
      [] f = "strnmove"    -> safe_strnmove(x.m, x.dest, x.destsz, x.src, x.count)
      [] f = "strcat"      -> safe_strcat(x.m, x.dest, x.destsz, x.src)
      [] f = "strcatmove"  -> safe_strcatmove(x.m, x.dest, x.destsz, x.src)
      [] f = "strncat"     -> safe_strncat(x.m, x.dest, x.destsz, x.src, x.count)
      [] f = "strncatmove" -> safe_strncatmove(x.m, x.dest, x.destsz, x.src, x.count)

(* What is left of the arena from an address on; of M_NULLPTR nothing is used.  *)
Room(address) == IF address = 0 THEN Arena ELSE (Arena + 1) - address

(* A caller gives the memory it owns: what is outside of the arena is not.      *)
Copying ==
    \E m \in Contents, dest, src \in 0 .. Arena, f \in Counted \cup Limited \cup Unlimited :
    \E destsz \in 0 .. Room(dest), c \in IF f \in {"memccpy", "memcmove"} THEN {0, 3} ELSE {0},
       count \in CASE f \in Counted -> 0 .. Room(src) [] f \in Limited -> 0 .. Arena
                   [] f \in Unlimited -> {0} :
        LET x == CopyIn(m, dest, destsz, src, c, count) IN Called("copy", f, x, CopyOut(f, x))

Duplicating ==
    \E m \in Contents, src \in 1 .. Arena, memory, hasDup \in BOOLEAN :
        \/ Called("duplicate", "strdup", [m |-> m, src |-> src, count |-> Arena], safe_strdup(m, hasDup, src, memory))
        \/ \E count \in 0 .. (Arena - src) + 1 :
               Called("duplicate", "strndup", [m |-> m, src |-> src, count |-> count],
                      safe_strndup(m, hasDup, src, count, memory))

(* The bytes at the place it is asked for to be overwritten, and the question.  *)
Wiping ==
    \E m \in Contents, at \in 0 .. Arena : \E n \in 0 .. Room(at) :
        LET wiped == explicit_zeroes(m, at, n)
        IN Called("wipe", "explicit_zeroes", [m |-> m, at |-> at, n |-> n],
                  [mem |-> wiped.mem, empty |-> is_Empty(wiped.mem, at, n), length |-> safe_strnlen(wiped.mem, at, n)])

StringAt(m, a) ==
    LET end == CHOOSE e \in a .. Arena : m[e] = 0 /\ \A i \in a .. e - 1 : m[i] # 0
    IN [i \in 1 .. end - a |-> m[a + i - 1]]

BytesAt(m, a, n) == [i \in 1 .. n |-> m[a + i - 1]]
FirstOf(s, n) == SubSeq(s, 1, IF n < Len(s) THEN n ELSE Len(s))
InDestination(x) == IF x.dest = 0 THEN {} ELSE x.dest .. x.dest + x.destsz - 1

(* What is to be at the destination. *)
ToBeCopied(f, x) ==
    LET s == StringAt(x.m, x.src)
        upto == {n \in 1 .. x.count : x.m[x.src + n - 1] = x.c /\ \A i \in 1 .. n - 1 : x.m[x.src + i - 1] # x.c}
    IN CASE f = "memset" -> [i \in 1 .. x.count |-> x.c]
         [] f \in {"memmove", "memcpy"} -> BytesAt(x.m, x.src, x.count)
         [] f \in {"memccpy", "memcmove"} -> BytesAt(x.m, x.src, IF upto = {} THEN x.count ELSE Min(upto))
         [] f \in {"strcpy", "strmove"} -> Append(s, 0)
         [] f \in {"strncpy", "strnmove"} -> Append(FirstOf(s, x.count), 0)
         [] f \in {"strcat", "strcatmove"} -> Append(StringAt(x.m, x.dest) \o s, 0)
         [] f \in {"strncat", "strncatmove"} -> Append(StringAt(x.m, x.dest) \o FirstOf(s, x.count), 0)

Usable(x) == x.dest # 0 /\ x.destsz \in 1 .. RSIZE_MAX
TerminatedIn(m, x) == \E a \in InDestination(x) : m[a] = 0

CopyIsExact(f, x, out) ==
    out.error = 0 => LET s == ToBeCopied(f, x) IN BytesAt(out.mem, x.dest, Len(s)) = s
CopyKeepsTheRest(x, out) == \A a \in (1 .. Arena) \ InDestination(x) : out.mem[a] = x.m[a]
StringStaysTerminated(f, x, out) ==
    f \notin Counted /\ Usable(x) /\ (f \in Appending => TerminatedIn(x.m, x)) => TerminatedIn(out.mem, x)
FittingStringIsCopied(f, x, out) ==
    f \in Unlimited /\ Usable(x) /\ x.src # 0 /\ (f \in Appending => TerminatedIn(x.m, x)) =>
    LET s == ToBeCopied(f, x)
    IN Len(s) <= x.destsz /\ x.src \notin InDestination(x) /\ x.src + Len(StringAt(x.m, x.src)) \notin InDestination(x)
       => out.error = 0

(* The bounds checked copies: what a call that succeeds leaves at its           *)
(* destination is the bytes or the string it was asked for, overlapping or not; *)
(* no call changes a byte outside its destination; a destination that was a     *)
(* string still ends within its size after any call, refused or not; a string   *)
(* that fits beside its source is not refused.                                  *)
CopiesStayInBounds ==
    /\ Is("copy") =>
          /\ CopyIsExact(call.f, call.in, call.out) /\ CopyKeepsTheRest(call.in, call.out)
          /\ StringStaysTerminated(call.f, call.in, call.out) /\ FittingStringIsCopied(call.f, call.in, call.out)
    /\ Is("duplicate") /\ call.out.error = 0 =>
          call.out.dup = Append(IF call.f = "strdup" THEN StringAt(call.in.m, call.in.src)
                                ELSE BytesAt(call.in.m, call.in.src, call.in.count), 0)
    /\ Is("wipe") =>
          LET wiped == IF call.in.at = 0 THEN {} ELSE call.in.at .. call.in.at + call.in.n - 1
          IN call.in.n <= RSIZE_MAX =>
             /\ \A a \in 1 .. Arena : call.out.mem[a] = IF a \in wiped THEN 0 ELSE call.in.m[a]
             /\ call.out.empty = (wiped # {}) /\ call.out.length = 0

CopyStep == Copying \/ Duplicating \/ Wiping

CopySpec == call = Idle /\ [][CopyStep \/ OtherThan({"copy", "duplicate", "wipe"})]_call

===============================================================================
