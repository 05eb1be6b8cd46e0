------------------------------ MODULE BoundedCopy ------------------------------
(* The bounds checked memory and string functions of memory_safety.c and        *)
(* string_utils.c.  Memory is one arena: a function from the addresses          *)
(* 1 .. Arena to bytes; address 0 is M_NULLPTR, byte 0 is the terminator.  A    *)
(* function takes the arena and its arguments and returns the errno_t it        *)
(* returns and the arena it leaves.  The builds with the libraries of the       *)
(* platform (HAVE_MSFT_SECURE_LIB, HAVE_C11_ANNEX_K) are not modelled.          *)
EXTENDS ErrorCodes

CONSTANTS
    Arena,      \* the last address
    RSIZE_MAX   \* the largest size the functions accept

ASSUME BoundedCopyAssumption == Arena \in Nat \ {0} /\ RSIZE_MAX \in Nat \ {0}

Result(error, m) == [error |-> error, mem |-> m]

(* ---------------------------------------------------------------- memory *)

Fill(m, dest, ch, count) == [a \in DOMAIN m |-> IF a \in dest .. dest + count - 1 THEN ch ELSE m[a]]

Move(m, dest, src, count) ==
    [a \in DOMAIN m |-> IF a \in dest .. dest + count - 1 THEN m[src + (a - dest)] ELSE m[a]]

safe_memset(m, dest, destsz, ch, count) ==
    LET error == FirstFailing(<< <<dest = 0, EINVAL>>,
                                 <<destsz > RSIZE_MAX, ERANGE>>,
                                 <<count > RSIZE_MAX, ERANGE>>,
                                 <<count > destsz, ERANGE>> >>)
    IN Result(error, IF error = 0 THEN Fill(m, dest, ch, count) ELSE m)

(* What a failed copy leaves: the destination zeroed, when it can be. *)
ZeroOnError(m, dest, destsz, error) ==
    Result(error, IF dest # 0 /\ destsz <= RSIZE_MAX THEN safe_memset(m, dest, destsz, 0, destsz).mem ELSE m)

explicit_zeroes(m, dest, count) ==
    IF dest # 0 /\ count > 0 THEN safe_memset(m, dest, count, 0, count) ELSE Result(0, m)

(* The scan goes from both ends to the middle. *)
is_Empty(m, ptr, length) ==
    ptr # 0 /\ length > 0
    /\ \A i \in 0 .. length - 1 : length - 1 - i >= i => m[ptr + i] = 0 /\ m[ptr + length - 1 - i] = 0

memory_regions_overlap(ptr1, size1, ptr2, size2) == ptr1 - (ptr2 + size2) < 0 /\ ptr2 - (ptr1 + size1) < 0

(* Mutant: more than the destination holds is moved. *)
safe_memmoveAll(m, dest, destsz, src, count) ==
    LET error == FirstFailing(<< <<dest = 0, EINVAL>>, <<src = 0, EINVAL>>,
                                 <<destsz > RSIZE_MAX, EINVAL>>, <<count > RSIZE_MAX, EINVAL>> >>)
    IN IF error # 0 THEN ZeroOnError(m, dest, destsz, error) ELSE Result(0, Move(m, dest, src, count))

safe_memmove(m, dest, destsz, src, count) ==
    LET error == FirstFailing(<< <<dest = 0, EINVAL>>, <<src = 0, EINVAL>>,
                                 <<destsz > RSIZE_MAX, EINVAL>>, <<count > RSIZE_MAX, EINVAL>>,
                                 <<count > destsz, ERANGE>> >>)
    IN IF error # 0 THEN ZeroOnError(m, dest, destsz, error) ELSE Result(0, Move(m, dest, src, count))

safe_memcpy(m, dest, destsz, src, count) ==
    LET error == FirstFailing(<< <<dest = 0, EINVAL>>, <<src = 0, EINVAL>>,
                                 <<destsz > RSIZE_MAX, EINVAL>>, <<count > RSIZE_MAX, EINVAL>>,
                                 <<count > destsz, ERANGE>>,
                                 <<memory_regions_overlap(dest, destsz, src, count), EINVAL>> >>)
    IN IF error # 0 THEN ZeroOnError(m, dest, destsz, error) ELSE Result(0, Move(m, dest, src, count))

(* The bytes up to and with the first c, at most count of them. *)
UpTo(m, src, c, count) ==
    LET found == {i \in 0 .. count - 1 : src + i \in DOMAIN m /\ m[src + i] = c}
    IN IF found = {} THEN count ELSE Min(found) + 1

(* The loop of a copy, one byte at a time: order is the sequence of offsets. *)
CopyLoop(m, dest, src, order) ==
    LET step[i \in 0 .. Len(order)] ==
            IF i = 0 THEN m ELSE [step[i - 1] EXCEPT ![dest + order[i]] = step[i - 1][src + order[i]]]
    IN step[Len(order)]

Forward(n)  == [i \in 1 .. n |-> i - 1]
Backward(n) == [i \in 1 .. n |-> n - i]

safe_memccpy(m, dest, destsz, src, c, count) ==
    LET error == FirstFailing(<< <<dest = 0, EINVAL>>, <<src = 0, EINVAL>>,
                                 <<destsz > RSIZE_MAX, ERANGE>>, <<count > RSIZE_MAX, ERANGE>>,
                                 <<count > destsz, ERANGE>>,
                                 <<(src <= dest /\ src + count > dest) \/ (dest <= src /\ dest + count > src),
                                   EINVAL>> >>)
    IN IF error # 0
       THEN ZeroOnError(m, dest, destsz, error)
       ELSE Result(0, CopyLoop(m, dest, src, Forward(UpTo(m, src, c, count))))

(* The comparison with c reads the source after the byte has been written,      *)
(* which is where a forward copy within one buffer could go wrong.  Equal       *)
(* pointers leave the destination as it is; the zeroing of the other errors     *)
(* is guarded by destsz < RSIZE_MAX.                                            *)
safe_memcmove(m, dest, destsz, src, c, count) ==
    LET error == FirstFailing(<< <<dest = 0, EINVAL>>, <<src = 0, EINVAL>>,
                                 <<destsz > RSIZE_MAX, ERANGE>>, <<count > RSIZE_MAX, ERANGE>>,
                                 <<count > destsz, ERANGE>> >>)
        n     == UpTo(m, src, c, count)
    IN CASE error # 0 /\ destsz < RSIZE_MAX  -> ZeroOnError(m, dest, destsz, error)
         [] error # 0 /\ destsz >= RSIZE_MAX -> Result(error, m)
         [] error = 0 /\ dest = src          -> Result(EINVAL, m)
         [] error = 0 /\ dest # src          ->
                Result(0, CopyLoop(m, dest, src, IF dest < src THEN Forward(n) ELSE Backward(n)))

(* --------------------------------------------------------------- strings *)

safe_strnlen(m, string, n) ==
    LET nul == {i \in 0 .. n - 1 : string + i \in DOMAIN m /\ m[string + i] = 0}
    IN IF string = 0 THEN 0 ELSE IF nul = {} THEN n ELSE Min(nul)

(* What a refused call leaves: an empty destination, when there is one. *)
Refused(m, dest, destsz, error) ==
    Result(error, IF dest # 0 /\ destsz \in 1 .. RSIZE_MAX THEN [m EXCEPT ![dest] = 0] ELSE m)

(* The last assignment of the string functions: the terminator. *)
Terminated(done, last) == [done EXCEPT !.mem[last] = 0]

PointerChecks(dest, destsz, src) ==
    << <<dest = 0, EINVAL>>, <<src = 0, EINVAL>>, <<destsz = 0, ERANGE>>, <<destsz > RSIZE_MAX, ERANGE>> >>

safe_strcpy(m, dest, destsz, src) ==
    LET srclen == safe_strnlen(m, src, RSIZE_MAX)
        error  == FirstFailing(PointerChecks(dest, destsz, src) \o
                               << <<destsz <= srclen, ERANGE>>,
                                  <<memory_regions_overlap(dest, destsz, src, srclen), EINVAL>> >>)
    IN IF error # 0 THEN Refused(m, dest, destsz, error)
       ELSE Terminated(safe_memccpy(m, dest, destsz, src, 0, srclen + 1), dest + srclen)

safe_strmove(m, dest, destsz, src) ==
    LET srclen == safe_strnlen(m, src, RSIZE_MAX)
        error  == FirstFailing(PointerChecks(dest, destsz, src) \o << <<destsz <= srclen, ERANGE>> >>)
    IN IF error # 0 THEN Refused(m, dest, destsz, error)
       ELSE Terminated(safe_memcmove(m, dest, destsz, src, 0, srclen + 1), dest + srclen)

CountedChecks(dest, destsz, src, count, srclen) ==
    PointerChecks(dest, destsz, src) \o
    << <<count > RSIZE_MAX, ERANGE>>, <<count >= destsz /\ destsz <= srclen, ERANGE>> >>

safe_strncpy(m, dest, destsz, src, count) ==
    LET srclen == safe_strnlen(m, src, count)
        error  == FirstFailing(CountedChecks(dest, destsz, src, count, srclen) \o
                               << <<memory_regions_overlap(dest, destsz, src, count), EINVAL>> >>)
    IN IF error # 0 THEN Refused(m, dest, destsz, error)
       ELSE Terminated(safe_memccpy(m, dest, destsz, src, 0, count),
                       dest + (IF srclen < count THEN srclen ELSE count))

safe_strnmove(m, dest, destsz, src, count) ==
    LET srclen == safe_strnlen(m, src, count)
        error  == FirstFailing(CountedChecks(dest, destsz, src, count, srclen))
    IN IF error # 0 THEN Refused(m, dest, destsz, error)
       ELSE Terminated(safe_memcmove(m, dest, destsz, src, 0, count),
                       dest + (IF srclen < count THEN srclen ELSE count))

(* memchr(dest, 0, destsz), 0 when there is no terminator. *)
DestNull(m, dest, destsz) ==
    LET nul == {a \in DOMAIN m : a \in dest .. dest + destsz - 1 /\ m[a] = 0}
    IN IF nul = {} THEN 0 ELSE Min(nul)

(* An append without a terminator in the destination leaves it as it is. *)
safe_strcat(m, dest, destsz, src) ==
    LET srclen   == safe_strnlen(m, src, RSIZE_MAX)
        destnull == DestNull(m, dest, destsz)
        room     == destsz - (destnull - dest)
        bad      == FirstFailing(PointerChecks(dest, destsz, src))
        error    == FirstFailing(<< <<room <= srclen, ERANGE>>,
                                    <<memory_regions_overlap(dest, destsz, src, srclen), EINVAL>> >>)
    IN IF bad # 0 THEN Refused(m, dest, destsz, bad)
       ELSE IF destnull = 0 THEN Result(EINVAL, m)
       ELSE IF error # 0 THEN Refused(m, dest, destsz, error)
       ELSE Terminated(safe_memccpy(m, destnull, room, src, 0, srclen), destnull + srclen)

safe_strcatmove(m, dest, destsz, src) ==
    LET srclen   == safe_strnlen(m, src, RSIZE_MAX)
        destnull == DestNull(m, dest, destsz)
        room     == destsz - (destnull - dest)
        bad      == FirstFailing(PointerChecks(dest, destsz, src))
    IN IF bad # 0 THEN Refused(m, dest, destsz, bad)
       ELSE IF destnull = 0 THEN Result(EINVAL, m)
       ELSE IF room <= srclen THEN Refused(m, dest, destsz, ERANGE)
       ELSE Terminated(safe_memcmove(m, destnull, room, src, 0, srclen + 1), destnull + srclen)

(* The source is scanned up to destsz, whatever the count. *)
safe_strncat(m, dest, destsz, src, count) ==
    LET srclen   == safe_strnlen(m, src, destsz)
        destnull == DestNull(m, dest, destsz)
        room     == destsz - (destnull - dest)
        bad      == FirstFailing(PointerChecks(dest, destsz, src))
        error    == FirstFailing(<< <<room <= srclen \/ room <= count, ERANGE>>,
                                    <<memory_regions_overlap(dest, destsz, src, count), EINVAL>> >>)
    IN IF bad # 0 THEN Refused(m, dest, destsz, bad)
       ELSE IF count = 0 \/ count > RSIZE_MAX THEN Result(ERANGE, m)
       ELSE IF destnull = 0 THEN Result(EINVAL, m)
       ELSE IF error # 0 THEN Refused(m, dest, destsz, error)
       ELSE Terminated(safe_memccpy(m, destnull, room, src, 0, count), destnull + count)

safe_strncatmove(m, dest, destsz, src, count) ==
    LET srclen   == safe_strnlen(m, src, destsz)
        destnull == DestNull(m, dest, destsz)
        room     == destsz - (destnull - dest)
        bad      == FirstFailing(PointerChecks(dest, destsz, src))
    IN IF bad # 0 THEN Refused(m, dest, destsz, bad)
       ELSE IF count = 0 \/ count > RSIZE_MAX THEN Result(ERANGE, m)
       ELSE IF destnull = 0 THEN Result(EINVAL, m)
       ELSE IF room <= srclen \/ room <= count THEN Refused(m, dest, destsz, ERANGE)
       ELSE Terminated(safe_memcmove(m, destnull, room, src, 0, count), destnull + count)

(* ------------------------------------------------------------ duplicates *)

Bytes(m, src, count) == [i \in 1 .. count |-> m[src + i - 1]]

Duplicate(error, dup) == [error |-> error, dup |-> dup]

(* hasDup: the out pointer is given; memory: safe_calloc succeeds.  An empty    *)
(* string is refused, a duplicate ends with a terminator.                       *)
safe_strdup(m, hasDup, src, memory) ==
    LET srclen == safe_strnlen(m, src, RSIZE_MAX)
        error  == FirstFailing(<< <<~hasDup, EINVAL>>, <<src = 0, EINVAL>>,
                                  <<srclen = RSIZE_MAX, EINVAL>>, <<srclen = 0, EINVAL>>, <<~memory, ENOMEM>> >>)
    IN IF error # 0 THEN Duplicate(error, <<>>) ELSE Duplicate(0, Append(Bytes(m, src, srclen), 0))

(* Copies size bytes, a terminator of the source among them or not. *)
safe_strndup(m, hasDup, src, size, memory) ==
    LET error == FirstFailing(<< <<~hasDup, EINVAL>>, <<src = 0, EINVAL>>,
                                 <<size > RSIZE_MAX, EINVAL>>, <<size = 0, EINVAL>>, <<~memory, ENOMEM>> >>)
    IN IF error # 0 THEN Duplicate(error, <<>>) ELSE Duplicate(0, Append(Bytes(m, src, size), 0))

(* The replacement for a C library without strndup: without a terminator in     *)
(* the first size bytes the length it takes is zero.                            *)
strndup(m, src, size) ==
    LET nul    == {i \in 0 .. size - 1 : m[src + i] = 0}
        length == IF nul = {} THEN 0 ELSE Min(nul)
    IN Append(Bytes(m, src, length), 0)
===============================================================================
