------------------------------- MODULE BitManip -------------------------------
(* The bit and byte operations of bit_manip.h and bit_manip.c.  An unsigned     *)
(* value of width w is the set of the positions of its one bits, a subset of    *)
(* 0 .. w - 1: & is intersection, | is union, ~ is the complement and a shift   *)
(* moves the positions and drops those that leave the width.  The width of a    *)
(* byte is a constant; a word, a dword and a qword are 2, 4 and 8 bytes.        *)
EXTENDS ErrorCodes

CONSTANTS
    BITSPERBYTE,    \* the bits of a byte: 8 in the code
    UINT_RANGE      \* the number of values of an unsigned int

ASSUME BitManipAssumption ==
    /\ BITSPERBYTE \in Nat \ {0} /\ BITSPERBYTE % 2 = 0
    /\ UINT_RANGE \in Nat \ {0} /\ UINT_RANGE % (8 * BITSPERBYTE) = 0

U8  == BITSPERBYTE
U16 == 2 * BITSPERBYTE
U32 == 4 * BITSPERBYTE
U64 == 8 * BITSPERBYTE
NIBBLE == BITSPERBYTE \div 2

Bits(w) == 0 .. w - 1
Not(w, v) == Bits(w) \ v
Shl(w, v, n) == {i + n : i \in v} \cap Bits(w)
Shr(v, n) == {i - n : i \in {j \in v : j >= n}}

(* The mask of n bits from position at: the constants 0xFF, 0xFF00 ... *)
Mask(at, n) == at .. at + n - 1

(* v & mask, shifted down to position 0. *)
Field(v, at, n) == Shr(v \cap Mask(at, n), at)

(* value - 1: the lowest one bit becomes zero and the bits below it one. *)
MinusOne(w, v) ==
    IF v = {} THEN Bits(w) ELSE (v \ {Min(v)}) \cup {i \in Bits(w) : i < Min(v)}

(* ------------------------------------------------- parts of a value *)

get_DWord0(v) == Field(v, 0, U32)
get_DWord1(v) == Field(v, U32, U32)
M_Word(v, n)   == Field(v, n * U16, U16)
M_Byte(v, n)   == Field(v, n * U8, U8)
M_Nibble(v, n) == Field(v, n * NIBBLE, NIBBLE)
M_ByteN(n)     == Shl(U64, Bits(U8), n * U8)

nibbles_To_Byte(upper, lower) ==
    Shl(U8, upper \cap Bits(NIBBLE), NIBBLE) \cup (lower \cap Bits(NIBBLE))

bytes_To_Uint16(msb, lsb) == Shl(U16, msb, U8) \cup lsb

bytes_To_Uint32(msb, byte2, byte1, lsb) ==
    Shl(U32, msb, 3 * U8) \cup Shl(U32, byte2, 2 * U8) \cup Shl(U32, byte1, U8) \cup lsb

bytes_To_Uint64(b) == UNION {Shl(U64, b[n], n * U8) : n \in 0 .. 7}

words_To_Uint32(msw, lsw) == Shl(U32, msw, U16) \cup lsw

(* The macro names its first argument the most significant word and passes it   *)
(* as the least significant one.                                                *)
M_WordsTo4ByteValue(w1, w0) == words_To_Uint32(w0, w1)

words_To_Uint64(msw, word2, word1, lsw) ==
    Shl(U64, msw, 3 * U16) \cup Shl(U64, word2, 2 * U16) \cup Shl(U64, word1, U16) \cup lsw

dwords_To_Uint64(msdw, lsdw) == Shl(U64, msdw, U32) \cup lsdw

(* --------------------------------------------------------- bit ranges *)

(* A range of bits of a generic integer: the value and the errno it leaves. *)
Ranged(errno, v) == [errno |-> errno, value |-> v]

is_generic_int_valid(size) == size \in {1, 2, 4, 8}

gen_bit_width(msb, lsb) == msb - lsb + 1

gen_safe_mask(w, width) == IF width >= w THEN Bits(w) ELSE Bits(width)

gen_extract(w, v, msb, lsb) ==
    LET width == gen_bit_width(msb, lsb)
    IN CASE width >= w /\ lsb = 0                 -> v
         [] ~(width >= w /\ lsb = 0) /\ lsb >= w  -> {}
         [] ~(width >= w /\ lsb = 0) /\ lsb < w   -> Shr(v, lsb) \cap gen_safe_mask(w, width)

(* The ranges of a value of w bits, for an output of outputsize bytes: the      *)
(* output is never wider than the input.  A width of zero or of a wrapped       *)
(* around size_t (msb below lsb) is refused.                                    *)
gen_range(w, v, outputsize, msb, lsb) ==
    LET out   == IF outputsize * U8 < w THEN outputsize * U8 ELSE w
        width == gen_bit_width(msb, lsb)
    IN IF msb >= w \/ lsb >= w \/ width <= 0 \/ width > out
       THEN Ranged(ERANGE, {})
       ELSE Ranged(0, gen_extract(w, v, msb, lsb))

gen_8bit_range(v, msb, lsb)              == gen_range(U8, v, 1, msb, lsb)
gen_16bit_range(v, outputsize, msb, lsb) == gen_range(U16, v, outputsize, msb, lsb)
gen_32bit_range(v, outputsize, msb, lsb) == gen_range(U32, v, outputsize, msb, lsb)
gen_64bit_range(v, outputsize, msb, lsb) == gen_range(U64, v, outputsize, msb, lsb)

generic_Get_Bit_Range(size, v, outputsize, msb, lsb) ==
    IF ~is_generic_int_valid(size) THEN Ranged(EINVAL, {})
    ELSE IF msb >= U64 \/ lsb >= U64 THEN Ranged(ERANGE, {})
    ELSE CASE size = 1 -> gen_8bit_range(v, msb, lsb)
           [] size = 2 -> gen_16bit_range(v, outputsize, msb, lsb)
           [] size = 4 -> gen_32bit_range(v, outputsize, msb, lsb)
           [] size = 8 -> gen_64bit_range(v, outputsize, msb, lsb)

(* get_bit_range_uint8 ... get_32bit_range_uint64, and the signed ones: the     *)
(* signed functions return the same bits and do not extend the sign.            *)
get_bit_range_unsigned(size, v, outputsize, msb, lsb) == generic_Get_Bit_Range(size, v, outputsize, msb, lsb)
get_bit_range_signed(size, v, outputsize, msb, lsb)   == generic_Get_Bit_Range(size, v, outputsize, msb, lsb)

(* The size of the output of the macros is the smallest that holds the range. *)
OutputSize(msb, lsb) ==
    Min({s \in {1, 2, 4, 8} : gen_bit_width(msb, lsb) <= s * U8} \cup {8})

M_GETBITRANGE(v, msb, lsb) ==
    IF gen_bit_width(msb, lsb) > U64 THEN Ranged(0, Bits(U64))
    ELSE get_bit_range_unsigned(8, v, OutputSize(msb, lsb), msb, lsb)

M_IGETBITRANGE(v, msb, lsb) ==
    IF gen_bit_width(msb, lsb) > U64 THEN Ranged(0, Bits(U64 - 1))
    ELSE get_bit_range_signed(8, v, OutputSize(msb, lsb), msb, lsb)

(* ---------------------------------------------------------- single bits *)

M_BitN(w, n) == Shl(w, {0}, n)
SetBit(w, v, bitNum)   == v \cup M_BitN(w, bitNum)
ClearBit(w, v, bitNum) == v \cap Not(w, M_BitN(w, bitNum))

(* ---------------------------------------------------------------- swaps *)

n_swap_8(v) == Shl(U8, v \cap Bits(NIBBLE), NIBBLE) \cup Field(v, NIBBLE, NIBBLE)

b_swap_16(v) == Shl(U16, v \cap Mask(0, U8), U8) \cup Shr(v \cap Mask(U8, U8), U8)

(* The built-in reverses the bytes.  In the expression of the fallback the      *)
(* shifts bind tighter than the masks, so that it shifts the masks and not the  *)
(* value.                                                                       *)
b_swap_32(build, v) ==
    IF build = "builtin" THEN bytes_To_Uint32(M_Byte(v, 0), M_Byte(v, 1), M_Byte(v, 2), M_Byte(v, 3))
    ELSE (v \cap Shr(Mask(3 * U8, U8), 3 * U8)) \cup (v \cap Shr(Mask(2 * U8, U8), U8))
         \cup (v \cap Shl(U32, Mask(U8, U8), U8)) \cup (v \cap Shl(U32, Mask(0, U8), 3 * U8))

b_swap_64(build, v) ==
    IF build = "builtin" THEN bytes_To_Uint64([n \in 0 .. 7 |-> M_Byte(v, 7 - n)])
    ELSE UNION {v \cap Shr(Mask(n * U8, U8), (2 * n - 7) * U8) : n \in 4 .. 7}
         \cup UNION {v \cap Shl(U64, Mask(n * U8, U8), (7 - 2 * n) * U8) : n \in 0 .. 3}

byte_Swap_Int32(v) ==
    LET words == Shl(U32, v \cap Mask(0, U16), U16) \cup Shr(v \cap Mask(U16, U16), U16)
        low   == Mask(0, U8) \cup Mask(U16, U8)
        high  == Mask(U8, U8) \cup Mask(U16 + U8, U8)
    IN Shl(U32, words \cap low, U8) \cup Shr(words \cap high, U8)

w_swap_32(v) == Shl(U32, v \cap Mask(0, U16), U16) \cup Shr(v \cap Mask(U16, U16), U16)

double_Word_Swap_64(v) == Shl(U64, v \cap Mask(0, U32), U32) \cup Shr(v \cap Mask(U32, U32), U32)

word_Swap_64(v) ==
    LET dwords == double_Word_Swap_64(v)
        low    == Mask(0, U16) \cup Mask(U32, U16)
        high   == Mask(U16, U16) \cup Mask(U32 + U16, U16)
    IN Shl(U64, dwords \cap low, U16) \cup Shr(dwords \cap high, U16)

(* An in-place swap leaves a NULL pointer alone. *)
nibble_Swap(isNull, v)           == IF isNull THEN v ELSE n_swap_8(v)
byte_Swap_16(isNull, v)          == IF isNull THEN v ELSE b_swap_16(v)
byte_Swap_32(isNull, build, v)   == IF isNull THEN v ELSE b_swap_32(build, v)
byte_Swap_64(isNull, build, v)   == IF isNull THEN v ELSE b_swap_64(build, v)

b_swap(build, w, v) ==
    CASE w = U16 -> b_swap_16(v) [] w = U32 -> b_swap_32(build, v) [] w = U64 -> b_swap_64(build, v)

be_to_host(bigEndian, build, w, v) == IF bigEndian THEN v ELSE b_swap(build, w, v)
host_to_be(bigEndian, build, w, v) == IF bigEndian THEN v ELSE b_swap(build, w, v)
host_to_le(bigEndian, build, w, v) == IF bigEndian THEN b_swap(build, w, v) ELSE v
le_to_host(bigEndian, build, w, v) == IF bigEndian THEN b_swap(build, w, v) ELSE v
big_To_Little_Endian(isNull, bigEndian, build, w, v) ==
    IF isNull THEN v ELSE be_to_host(bigEndian, build, w, v)

(* ------------------------------------------------------- bytes of a buffer *)

get_Bytes_Abs_Range(msb, lsb) == IF msb > lsb THEN msb - lsb ELSE lsb - msb

(* The offsets are compared with the length by >, so that an offset equal to    *)
(* the length is read: the byte there is beyond.  The output is not cleared     *)
(* before the bytes are shifted in.                                             *)
get_Bytes_To_64(data, msb, lsb, out, beyond) ==
    LET len   == Len(data)
        n     == get_Bytes_Abs_Range(msb, lsb) + 1
        reads == IF n < len THEN n ELSE len
        at(i) == IF lsb <= msb THEN msb - i ELSE msb + i
        byte(i) == IF at(i) < len THEN data[at(i) + 1] ELSE beyond
        into[i \in 0 .. reads] ==
            IF i = 0 THEN out ELSE Shl(U64, into[i - 1], U8) \cup byte(i - 1)
    IN IF msb > len \/ lsb > len \/ get_Bytes_Abs_Range(msb, lsb) > 8
       THEN [ok |-> FALSE, out |-> out, read |-> {}]
       ELSE [ok |-> TRUE, out |-> into[reads], read |-> {at(i) : i \in 0 .. reads - 1}]

(* The narrower readers keep the low bits of a qword that starts at zero. *)
Narrowed(w, limit, data, msb, lsb, out, beyond) ==
    LET wide == get_Bytes_To_64(data, msb, lsb, {}, beyond)
    IN IF get_Bytes_Abs_Range(msb, lsb) <= limit /\ wide.ok
       THEN [wide EXCEPT !.out = @ \cap Bits(w)]
       ELSE [ok |-> FALSE, out |-> out, read |-> {}]

get_Bytes_To_32(data, msb, lsb, out, beyond) == Narrowed(U32, 4, data, msb, lsb, out, beyond)
get_Bytes_To_16(data, msb, lsb, out, beyond) == Narrowed(U16, 2, data, msb, lsb, out, beyond)

(* ------------------------------------------------- the functions of stdbit.h *)

(* The fallback shifts left until the most significant bit is set, and counts   *)
(* no zero at all in a value of zero.                                           *)
count_leading_zeros(build, w, v) ==
    IF v = {} THEN (IF build = "builtin" THEN w ELSE 0)
    ELSE Min({n \in Bits(w) : w - 1 \in Shl(w, v, n)})

count_leading_ones(build, w, v) == count_leading_zeros(build, w, Not(w, v))

count_trailing_zeros(build, w, v) ==
    IF v = {} THEN (IF build = "builtin" THEN w ELSE 0)
    ELSE Min({n \in Bits(w) : 0 \in Shr(v, n)})

count_trailing_ones(build, w, v) == count_trailing_zeros(build, w, Not(w, v))

(* The mask moves down from the most significant bit. *)
first_leading_one(w, v) ==
    IF v = {} THEN 0 ELSE Min({pos \in 1 .. w : w - pos \in v})

first_leading_zero(w, v) == first_leading_one(w, Not(w, v))

(* The bits are added in pairs, the sums of neighbours added, until one field   *)
(* as wide as the value holds the number of ones.                               *)
count_ones(w, v) ==
    LET sum[n \in 1 .. w] ==
            IF n = 1 THEN [lo \in Bits(w) |-> IF lo \in v THEN 1 ELSE 0]
            ELSE [lo \in 0 .. w - n |-> sum[n \div 2][lo] + sum[n - (n \div 2)][lo + (n \div 2)]]
    IN sum[w][0]

count_zeros(w, v) == count_ones(w, Not(w, v))

has_single_bit(w, v) == v # {} /\ v \cap MinusOne(w, v) = {}

get_req_bit_width(build, w, v) == w - (IF v = {} THEN w ELSE count_leading_zeros(build, w, v))

bit_floor(build, w, v) ==
    IF v = {} THEN {} ELSE Shl(w, {0}, w - 1 - count_leading_zeros(build, w, v))

(* 2 << n: past the highest power of two of the width the bit is lost. *)
bit_ceil(build, w, v) ==
    IF v \in {{}, {0}} THEN {0}
    ELSE Shl(w, {1}, w - 1 - count_leading_zeros(build, w, MinusOne(w, v)))

(* (~count) + 1: the negative of the count in an unsigned int. *)
Negative(count) == (UINT_RANGE - count) % UINT_RANGE

(* Mutant: the count is not reduced to the width. *)
rotate_leftFar(w, v, count) == Shl(w, v, count) \cup Shr(v, w - count)

rotate_left(w, v, count)  == Shl(w, v, count % w) \cup Shr(v, Negative(count) % w)
rotate_right(w, v, count) == Shr(v, count % w) \cup Shl(w, v, Negative(count) % w)
===============================================================================
