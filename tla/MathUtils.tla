------------------------------- MODULE MathUtils -------------------------------
(* The roundings and powers of two of math_utils.h.  Values are integers of a   *)
(* type [signed, width]; a cast to a type keeps the value modulo 2^width.  The  *)
(* assertions are those of a build with NDEBUG: the functions return.           *)
EXTENDS BitManip

CONSTANT LONG_WIDTH     \* the width of long: that of int or of long long

ASSUME MathUtilsAssumption == LONG_WIDTH \in {U32, U64}

Type(signed, width) == [signed |-> signed, width |-> width]

(* M_STATIC_CAST(type, x) *)
Cast(type, x) ==
    LET range == 2 ^ type.width
        half  == range \div 2
    IN IF type.signed THEN (((x + half) % range) - half) ELSE x % range

Values(type) ==
    IF type.signed THEN 0 - (2 ^ (type.width - 1)) .. (2 ^ (type.width - 1)) - 1 ELSE 0 .. (2 ^ type.width) - 1

(* / and % of C truncate towards zero; the divisor is positive. *)
CDiv(a, b) == IF a >= 0 THEN a \div b ELSE 0 - ((0 - a) \div b)
CRem(a, b) == a - b * CDiv(a, b)

M_Min(a, b) == IF a < b THEN a ELSE b
M_Max(a, b) == IF a > b THEN a ELSE b
M_2sCOMPLEMENT(type, val) == Cast(type, ((0 - val) - 1) + 1)

(* --------------------------------------------- any multiple: _generic *)

UnsignedUp(value, roundto) ==
    LET rem == value % roundto IN IF rem # 0 THEN value + roundto - rem ELSE value

UnsignedDown(value, roundto) == value - (value % roundto)

(* Mutant: negative values are taken away from zero. *)
SignedUpAway(value, roundto) ==
    LET div == CDiv(value, roundto)
    IN IF CRem(value, roundto) = 0 THEN value
       ELSE IF value > 0 THEN (div + 1) * roundto ELSE (div - 1) * roundto

SignedUp(value, roundto) ==
    LET div == CDiv(value, roundto)
    IN IF CRem(value, roundto) = 0 THEN value
       ELSE IF value > 0 THEN (div + 1) * roundto ELSE div * roundto

(* The functions of the fixed width types. *)
SignedDownFixed(value, roundto) ==
    LET div == CDiv(value, roundto)
    IN IF CRem(value, roundto) = 0 THEN value
       ELSE IF value < 0 THEN (div - 1) * roundto ELSE div * roundto

(* The functions of the types of the language: the remainder of a negative      *)
(* value is negative already when roundto - rem is taken.                       *)
SignedDownNative(value, roundto) ==
    LET rem == CRem(value, roundto)
    IN IF rem = 0 THEN value ELSE IF value < 0 THEN value - (roundto - rem) ELSE value - rem

(* A multiple that is not positive leaves the value as it is. *)
RoundUp(type, value, roundto) ==
    IF roundto <= 0 THEN value
    ELSE Cast(type, IF type.signed THEN SignedUp(value, roundto) ELSE UnsignedUp(value, roundto))

RoundDownNative(type, value, roundto) ==
    IF roundto <= 0 THEN value
    ELSE Cast(type, IF type.signed THEN SignedDownNative(value, roundto) ELSE UnsignedDown(value, roundto))

RoundDownFixed(type, value, roundto) ==
    IF roundto <= 0 THEN value
    ELSE Cast(type, IF type.signed THEN SignedDownFixed(value, roundto) ELSE UnsignedDown(value, roundto))

NativeGeneric(type, down, value, roundto) ==
    IF down THEN RoundDownNative(type, value, roundto) ELSE RoundUp(type, value, roundto)

(* Each stands for the four functions of its type: signed or not, up or down. *)
char_round_generic(signed, down, value, roundto)      == NativeGeneric(Type(signed, U8), down, value, roundto)
short_round_generic(signed, down, value, roundto)     == NativeGeneric(Type(signed, U16), down, value, roundto)
int_round_generic(signed, down, value, roundto)       == NativeGeneric(Type(signed, U32), down, value, roundto)
long_round_generic(signed, down, value, roundto)      == NativeGeneric(Type(signed, LONG_WIDTH), down, value, roundto)
long_long_round_generic(signed, down, value, roundto) == NativeGeneric(Type(signed, U64), down, value, roundto)

(* uint8_t, int8_t; uint16_t ... int64_t: up and down. *)
int8_round_up_generic(signed, value, roundto)   == RoundUp(Type(signed, U8), value, roundto)
fixed_round_up_generic(type, value, roundto)    == RoundUp(type, value, roundto)
fixed_round_down_generic(type, value, roundto)  == RoundDownFixed(type, value, roundto)

(* ------------------------------------------ powers of two: _power2 *)

(* x & ~(r - 1) for a power of two r: the bits below it are cleared. *)
ClearBelow(x, r) == x - (x % r)

(* The signed functions work on the bits as an unsigned value and cast back. *)
Power2Up(type, value, roundto) ==
    LET bits == Type(FALSE, type.width)
    IN Cast(type, ClearBelow(Cast(bits, Cast(bits, value) + roundto - 1), roundto))

Power2Down(type, value, roundto) ==
    Cast(type, ClearBelow(Cast(Type(FALSE, type.width), value), roundto))

Power2(type, down, value, roundto) ==
    IF down THEN Power2Down(type, value, roundto) ELSE Power2Up(type, value, roundto)

fixed_round_up_power2(type, value, roundto)          == Power2Up(type, value, roundto)
fixed_round_down_power2(type, value, roundto)        == Power2Down(type, value, roundto)
char_round_power2(signed, down, value, roundto)      == Power2(Type(signed, U8), down, value, roundto)
short_round_power2(signed, down, value, roundto)     == Power2(Type(signed, U16), down, value, roundto)
int_round_power2(signed, down, value, roundto)       == Power2(Type(signed, U32), down, value, roundto)
long_round_power2(signed, down, value, roundto)      == Power2(Type(signed, LONG_WIDTH), down, value, roundto)
long_long_round_power2(signed, down, value, roundto) == Power2(Type(signed, U64), down, value, roundto)

(* ------------------------------------------------------------- the macros *)

(* _Generic takes the function of the type of the value. *)
NativeByWidth(down, type, value, roundto) ==
    CASE type.width = U8         -> char_round_generic(type.signed, down, value, roundto)
      [] type.width = U16        -> short_round_generic(type.signed, down, value, roundto)
      [] type.width = U32        -> int_round_generic(type.signed, down, value, roundto)
      [] type.width = U64        -> long_long_round_generic(type.signed, down, value, roundto)

(* Three builds: C11 generic selection; typeof, through unsigned long long; and *)
(* the bare expression.                                                         *)
INT_ROUND_UP(build, type, value, roundto) ==
    CASE build = "generic"    -> NativeByWidth(FALSE, type, value, roundto)
      [] build = "typeof"     ->
            Cast(type, long_long_round_generic(FALSE, FALSE, Cast(Type(FALSE, U64), value), roundto))
      [] build = "expression" ->
            (IF CRem(value, roundto) # 0 THEN value + roundto - CRem(value, roundto) ELSE value)

INT_ROUND_DOWN(build, type, value, roundto) ==
    CASE build = "generic"    -> NativeByWidth(TRUE, type, value, roundto)
      [] build = "typeof"     ->
            Cast(type, long_long_round_generic(FALSE, TRUE, Cast(Type(FALSE, U64), value), roundto))
      [] build = "expression" -> value - CRem(value, roundto)

(* The bare expression & ~(roundto - 1) clears the same bits as the functions. *)
INT_ROUND_POWER2(type, down, value, roundto) == Power2(type, down, value, roundto)

power_Of_Two(exponent) == Shl(U64, {0}, exponent)

(* UINT64_MAX stands for an error. *)
log2_power2(build, p2val) == IF p2val = {} THEN -1 ELSE count_trailing_zeros(build, U64, p2val)
===============================================================================
