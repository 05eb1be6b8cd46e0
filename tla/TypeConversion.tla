----------------------------- MODULE TypeConversion -----------------------------
(* type_conversion.c and unit_conversion.c: integers to size_t, bytes to the    *)
(* unit they are shown in, and temperatures.                                    *)
EXTENDS MathUtils

CONSTANTS
    SIZE_WIDTH,     \* the width of size_t
    CHAR_SIGNED,    \* whether char is signed
    THOUSAND,       \* the factor between metric units: 1000 in the code
    KIBI,           \* the factor between capacity units: 1024 in the code
    LAST_UNIT       \* the index of the largest unit: 8, yotta and yobi

ASSUME TypeConversionAssumption ==
    /\ SIZE_WIDTH \in {U16, U32, U64} /\ CHAR_SIGNED \in BOOLEAN
    /\ THOUSAND \in Nat \ {0, 1} /\ KIBI \in Nat \ {0, 1} /\ LAST_UNIT \in Nat

SizeMax == (2 ^ SIZE_WIDTH) - 1

Answer(errno, value) == [errno |-> errno, value |-> value]

(* The test against SIZE_MAX is compiled in where the type reaches beyond it.   *)
ToSize(type, val) ==
    IF val < 0 THEN Answer(ERANGE, 0)
    ELSE IF val <= SizeMax THEN Answer(0, val)
    ELSE Answer(ERANGE, SizeMax)

int8_to_sizet(val)       == ToSize(Type(TRUE, U8), val)
uint8_to_sizet(val)      == ToSize(Type(FALSE, U8), val)
int16_to_sizet(val)      == ToSize(Type(TRUE, U16), val)
uint16_to_sizet(val)     == ToSize(Type(FALSE, U16), val)
int32_to_sizet(val)      == ToSize(Type(TRUE, U32), val)
uint32_to_sizet(val)     == ToSize(Type(FALSE, U32), val)
int64_to_sizet(val)      == ToSize(Type(TRUE, U64), val)
uint64_to_sizet(val)     == ToSize(Type(FALSE, U64), val)
char_to_sizet(val)       == ToSize(Type(CHAR_SIGNED, U8), val)
schar_to_sizet(val)      == ToSize(Type(TRUE, U8), val)
uchar_to_sizet(val)      == ToSize(Type(FALSE, U8), val)
short_to_sizet(val)      == ToSize(Type(TRUE, U16), val)
ushort_to_sizet(val)     == ToSize(Type(FALSE, U16), val)
int_to_sizet(val)        == ToSize(Type(TRUE, U32), val)
uint_to_sizet(val)       == ToSize(Type(FALSE, U32), val)
long_to_sizet(val)       == ToSize(Type(TRUE, LONG_WIDTH), val)
ulong_to_sizet(val)      == ToSize(Type(FALSE, LONG_WIDTH), val)
longlong_to_sizet(val)   == ToSize(Type(TRUE, U64), val)
ulonglong_to_sizet(val)  == ToSize(Type(FALSE, U64), val)

is_size_t_max(val) == val = SizeMax

(* A float of 4 bytes as fraction * 2^exponent: the leading one is added for    *)
(* every exponent, zero and the largest ones included.                          *)
get_Decimal_From_4_byte_Float(negative, exponentBits, mantissaBits) ==
    [sign |-> IF negative THEN 0 - 1 ELSE 1, fraction |-> (2 ^ 23) + mantissaBits,
     exponent |-> exponentBits - 127 - 23]

(* The last byte is the most significant one. *)
convert_128bit_to_double(pData) ==
    LET sum[i \in 0 .. Len(pData)] ==
            IF i = 0 THEN 0 ELSE sum[i - 1] * 256 + pData[Len(pData) - i + 1]
    IN sum[Len(pData)]

(* ------------------------------------------------------------------ units *)

(* The value is a fraction numerator / Worths[unit] after the divisions.         *)
Unit(ret, unit) == [ret |-> ret, unit |-> unit]

(* What one of each unit is in the smallest one. *)
Worths(factor) ==
    LET worth[n \in 0 .. LAST_UNIT] == IF n = 0 THEN 1 ELSE factor * worth[n - 1] IN worth

(* How many times the value is divided: while it reaches the factor and there   *)
(* is a larger unit.                                                            *)
Divisions(value, factor) ==
    LET smaller == {n \in 0 .. LAST_UNIT : n = LAST_UNIT \/ value < Worths(factor)[n + 1]} IN Min(smaller)

(* null: one of the pointers is; copied: the name of the unit could be copied. *)
UnitConvert(null, value, factor, copied) ==
    IF null THEN Unit("BAD_PARAMETER", 0)
    ELSE Unit(IF copied THEN "SUCCESS" ELSE "MEMORY_FAILURE", Divisions(value, factor))

metric_Unit_Convert(null, value, copied)   == UnitConvert(null, value, THOUSAND, copied)
capacity_Unit_Convert(null, value, copied) == UnitConvert(null, value, KIBI, copied)

(* ----------------------------------------------------------- temperatures *)

Int16(x) == ((x + 32768) % 65536) - 32768

(* Mutant: the remainder of a negative value is not looked at. *)
NudgedUp(value, remainder, up, towards) == IF remainder >= up THEN value + 1 ELSE value

Nudged(value, remainder, up, towards) ==
    IF remainder >= up /\ towards >= 0 THEN value + 1
    ELSE IF remainder <= 0 - up /\ towards < 0 THEN value - 1 ELSE value

celsius_To_Fahrenheit(celsius) ==
    LET fahrenheit == Int16(CDiv(celsius * 9, 5))
    IN IF celsius < 0 - 273 THEN Answer(ERANGE, 0)
       ELSE Answer(0, Int16(Nudged(fahrenheit, CRem(celsius * 9, 5), 3, fahrenheit) + 32))

(* Half of the divisor 9 is taken to be 5 / 2. *)
fahrenheit_To_celsius(fahrenheit) ==
    LET celsius == Int16(CDiv((fahrenheit - 32) * 5, 9))
    IN IF fahrenheit < 0 - 459 THEN Answer(ERANGE, 0)
       ELSE Answer(0, Nudged(celsius, CRem((fahrenheit - 32) * 5, 9), 2, celsius))

celsius_To_Kelvin(celsius) ==
    IF celsius < 0 - 273 THEN Answer(ERANGE, 0) ELSE Answer(0, Int16(celsius + 273))

fahrenheit_To_Kelvin(fahrenheit) ==
    IF fahrenheit < 0 - 459 THEN Answer(ERANGE, 0)
    ELSE Answer(0, Int16(fahrenheit_To_celsius(fahrenheit).value + 273))

kelvin_To_Celsius(kelvin) ==
    IF kelvin < 0 THEN Answer(ERANGE, 0 - 273) ELSE Answer(0, kelvin - 273)

(* The direction of the rounding is that of the result with the 32 added. *)
kelvin_To_Fahrenheit(kelvin) ==
    LET celsius    == kelvin - 273
        fahrenheit == Int16(CDiv(celsius * 9, 5) + 32)
    IN IF kelvin < 0 THEN Answer(ERANGE, 0 - 459)
       ELSE Answer(0, Nudged(fahrenheit, CRem(celsius * 9, 5), 3, fahrenheit))
=============================================================================
