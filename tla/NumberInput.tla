------------------------------ MODULE NumberInput ------------------------------
(* Numbers given by a user: the string to number conversions of io_utils.c, the *)
(* integer inputs with an optional unit and the quantities made of them.  A     *)
(* string is its body, a sequence of codes (0 .. 15 the hex digits, then the    *)
(* letters x and h and the minus sign), followed by a unit in lower case.  A    *)
(* unit made of hex digits behind a 0x belongs to the body.  The generic        *)
(* selection of C11 is in use: a fixed width function is that of its type.      *)
EXTENDS TypeConversion, SequencesExt

X == 16
H == 17
MINUS == 18

Text(body, unit) == [body |-> body, unit |-> unit]

BASE_36_MAX == 36

Lowest(type)  == IF type.signed THEN 0 - (2 ^ (type.width - 1)) ELSE 0
Highest(type) == (2 ^ (IF type.signed THEN type.width - 1 ELSE type.width)) - 1

(* ------------------------------------------------ strtol and its family *)

DigitsOf(s, base) == SubSeq(s, 1, Min({n \in 0 .. Len(s) : n = Len(s) \/ s[n + 1] >= base}))

Number(s, base) == FoldLeft(LAMBDA v, d : v * base + d, 0, s)

(* strtol of the C library: how many codes it takes, its value and its errno. A *)
(* 0x counts where a hex digit follows; an unsigned type negates by wrapping.   *)
SignOf(body) == IF body # <<>> /\ body[1] = MINUS THEN 1 ELSE 0

PrefixOf(body, sign, base) ==
    IF base = 16 /\ Len(body) > sign + 2 /\ body[sign + 1] = 0 /\ body[sign + 2] = X /\ body[sign + 3] < 16 THEN 2 ELSE 0

ConvertedNumber(type, negative, taken, number) ==
    LET outside == number > (IF type.signed /\ negative THEN 0 - Lowest(type) ELSE Highest(type))
    IN [taken |-> taken, errno |-> IF outside THEN ERANGE ELSE 0,
        value |-> IF ~outside THEN Cast(type, IF negative THEN 0 - number ELSE number)
                  ELSE IF type.signed /\ negative THEN Lowest(type) ELSE Highest(type)]

ConvertedDigits(type, negative, skipped, digits, base) ==
    ConvertedNumber(type, negative, IF digits = <<>> THEN 0 ELSE skipped + Len(digits), Number(digits, base))

ConvertedBehind(type, body, skipped, base) ==
    ConvertedDigits(type, SignOf(body) = 1, skipped, DigitsOf(SubSeq(body, skipped + 1, Len(body)), base), base)

strto(type, body, base) == ConvertedBehind(type, body, SignOf(body) + PrefixOf(body, SignOf(body), base), base)

Parsed(errno, value, taken) == [errno |-> errno, value |-> value, taken |-> taken]

(* Nothing taken for a zero is an error too. *)
Checked(c) ==
    Parsed(IF c.errno # 0 THEN c.errno ELSE IF c.value = 0 /\ c.taken = 0 THEN EINVAL ELSE 0, c.value, c.taken)

(* null: the pointers that are NULL; a value is left alone until strtol is.     *)
safe_strto(type, null, body, base) ==
    LET error == FirstFailing(<< <<"value" \in null, EINVAL>>, <<"str" \in null, EINVAL>>,
                                 <<base > BASE_36_MAX, EINVAL>> >>)
    IN IF error # 0 THEN Parsed(error, 0, 0) ELSE Checked(strto(type, body, base))

LONG  == Type(TRUE, LONG_WIDTH)
ULONG == Type(FALSE, LONG_WIDTH)

safe_strtol_impl(null, body, base)    == safe_strto(LONG, null, body, base)
safe_strtoll_impl(null, body, base)   == safe_strto(Type(TRUE, U64), null, body, base)
safe_strtoul_impl(null, body, base)   == safe_strto(ULONG, null, body, base)
safe_strtoull_impl(null, body, base)  == safe_strto(Type(FALSE, U64), null, body, base)
safe_strtoimax_impl(null, body, base) == safe_strto(Type(TRUE, U64), null, body, base)
safe_strtoumax_impl(null, body, base) == safe_strto(Type(FALSE, U64), null, body, base)

(* The whole string has to be the number.  An error of strtol leaves what       *)
(* strtol gave; safe_atoi leaves its value alone then.                          *)
Whole(parsed, text) ==
    IF parsed.errno = 0 /\ (parsed.taken < Len(text.body) \/ text.unit # "")
    THEN Parsed(EINVAL, 0, parsed.taken) ELSE parsed

safe_atol_impl(null, text)  == Whole(safe_strtol_impl(null, text.body, 10), text)
safe_atoll_impl(null, text) == Whole(safe_strtoll_impl(null, text.body, 10), text)

IntOf(parsed, text) ==
    IF parsed.errno # 0 THEN Parsed(parsed.errno, 0, parsed.taken)
    ELSE IF parsed.value \notin Lowest(Type(TRUE, U32)) .. Highest(Type(TRUE, U32)) THEN Parsed(ERANGE, 0, parsed.taken)
    ELSE Whole(parsed, text)
safe_atoi_impl(null, text) == IntOf(safe_strtol_impl(null, text.body, 10), text)

(* strtof, strtod and strtold: what the library gives is a number (its value    *)
(* zero or not), the codes it took and its errno.                               *)
safe_strtofloat(null, c) ==
    IF null \cap {"value", "str"} # {} THEN EINVAL
    ELSE IF c.errno # 0 THEN c.errno ELSE IF c.zero /\ c.taken = 0 THEN EINVAL ELSE 0

safe_strtof_impl(null, c)  == safe_strtofloat(null, c)
safe_strtod_impl(null, c)  == safe_strtofloat(null, c)
safe_strtold_impl(null, c) == safe_strtofloat(null, c)

safe_atof_impl(null, c, unit) ==
    IF safe_strtod_impl(null, c) = 0 /\ unit # "" THEN EINVAL ELSE safe_strtod_impl(null, c)

(* ---------------------------------------------------------------- units *)

is_Allowed_Datasize_Unit(unit) ==
    unit \in {"b", "kb", "kib", "mb", "mib", "gb", "gib", "tb", "tib", "blocks", "sectors", ""}
is_Allowed_Sector_Size_Unit(unit) == unit \in {"l", "p", "logical", "physical", ""}
is_Allowed_Time_Unit(unit)        == unit \in {"ns", "us", "ms", "s", "m", "h", ""}
is_Allowed_Power_Unit(unit)       == unit \in {"w", "mw", ""}
is_Allowed_Volts_Unit(unit)       == unit \in {"v", "mv", ""}
is_Allowed_Amps_Unit(unit)        == unit \in {"a", "ma", ""}
is_Allowed_Temperature_Unit(unit) == unit \in {"c", "f", "k", ""}

is_Allowed_Unit_For_Get_And_Validate_Input(unit, unittype) ==
    CASE unittype = "NONE"        -> unit = ""
      [] unittype = "DATASIZE"    -> is_Allowed_Datasize_Unit(unit)
      [] unittype = "SECTOR_TYPE" -> is_Allowed_Sector_Size_Unit(unit)
      [] unittype = "TIME"        -> is_Allowed_Time_Unit(unit)
      [] unittype = "POWER"       -> is_Allowed_Power_Unit(unit)
      [] unittype = "VOLTS"       -> is_Allowed_Volts_Unit(unit)
      [] unittype = "AMPS"        -> is_Allowed_Amps_Unit(unit)
      [] unittype = "TEMPERATURE" -> is_Allowed_Temperature_Unit(unit)

(* The base, 0 for a string that is refused.  With units there is no hex.       *)
get_Input_Str_Type(text, unittype) ==
    LET body     == text.body
        prefixed == Len(body) >= 2 /\ body[1] = 0 /\ body[2] = X
        suffixed == ~prefixed /\ body # <<>> /\ body[Len(body)] = H
        base     == IF prefixed \/ suffixed THEN 16 ELSE 10
        digits   == IF prefixed THEN SubSeq(body, 3, Len(body)) ELSE IF suffixed THEN Front(body) ELSE body
    IN IF unittype # "NONE"
       THEN IF DigitsOf(body, 10) = body /\ is_Allowed_Unit_For_Get_And_Validate_Input(text.unit, unittype)
            THEN 10 ELSE 0
       ELSE IF DigitsOf(digits, base) = digits /\ text.unit = "" THEN base ELSE 0

(* What an integer input returns and leaves: whether it wrote the output.       *)
Input(ok, written, value) == [ok |-> ok, written |-> written, value |-> value]
Nothing == Input(FALSE, FALSE, 0)

InputOf(parsed, complete) == Input(parsed.errno = 0 /\ complete, TRUE, parsed.value)

(* hasUnit: the caller wants the place of the unit. *)
IntegerInput(type, null, text, hasUnit, unittype) ==
    LET base == get_Input_Str_Type(text, unittype)
    IN IF null \cap {"str", "output"} # {} \/ base = 0 THEN Nothing
       ELSE InputOf(safe_strto(type, {}, text.body, base), hasUnit \/ unittype = "NONE")

get_And_Validate_Integer_Input_ULL(null, text, hasUnit, unittype) ==
    IntegerInput(Type(FALSE, U64), null, text, hasUnit, unittype)
get_And_Validate_Integer_Input_UL(null, text, hasUnit, unittype) == IntegerInput(ULONG, null, text, hasUnit, unittype)
get_And_Validate_Integer_Input_LL(null, text, hasUnit, unittype) ==
    IntegerInput(Type(TRUE, U64), null, text, hasUnit, unittype)
get_And_Validate_Integer_Input_L(null, text, hasUnit, unittype) == IntegerInput(LONG, null, text, hasUnit, unittype)

(* Mutant: one more than the largest value is let through. *)
NarrowByOne(wide, checked, cast) ==
    LET v == wide.value
    IN IF ~wide.ok THEN Nothing
       ELSE IF v > Highest(checked) + 1 THEN Input(FALSE, TRUE, Highest(checked))
       ELSE IF v < Lowest(checked) THEN Input(FALSE, TRUE, Lowest(checked))
       ELSE Input(TRUE, TRUE, Cast(cast, v))

(* A narrower type takes the value of a long.  Where the range is checked, what *)
(* is outside fails with the nearest value of the range.                        *)
Narrow(wide, checked, cast) ==
    LET v == wide.value
    IN IF ~wide.ok THEN Nothing
       ELSE IF v > Highest(checked) THEN Input(FALSE, TRUE, Highest(checked))
       ELSE IF v < Lowest(checked) THEN Input(FALSE, TRUE, Lowest(checked))
       ELSE Input(TRUE, TRUE, Cast(cast, v))

get_And_Validate_Integer_Input_UI(null, text, hasUnit, unittype) ==
    Narrow(get_And_Validate_Integer_Input_UL(null \ {"output"}, text, hasUnit, unittype),
           Type(FALSE, U32), Type(FALSE, U32))

(* The macros that guard the check are not those of limits.h: no check. *)
get_And_Validate_Integer_Input_US(null, text, hasUnit, unittype) ==
    Narrow(get_And_Validate_Integer_Input_UL(null \ {"output"}, text, hasUnit, unittype), ULONG, Type(FALSE, U16))
get_And_Validate_Integer_Input_UC(null, text, hasUnit, unittype) ==
    Narrow(get_And_Validate_Integer_Input_UL(null \ {"output"}, text, hasUnit, unittype),
           Type(FALSE, U8), Type(FALSE, U8))

(* The value of an int is cast to short. *)
get_And_Validate_Integer_Input_I(null, text, hasUnit, unittype) ==
    Narrow(get_And_Validate_Integer_Input_L(null \ {"output"}, text, hasUnit, unittype),
           Type(TRUE, U32), Type(TRUE, U16))
get_And_Validate_Integer_Input_S(null, text, hasUnit, unittype) ==
    Narrow(get_And_Validate_Integer_Input_L(null \ {"output"}, text, hasUnit, unittype), LONG, Type(TRUE, U16))
get_And_Validate_Integer_Input_C(null, text, hasUnit, unittype) ==
    Narrow(get_And_Validate_Integer_Input_L(null \ {"output"}, text, hasUnit, unittype),
           Type(CHAR_SIGNED, U8), Type(CHAR_SIGNED, U8))

get_And_Validate_Integer_Input_Uint64(null, text, hasUnit, unittype) ==
    IF LONG_WIDTH = U64 THEN get_And_Validate_Integer_Input_UL(null, text, hasUnit, unittype)
    ELSE get_And_Validate_Integer_Input_ULL(null, text, hasUnit, unittype)
get_And_Validate_Integer_Input_Int64(null, text, hasUnit, unittype) ==
    IF LONG_WIDTH = U64 THEN get_And_Validate_Integer_Input_L(null, text, hasUnit, unittype)
    ELSE get_And_Validate_Integer_Input_LL(null, text, hasUnit, unittype)
get_And_Validate_Integer_Input_Uint32(null, text, hasUnit, unittype) ==
    get_And_Validate_Integer_Input_UI(null, text, hasUnit, unittype)
get_And_Validate_Integer_Input_Int32(null, text, hasUnit, unittype) ==
    get_And_Validate_Integer_Input_I(null, text, hasUnit, unittype)

get_And_Validate_Integer_Input_Uint16(null, text, hasUnit, unittype) ==
    IF null # {} THEN Nothing
    ELSE Narrow(get_And_Validate_Integer_Input_Uint32({}, text, hasUnit, unittype), Type(FALSE, U16), Type(FALSE, U16))
get_And_Validate_Integer_Input_Uint8(null, text, hasUnit, unittype) ==
    IF null # {} THEN Nothing
    ELSE Narrow(get_And_Validate_Integer_Input_Uint32({}, text, hasUnit, unittype), Type(FALSE, U8), Type(FALSE, U8))

(* The signed ones leave the output alone outside their range. *)
Within(wide, type) ==
    IF wide.ok /\ wide.value \in Lowest(type) .. Highest(type) THEN wide ELSE Nothing

get_And_Validate_Integer_Input_Int16(null, text, hasUnit, unittype) ==
    IF null # {} THEN Nothing
    ELSE Within(get_And_Validate_Integer_Input_Int32({}, text, hasUnit, unittype), Type(TRUE, U16))
get_And_Validate_Integer_Input_Int8(null, text, hasUnit, unittype) ==
    IF null # {} THEN Nothing
    ELSE Within(get_And_Validate_Integer_Input_Int32({}, text, hasUnit, unittype), Type(TRUE, U8))

get_And_Validate_Integer_Input(text) == get_And_Validate_Integer_Input_Uint64({}, text, FALSE, "NONE")

(* Float, double and long double: the unit is what the library did not take.    *)
FloatInput(null, c, hasUnit, unit, unittype) ==
    /\ null \cap {"str", "output"} = {}
    /\ safe_strtofloat({}, c) = 0
    /\ IF hasUnit THEN is_Allowed_Unit_For_Get_And_Validate_Input(unit, unittype) ELSE unittype = "NONE"

get_And_Validate_Float_Input(null, c, hasUnit, unit, unittype)   == FloatInput(null, c, hasUnit, unit, unittype)
get_And_Validate_Double_Input(null, c, hasUnit, unit, unittype)  == FloatInput(null, c, hasUnit, unit, unittype)
get_And_Validate_LDouble_Input(null, c, hasUnit, unit, unittype) == FloatInput(null, c, hasUnit, unit, unittype)

(* ------------------------------------------------------------ quantities *)

(* A refused input gives EINVAL and 0; a quantity out of range its error and 0. *)
Quantity(input, error, value) ==
    IF ~input.ok THEN Answer(EINVAL, 0) ELSE IF error # 0 THEN Answer(error, 0) ELSE Answer(0, value)

Uint64Of(text, unittype) == get_And_Validate_Integer_Input_Uint64({}, text, TRUE, unittype)
Uint32Of(text, unittype) == get_And_Validate_Integer_Input_Uint32({}, text, TRUE, unittype)

Celsius(input, unit) ==
    LET c == CASE unit = "f" -> fahrenheit_To_celsius(input.value)
               [] unit = "k" -> kelvin_To_Celsius(input.value)
               [] OTHER      -> Answer(0, input.value)
    IN Quantity(input, c.errno, c.value)

get_And_Validate_Celsius_Input_int16(text) ==
    Celsius(get_And_Validate_Integer_Input_Int16({}, text, TRUE, "TEMPERATURE"), text.unit)

(* A product in the base unit is compared with the largest value; a value given *)
(* in the smaller unit is not, and cut to 32 bits.                              *)
MilliOf(input, inBase, error) ==
    LET milli == IF inBase THEN Cast(Type(FALSE, U64), input.value * THOUSAND) ELSE input.value
    IN Quantity(input, IF inBase /\ milli > Highest(Type(FALSE, U32)) THEN error ELSE 0, Cast(Type(FALSE, U32), milli))

Milli(text, unittype, unit, error) == MilliOf(Uint64Of(text, unittype), text.unit = unit, error)

get_And_Validate_Milliwatt_Input_uint32(text) == Milli(text, "POWER", "w", ERANGE)
get_And_Validate_Millivolt_Input_uint32(text) == Milli(text, "VOLTS", "v", EOVERFLOW)
get_And_Validate_Milliamp_Input_uint32(text)  == Milli(text, "AMPS", "a", EOVERFLOW)

(* Mutant: the range is checked before the division. *)
BaseUndivided(input, inMilli) ==
    LET value == IF inMilli THEN input.value \div THOUSAND ELSE input.value
    IN Quantity(input, IF input.value > Highest(Type(FALSE, U16)) THEN EOVERFLOW ELSE 0, value)

(* The base unit: the milli unit is divided, by dropping the remainder. *)
BaseOf(input, inMilli) ==
    LET value == IF inMilli THEN input.value \div THOUSAND ELSE input.value
    IN Quantity(input, IF value > Highest(Type(FALSE, U16)) THEN EOVERFLOW ELSE 0, value)

Base(text, unittype, milli) == BaseOf(Uint32Of(text, unittype), text.unit = milli)

get_And_Validate_Volt_Input_uint16(text) == Base(text, "VOLTS", "mv")
get_And_Validate_Amp_Input_uint16(text)  == Base(text, "AMPS", "ma")

DataSizeFactor(unit) ==
    CASE unit = "kb" -> THOUSAND     [] unit = "kib" -> KIBI
      [] unit = "mb" -> THOUSAND ^ 2 [] unit = "mib" -> KIBI ^ 2
      [] unit = "gb" -> THOUSAND ^ 3 [] unit = "gib" -> KIBI ^ 3
      [] unit = "tb" -> THOUSAND ^ 4 [] unit = "tib" -> KIBI ^ 4
      [] OTHER -> 1

(* The overflow is looked for after the multiplication, by a product less than  *)
(* the value.                                                                   *)
ByteAmount(input, factor) ==
    LET bytes == Cast(Type(FALSE, U64), input.value * factor)
    IN Quantity(input, IF bytes < input.value THEN EOVERFLOW ELSE 0, bytes)

get_And_Validate_Byte_Input_uint64(text) == ByteAmount(Uint64Of(text, "DATASIZE"), DataSizeFactor(text.unit))

TimeAmount(input, factor) ==
    LET ms == Cast(Type(FALSE, U64), input.value * factor)
    IN Quantity(input, IF ms > Highest(Type(FALSE, U32)) THEN EOVERFLOW ELSE 0, ms)

get_And_Validate_Millisecond_Input_uint32(text) ==
    TimeAmount(Uint64Of(text, "TIME"),
               CASE text.unit = "s" -> THOUSAND [] text.unit = "m" -> 60 * THOUSAND
                 [] text.unit = "h" -> 3600 * THOUSAND [] OTHER -> 1)
=============================================================================
