---------------------------- MODULE ConversionCalls ----------------------------
(* Calls of the conversions of type_conversion.c and unit_conversion.c, one at  *)
(* a time, and what they are for.                                               *)
EXTENDS TypeConversion, ArithmeticCalls

CONSTANTS
    Degrees,        \* temperatures
    Amounts         \* what is shown in a unit

INT16_MAX == 32767

ASSUME ConversionAssumption ==
    /\ Degrees \subseteq Int /\ Amounts \subseteq Nat
    /\ \A d \in Degrees : d >= 0 - (INT16_MAX + 1) /\ d <= INT16_MAX

SizeFunctions ==
    {"int8", "uint8", "int16", "uint16", "int32", "uint32", "int64", "uint64", "char", "schar", "uchar",
     "short", "ushort", "int", "uint", "long", "ulong", "longlong", "ulonglong"}

TypeNamed(f) ==
    Type(f \notin {"uint8", "uint16", "uint32", "uint64", "uchar", "ushort", "uint", "ulong", "ulonglong"}
            /\ (f = "char" => CHAR_SIGNED),
         CASE f \in {"int8", "uint8", "char", "schar", "uchar"} -> U8
           [] f \in {"int16", "uint16", "short", "ushort"} -> U16
           [] f \in {"int32", "uint32", "int", "uint"} -> U32
           [] f \in {"long", "ulong"} -> LONG_WIDTH
           [] f \in {"int64", "uint64", "longlong", "ulonglong"} -> U64)

SizeOut(f, v) ==
    CASE f = "int8" -> int8_to_sizet(v)       [] f = "uint8" -> uint8_to_sizet(v)
      [] f = "int16" -> int16_to_sizet(v)     [] f = "uint16" -> uint16_to_sizet(v)
      [] f = "int32" -> int32_to_sizet(v)     [] f = "uint32" -> uint32_to_sizet(v)
      [] f = "int64" -> int64_to_sizet(v)     [] f = "uint64" -> uint64_to_sizet(v)
      [] f = "char" -> char_to_sizet(v)       [] f = "schar" -> schar_to_sizet(v)
      [] f = "uchar" -> uchar_to_sizet(v)     [] f = "short" -> short_to_sizet(v)
      [] f = "ushort" -> ushort_to_sizet(v)   [] f = "int" -> int_to_sizet(v)
      [] f = "uint" -> uint_to_sizet(v)       [] f = "long" -> long_to_sizet(v)
      [] f = "ulong" -> ulong_to_sizet(v)     [] f = "longlong" -> longlong_to_sizet(v)
      [] f = "ulonglong" -> ulonglong_to_sizet(v)

(* What a conversion answers, next to the test for the largest value. *)
Sized(v, answer) == [errno |-> answer.errno, value |-> answer.value, max |-> is_size_t_max(v)]

Converting ==
    \/ \E f \in SizeFunctions : \E v \in Tried(TypeNamed(f)) :
          Called("size", f, [v |-> v], Sized(v, SizeOut(f, v)))
    \/ \E pData \in [1 .. 3 -> {0, 1, 255}] :
          Called("double", "128bit", [data |-> pData], convert_128bit_to_double(pData))
    \/ \E negative \in BOOLEAN, e \in {0, 1, 127, 254, 255}, m \in {0, 1, (2 ^ 23) - 1} :
          Called("float", "4 byte", [negative |-> negative, e |-> e, m |-> m],
                 get_Decimal_From_4_byte_Float(negative, e, m))

Scales == {"celsius", "fahrenheit", "kelvin"}

Degree(from, to, d) ==
    CASE from = "celsius" /\ to = "fahrenheit" -> celsius_To_Fahrenheit(d)
      [] from = "celsius" /\ to = "kelvin"     -> celsius_To_Kelvin(d)
      [] from = "fahrenheit" /\ to = "celsius" -> fahrenheit_To_celsius(d)
      [] from = "fahrenheit" /\ to = "kelvin"  -> fahrenheit_To_Kelvin(d)
      [] from = "kelvin" /\ to = "celsius"     -> kelvin_To_Celsius(d)
      [] from = "kelvin" /\ to = "fahrenheit"  -> kelvin_To_Fahrenheit(d)

Measuring ==
    \/ \E d \in Degrees, from, to \in Scales :
          from # to /\ Called("degrees", "degrees", [d |-> d, from |-> from, to |-> to], Degree(from, to, d))
    \/ \E value \in Amounts, null, copied \in BOOLEAN :
          \/ Called("unit", "metric", [value |-> value, null |-> null, factor |-> THOUSAND],
                    metric_Unit_Convert(null, value, copied))
          \/ Called("unit", "capacity", [value |-> value, null |-> null, factor |-> KIBI],
                    capacity_Unit_Convert(null, value, copied))

(* A temperature in ninths of a degree Celsius above freezing, for the scale it *)
(* is given in.                                                                 *)
NinthsAboveFreezing(scale, d) ==
    CASE scale = "celsius" -> 9 * d [] scale = "kelvin" -> 9 * (d - 273) [] scale = "fahrenheit" -> 5 * (d - 32)
AbsoluteZero(scale) == CASE scale = "celsius" -> 0 - 273 [] scale = "kelvin" -> 0 [] scale = "fahrenheit" -> 0 - 459

(* The narrowings to size_t keep the value or give the nearest with ERANGE; a   *)
(* temperature converted is the same to less than a degree, to the nearest      *)
(* degree from Celsius to Fahrenheit, and never below absolute zero, wherever   *)
(* the scale it is converted to holds it in the 16 bits of the type; a value is *)
(* shown in the largest unit it reaches.                                        *)
ConvertedValueIsTheSame ==
    /\ Is("size") =>
          LET v == call.in.v
              near == IF v < 0 THEN 0 ELSE IF v > SizeMax THEN SizeMax ELSE v
          IN /\ call.out.value = near /\ call.out.errno = IF near = v THEN 0 ELSE ERANGE
             /\ call.out.max = (v = SizeMax)
    /\ Is("double") => call.out = call.in.data[1] + 256 * (call.in.data[2] + 256 * call.in.data[3])
    /\ Is("float") => call.out.fraction \in 2 ^ 23 .. (2 ^ 24) - 1 /\ call.out.exponent = call.in.e - 150
    /\ Is("degrees") =>
          LET x == call.in
              exact == NinthsAboveFreezing(x.from, x.d)
              given == NinthsAboveFreezing(x.to, call.out.value)
              unit  == NinthsAboveFreezing(x.to, 1) - NinthsAboveFreezing(x.to, 0)
          IN IF x.d < AbsoluteZero(x.from) THEN call.out.errno = ERANGE
             ELSE exact <= NinthsAboveFreezing(x.to, INT16_MAX) =>
                  /\ call.out.errno = 0 /\ call.out.value >= AbsoluteZero(x.to)
                  /\ exact - given \in (1 - unit) .. (unit - 1)
                  /\ x.from = "celsius" /\ x.to = "fahrenheit" => 2 * (exact - given) \in (0 - unit) .. unit
    /\ Is("unit") /\ ~call.in.null =>
          LET reached == {n \in 0 .. LAST_UNIT : n = 0 \/ call.in.value >= Worths(call.in.factor)[n]}
          IN call.out.unit = Max(reached)

ConversionFamilies == {"size", "double", "float", "degrees", "unit"}
ConversionSpec == call = Idle /\ [][Converting \/ Measuring \/ OtherThan(ConversionFamilies)]_call
===============================================================================
