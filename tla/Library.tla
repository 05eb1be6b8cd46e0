-------------------------------- MODULE Library --------------------------------
(* The functions of opensea-common that keep no state between calls, called one *)
(* at a time.  A call is a family of functions, the function, its arguments and *)
(* what it answered; the caller then comes back.  Each invariant holds a family *)
(* against a definition of what it is for, written without the code: from the   *)
(* positions of bits, from multiples, from sets of strings, from a calendar.    *)
(* What the code does otherwise is left out of the invariant by name, and told  *)
(* in the findings.                                                             *)
EXTENDS CopyCalls, ArithmeticCalls, PatternCalls, ConversionCalls, NumberInput, SortCalls, TokenCalls, TimeCalls, Strings, FormatVerify,
        EnvironmentVariables

CONSTANTS
    Bodies,         \* the bodies of the numbers typed
    Specifiers,     \* conversion specifications << flag, width, precision, length, conversion >>
    Names,          \* strings that are compared as versions
    Blanked,        \* strings that are trimmed
    Entries         \* entries of the environment

(* ------------------------------------------------------- numbers typed *)

InputFunctions ==
    {"ULL", "UL", "UI", "US", "UC", "LL", "L", "I", "S", "C", "Uint64", "Uint32", "Uint16", "Uint8",
     "Int64", "Int32", "Int16", "Int8"}

InputType(f) ==
    Type(f \notin {"ULL", "UL", "UI", "US", "UC", "Uint64", "Uint32", "Uint16", "Uint8"} /\ (f = "C" => CHAR_SIGNED),
         CASE f \in {"UC", "C", "Uint8", "Int8"} -> U8       [] f \in {"US", "S", "Uint16", "Int16"} -> U16
           [] f \in {"UI", "I", "Uint32", "Int32"} -> U32    [] f \in {"UL", "L"} -> LONG_WIDTH
           [] f \in {"ULL", "LL", "Uint64", "Int64"} -> U64)

InputOut(f, t, hasUnit, u) ==
    CASE f = "ULL" -> get_And_Validate_Integer_Input_ULL({}, t, hasUnit, u)
      [] f = "UL" -> get_And_Validate_Integer_Input_UL({}, t, hasUnit, u)
      [] f = "UI" -> get_And_Validate_Integer_Input_UI({}, t, hasUnit, u)
      [] f = "US" -> get_And_Validate_Integer_Input_US({}, t, hasUnit, u)
      [] f = "UC" -> get_And_Validate_Integer_Input_UC({}, t, hasUnit, u)
      [] f = "LL" -> get_And_Validate_Integer_Input_LL({}, t, hasUnit, u)
      [] f = "L" -> get_And_Validate_Integer_Input_L({}, t, hasUnit, u)
      [] f = "I" -> get_And_Validate_Integer_Input_I({}, t, hasUnit, u)
      [] f = "S" -> get_And_Validate_Integer_Input_S({}, t, hasUnit, u)
      [] f = "C" -> get_And_Validate_Integer_Input_C({}, t, hasUnit, u)
      [] f = "Uint64" -> get_And_Validate_Integer_Input_Uint64({}, t, hasUnit, u)
      [] f = "Uint32" -> get_And_Validate_Integer_Input_Uint32({}, t, hasUnit, u)
      [] f = "Uint16" -> get_And_Validate_Integer_Input_Uint16({}, t, hasUnit, u)
      [] f = "Uint8" -> get_And_Validate_Integer_Input_Uint8({}, t, hasUnit, u)
      [] f = "Int64" -> get_And_Validate_Integer_Input_Int64({}, t, hasUnit, u)
      [] f = "Int32" -> get_And_Validate_Integer_Input_Int32({}, t, hasUnit, u)
      [] f = "Int16" -> get_And_Validate_Integer_Input_Int16({}, t, hasUnit, u)
      [] f = "Int8" -> get_And_Validate_Integer_Input_Int8({}, t, hasUnit, u)

ParseFunctions == {"strtol", "strtoll", "strtoul", "strtoull", "strtoimax", "strtoumax"}
WholeFunctions == {"atoi", "atol", "atoll"}

ParseOut(f, body, base) ==
    CASE f = "strtol" -> safe_strtol_impl({}, body, base)       [] f = "strtoll" -> safe_strtoll_impl({}, body, base)
      [] f = "strtoul" -> safe_strtoul_impl({}, body, base)     [] f = "strtoull" -> safe_strtoull_impl({}, body, base)
      [] f = "strtoimax" -> safe_strtoimax_impl({}, body, base) [] f = "strtoumax" -> safe_strtoumax_impl({}, body, base)

ParseType(f) == IF f \in {"strtoul", "strtoull", "strtoumax"} THEN Type(FALSE, U64)
                ELSE Type(TRUE, IF f = "atoi" THEN U32 ELSE U64)

(* What strtod of the library gives: a number, nothing, or one out of range. *)
LibraryFloats == [zero : BOOLEAN, taken : {0, 2}, errno : {0, ERANGE}]

FloatOut(f, c, hasUnit, unit, u) ==
    CASE f = "strtof" -> safe_strtof_impl({}, c) = 0 [] f = "strtod" -> safe_strtod_impl({}, c) = 0
      [] f = "strtold" -> safe_strtold_impl({}, c) = 0 [] f = "atof" -> safe_atof_impl({}, c, unit) = 0
      [] f = "float" -> get_And_Validate_Float_Input({}, c, hasUnit, unit, u)
      [] f = "double" -> get_And_Validate_Double_Input({}, c, hasUnit, unit, u)
      [] f = "long double" -> get_And_Validate_LDouble_Input({}, c, hasUnit, unit, u)

Unsigned == {body \in Bodies : MINUS \notin Range(body)}

Typing ==
    \/ \E body \in Bodies, unit \in {"", "kb", "zz"}, u \in {"NONE", "DATASIZE"}, f \in InputFunctions :
       \E hasUnit \in {u # "NONE", TRUE} :
          Called("input", f, [text |-> Text(body, unit), u |-> u], InputOut(f, Text(body, unit), hasUnit, u))
    \/ \E body \in Unsigned, negative \in BOOLEAN, f \in ParseFunctions, base \in {10, 16} :
          LET b == IF negative THEN <<MINUS>> \o body ELSE body
          IN Called("parse", f, [body |-> body, negative |-> negative, base |-> base], ParseOut(f, b, base))
    \/ \E body \in Unsigned, negative \in BOOLEAN, unit \in {"", "kb"}, f \in WholeFunctions :
          LET t == Text(IF negative THEN <<MINUS>> \o body ELSE body, unit)
          IN Called("whole", f, [body |-> body, negative |-> negative, unit |-> unit],
                    CASE f = "atoi" -> safe_atoi_impl({}, t) [] f = "atol" -> safe_atol_impl({}, t)
                      [] f = "atoll" -> safe_atoll_impl({}, t))
    \/ \E c \in LibraryFloats, f \in {"strtof", "strtod", "strtold", "atof", "float", "double", "long double"},
          unit \in {"", "ms", "zz"}, u \in {"NONE", "TIME"} :
          Called("typed float", f, [c |-> c, unit |-> unit, u |-> u], FloatOut(f, c, u # "NONE", unit, u))

Numeral(s, base) == s # <<>> /\ \A i \in DOMAIN s : s[i] < base
Worth(s, base) == MapThenSumSet(LAMBDA i : s[i] * base ^ (Len(s) - i), DOMAIN s)

Prefixed(s) == Len(s) > 2 /\ s[1] = 0 /\ s[2] = X
Suffixed(s) == s # <<>> /\ s[Len(s)] = H

(* The number a string is for a reader: none, or one. *)
Denoted(s) ==
    {Worth(d, 10) : d \in {e \in {s} : Numeral(e, 10)}}
    \cup {Worth(d, 16) : d \in {e \in {SubSeq(s, 3, Len(s))} : Prefixed(s) /\ Numeral(e, 16)}}
    \cup {Worth(d, 16) : d \in {e \in {SubSeq(s, 1, Len(s) - 1)} : Suffixed(s) /\ Numeral(e, 16)}}

UnitNames(u) ==
    CASE u = "DATASIZE" -> {"", "b", "kb", "kib", "mb", "mib", "gb", "gib", "tb", "tib", "blocks", "sectors"}
      [] u = "TIME" -> {"", "ns", "us", "ms", "s", "m", "h"} [] u = "NONE" -> {""}
      [] u = "POWER" -> {"", "w", "mw"} [] u = "VOLTS" -> {"", "v", "mv"} [] u = "AMPS" -> {"", "a", "ma"}
      [] u = "TEMPERATURE" -> {"", "c", "f", "k"} [] u = "SECTOR_TYPE" -> {"", "l", "p", "logical", "physical"}

Signed(x, v) == IF x.negative THEN 0 - v ELSE v

(* The inputs accept the numbers of their type, with a unit of the kind asked   *)
(* for, and give them; the conversions give the number the string begins with,  *)
(* or has to be.  Left out: the bare 0x; the inputs of short, of unsigned short *)
(* and of int and those made of it, whose checks are not compiled in; what a    *)
(* negative number is for an unsigned conversion.                               *)
TypedNumberIsTheOneGiven ==
    /\ Is("input") /\ call.f \notin {"US", "S", "I", "Int32", "Int16", "Int8"} /\ call.in.text.body # <<0, X>> =>
          LET x == call.in
              meant == IF x.text.unit \notin UnitNames(x.u) THEN {}
                       ELSE IF x.u = "NONE" THEN Denoted(x.text.body)
                       ELSE IF Numeral(x.text.body, 10) THEN {Worth(x.text.body, 10)} ELSE {}
              good  == meant \cap (Lowest(InputType(call.f)) .. Highest(InputType(call.f)))
          IN IF good = {} THEN ~call.out.ok ELSE call.out.ok /\ call.out.written /\ good = {call.out.value}
    /\ Is("parse") /\ (ParseType(call.f).signed \/ ~call.in.negative) =>
          LET x == call.in
              numerals == IF x.base = 16 /\ Prefixed(x.body) /\ x.body[3] < 16
                        THEN SubSeq(x.body, 3, Len(x.body)) ELSE x.body
              lengths == {n \in 1 .. Len(numerals) : Numeral(SubSeq(numerals, 1, n), x.base)}
              value == Signed(x, Worth(SubSeq(numerals, 1, Max(lengths)), x.base))
          IN IF lengths = {} THEN call.out.errno = EINVAL /\ call.out.taken = 0
             ELSE IF value \in Lowest(ParseType(call.f)) .. Highest(ParseType(call.f))
                  THEN call.out.errno = 0 /\ call.out.value = value ELSE call.out.errno = ERANGE
    /\ Is("whole") =>
          LET x == call.in
              value == Signed(x, Worth(x.body, 10))
              good  == /\ Numeral(x.body, 10) /\ x.unit = ""
                       /\ value \in Lowest(ParseType(call.f)) .. Highest(ParseType(call.f))
          IN (call.out.errno = 0) = good /\ (good => call.out.value = value)
    /\ Is("typed float") =>
          LET x == call.in
              number == x.c.errno = 0 /\ (x.c.taken > 0 \/ ~x.c.zero)
          IN call.out = CASE call.f \in {"strtof", "strtod", "strtold"} -> number
                          [] call.f = "atof" -> number /\ x.unit = ""
                          [] OTHER -> number /\ (x.u = "NONE" \/ x.unit \in UnitNames(x.u))

(* ---------------------------------------------------------- quantities *)

Quantities == {"celsius", "milliwatt", "byte", "millisecond", "volt", "millivolt", "amp", "milliamp"}

KindOf(f) ==
    CASE f = "celsius" -> "TEMPERATURE" [] f = "milliwatt" -> "POWER" [] f = "byte" -> "DATASIZE"
      [] f = "millisecond" -> "TIME" [] f \in {"volt", "millivolt"} -> "VOLTS" [] f \in {"amp", "milliamp"} -> "AMPS"

QuantityOut(f, t) ==
    CASE f = "celsius" -> get_And_Validate_Celsius_Input_int16(t)
      [] f = "milliwatt" -> get_And_Validate_Milliwatt_Input_uint32(t)
      [] f = "byte" -> get_And_Validate_Byte_Input_uint64(t)
      [] f = "millisecond" -> get_And_Validate_Millisecond_Input_uint32(t)
      [] f = "volt" -> get_And_Validate_Volt_Input_uint16(t)
      [] f = "millivolt" -> get_And_Validate_Millivolt_Input_uint32(t)
      [] f = "amp" -> get_And_Validate_Amp_Input_uint16(t)
      [] f = "milliamp" -> get_And_Validate_Milliamp_Input_uint32(t)

Quantifying ==
    \E body \in Bodies, f \in Quantities : \E unit \in UnitNames(KindOf(f)) \cup {"zz", "l"} :
        Called("quantity", f, [body |-> body, unit |-> unit], QuantityOut(f, Text(body, unit)))

(* How many of the small unit the unit is. *)
Multiplier(unit) ==
    CASE unit \in {"w", "v", "a", "s"} -> THOUSAND [] unit = "m" -> 60 * THOUSAND [] unit = "h" -> 3600 * THOUSAND
      [] unit \in {"kb", "mb", "gb", "tb"} ->
            THOUSAND ^ (CASE unit = "kb" -> 1 [] unit = "mb" -> 2 [] unit = "gb" -> 3 [] unit = "tb" -> 4)
      [] unit \in {"kib", "mib", "gib", "tib"} ->
            KIBI ^ (CASE unit = "kib" -> 1 [] unit = "mib" -> 2 [] unit = "gib" -> 3 [] unit = "tib" -> 4)
      [] OTHER -> 1

Whole16 == {"volt", "amp"}
QuantityType(f) ==
    Type(f = "celsius", CASE f \in Whole16 \cup {"celsius"} -> U16 [] f = "byte" -> U64 [] OTHER -> U32)

(* In the unit of the answer; a part of a volt or an ampere is dropped. *)
Quantum(f, unit, value) ==
    IF f \in Whole16 THEN (IF unit \in {"mv", "ma"} THEN value \div THOUSAND ELSE value)
    ELSE value * Multiplier(unit)

Uncertain(f, unit, value) ==
    \/ unit \in {"ns", "us", "blocks", "sectors"}
    \/ f \in {"milliwatt", "millivolt", "milliamp"} /\ Multiplier(unit) = 1 /\ value > Highest(Type(FALSE, U32))
    \/ value * Multiplier(unit) > Highest(Type(FALSE, U64))

(* A quantity with a unit is converted exactly, and refused with the value zero *)
(* where the answer cannot hold it or the string is none.  Left out: the units  *)
(* that are taken as another (ns and us as ms, blocks and sectors as bytes), a  *)
(* milli value beyond 32 bits given as such, and products beyond 64 bits; of    *)
(* temperatures only those in range of the input, converted to within a degree. *)
QuantityIsExact ==
    Is("quantity") =>
        LET x == call.in
            good   == Numeral(x.body, 10) /\ x.unit \in UnitNames(KindOf(call.f))
            value  == Worth(x.body, 10)
            amount == Quantum(call.f, x.unit, value)
        IN IF ~good THEN call.out = Answer(EINVAL, 0)
           ELSE IF call.f = "celsius"
           THEN value <= Highest(Type(TRUE, U16)) =>
                call.out.errno = 0
                /\ NinthsAboveFreezing(CASE x.unit = "f" -> "fahrenheit" [] x.unit = "k" -> "kelvin" [] OTHER -> "celsius",
                                       value)
                   - NinthsAboveFreezing("celsius", call.out.value) \in 0 - 8 .. 8
           ELSE Uncertain(call.f, x.unit, value)
                \/ IF amount <= Highest(QuantityType(call.f)) /\ (call.f \in Whole16 => value <= Highest(Type(FALSE, U32)))
                   THEN call.out = Answer(0, amount) ELSE call.out.errno # 0 /\ call.out.value = 0

(* ------------------------------------------------------------- formats *)

(* The arguments printf takes for a specification << flag, width, precision,    *)
(* length, conversion >> of characters, by their types.                         *)
Stars(s) == Cardinality({i \in {2, 3} : s[i] # <<>> /\ s[i][Len(s[i])] = "*"})
TypeTaken(s) ==
    CASE s[5] \in {"d", "u", "x"} ->
            (IF s[4] = <<"l", "l">> THEN "long long" ELSE IF s[4] = <<"l">> THEN "long" ELSE "int")
      [] s[5] = "f" -> "double"
      [] s[5] = "c" -> (IF s[4] = <<"l">> THEN "wint_t" ELSE "int")
      [] s[5] \in {"s", "p"} -> "pointer"
      [] OTHER -> "none"

IsWide(s) == s[4] = <<"l">>
Kinds(s) ==
    CASE s[5] = "s" -> {"string", "null"} \cup (IF IsWide(s) THEN {"unconvertible"} ELSE {"empty"})
      [] s[5] = "c" /\ IsWide(s) -> {"value", "unconvertible"}
      [] OTHER -> {"value"}

Conversion(s) == <<"%">> \o s[1] \o s[2] \o s[3] \o s[4] \o <<s[5]>>
ValuesFor(s, kind) == [i \in 1 .. Stars(s) |-> "value"] \o <<kind>>
TypesFor(s) == [i \in 1 .. Stars(s) |-> "int"] \o <<TypeTaken(s)>>

(* One specification, or a plain one and then another, in some text. *)
Verifying ==
    \E s \in Specifiers, memory \in BOOLEAN, text \in {<<>>, <<"a", "b">>} : \E kind \in Kinds(s) :
        \/ Called("format", "one", [specs |-> <<s>>, kinds |-> <<kind>>, memory |-> memory],
                  verify_Format_String_And_Args(FALSE, text \o Conversion(s) \o text, ValuesFor(s, kind), memory))
        \/ \E p \in {q \in Specifiers : q[1] = <<>> /\ q[3] = <<>> /\ q[4] # <<"h">>} : \E before \in Kinds(p) :
              /\ s[1] = <<>> /\ s[2] # <<"1", "2">>
              /\ Called("format", "two", [specs |-> <<p, s>>, kinds |-> <<before, kind>>, memory |-> memory],
                        verify_Format_String_And_Args(FALSE, text \o Conversion(p) \o text \o Conversion(s),
                                                      ValuesFor(p, before) \o ValuesFor(s, kind), memory))

(* A conversion that is known and not n, with an argument that can be printed. *)
Printable(s, kind, memory) ==
    /\ TypeTaken(s) # "none" /\ kind \notin {"null", "unconvertible"}
    /\ IsWide(s) /\ s[5] \in {"s", "c"} => memory

(* The walk over a format accepts it exactly if every conversion is known,      *)
(* %n not being one, and every string can be printed, and takes from the        *)
(* arguments what printf will take, in the same order and by the same types,    *)
(* asterisks included.  Left out: more than one flag, the modifiers j z t and   *)
(* L, %% and wide strings that are empty.                                       *)
WalkTakesWhatPrintfTakes ==
    Is("format") =>
        LET x == call.in
        IN IF \A i \in DOMAIN x.specs : Printable(x.specs[i], x.kinds[i], x.memory)
           THEN call.out.ret > 0 /\ call.out.taken = FlattenSeq([i \in DOMAIN x.specs |-> TypesFor(x.specs[i])])
           ELSE call.out.ret = 0 - 1

(* ------------------------------------------------------------- strings *)

EditOut(f, b) ==
    CASE f = "swap" -> byte_Swap_String(b)           [] f = "left" -> remove_Whitespace_Left(b)
      [] f = "trailing" -> remove_Trailing_Whitespace(b)
      [] f = "leading" -> remove_Leading_Whitespace(b)
      [] f = "both" -> remove_Leading_And_Trailing_Whitespace(b)
      [] f = "control" -> remove_Leading_And_Trailing_Control_Char(b)
      [] f = "upper" -> convert_String_To_Upper_Case(b)
      [] f = "lower" -> convert_String_To_Lower_Case(b)
      [] f = "inverse" -> convert_String_To_Inverse_Case(b)

(* A string, its terminator and what is behind it. *)
Trimming ==
    \E s \in Blanked, f \in {"swap", "left", "trailing", "leading", "both", "control", "upper", "lower", "inverse"} :
        Called("edit", f, [s |-> s], EditOut(f, s \o <<0, 65>>))

CharacterTests(c) ==
    [ascii |-> safe_isascii(c), alnum |-> safe_isalnum(c), alpha |-> safe_isalpha(c), lower |-> safe_islower(c),
     upper |-> safe_isupper(c), digit |-> safe_isdigit(c), xdigit |-> safe_isxdigit(c), cntrl |-> safe_iscntrl(c),
     graph |-> safe_isgraph(c), space |-> safe_isspace(c), blank |-> safe_isblank(c), print |-> safe_isprint(c),
     punct |-> safe_ispunct(c)]

Classifying ==
    \E c \in -2 .. UCHAR_MAX + 1 :
        Called("class", "character", [c |-> c],
               [tests |-> CharacterTests(c), to |-> <<safe_tolower(c), safe_toupper(c)>>])

Finding ==
    \E n \in 0 .. 5, k \in 0 .. 2 : \E s \in [1 .. n -> {97, 98}], part \in [1 .. k -> {97, 98}] :
        Called("find", "occurrence", [s |-> s, part |-> part],
               [first |-> find_first_occurrence_in_string(FALSE, s, part),
                last |-> find_last_occurrence_in_string(FALSE, s, part)])

Matching ==
    \E n \in 0 .. 3, k \in 0 .. 4 : \E pattern \in [1 .. n -> {star, question, 97, 66}], data \in [1 .. k -> {97, 98, 65}] :
        Called("match", "wildcard", [pattern |-> pattern, data |-> data],
               [exact |-> wildcard_match(pattern, data), case |-> wildcard_case_match(pattern, data)])

Comparing ==
    \E a, b, c \in Names :
        LET entry(s) == [d_name |-> s]
        IN Called("versions", "compare", [a |-> a, b |-> b, c |-> c],
                  [ab |-> version_sort(entry(a), entry(b)), ba |-> version_sort(entry(b), entry(a)),
                   bc |-> version_sort(entry(b), entry(c)), ac |-> version_sort(entry(a), entry(c))])

Blank(c) == c \in 1 .. 32 \cup {127}
UpperOf(c) == IF c \in 97 .. 122 THEN c - 32 ELSE c
LowerOf(c) == IF c \in 65 .. 90 THEN c + 32 ELSE c

(* The string without the blanks at the ends asked for, filled up with zeros. *)
Trimmed(s, front, back) ==
    LET solid == {i \in DOMAIN s : ~Blank(s[i])}
        from  == IF front THEN Min(solid) ELSE 1
        to    == IF back THEN Max(solid) ELSE Len(s)
        kept  == IF solid = {} THEN <<>> ELSE SubSeq(s, from, to)
    IN kept \o [i \in 1 .. Len(s) - Len(kept) |-> 0]

EditMeant(f, s) ==
    CASE f \in {"left", "leading"} -> Trimmed(s, TRUE, FALSE) [] f = "trailing" -> Trimmed(s, FALSE, TRUE)
      [] f \in {"both", "control"} -> Trimmed(s, TRUE, TRUE)
      [] f = "upper" -> [i \in DOMAIN s |-> UpperOf(s[i])]   [] f = "lower" -> [i \in DOMAIN s |-> LowerOf(s[i])]
      [] f = "inverse" -> [i \in DOMAIN s |-> IF UpperOf(s[i]) = s[i] THEN LowerOf(s[i]) ELSE UpperOf(s[i])]
      [] f = "swap" -> [i \in DOMAIN s |-> IF i = Len(s) /\ i % 2 = 1 THEN s[i] ELSE s[((i - 1) + 1 - 2 * ((i - 1) % 2)) + 1]]

(* A pattern matches by some choice of how much each of its stars stands for:   *)
(* by the places of the data reached with each place of the pattern.            *)
Matches(pattern, data, Same(_, _)) ==
    LET reach[i \in 0 .. Len(pattern)] ==
            IF i = 0 THEN {0}
            ELSE IF pattern[i] = star THEN UNION {n .. Len(data) : n \in reach[i - 1]}
            ELSE {n + 1 : n \in {m \in reach[i - 1] : m < Len(data) /\ (pattern[i] = question \/ Same(pattern[i], data[m + 1]))}}
    IN Len(data) \in reach[Len(pattern)]

(* What another thread puts in place of the environment between the scan and    *)
(* the reading of the variable: nothing, or the same without its first entry.   *)
Reading ==
    \E n \in 0 .. 3 : \E scanned \in [1 .. n -> Entries], name \in {<<"A">>, <<"A", "B">>},
       null \in {{}, {"envVar"}}, changed, tampered, privileged, memory \in BOOLEAN :
        LET read == IF changed /\ scanned # <<>> THEN Tail(scanned) ELSE scanned
        IN Called("environment", "variable", [scanned |-> scanned, read |-> read, name |-> name, null |-> null,
                                              tampered |-> tampered, privileged |-> privileged, memory |-> memory],
                  get_Environment_Variable(null, tampered, scanned, read, name, privileged, memory))

Logging ==
    \E convention \in {"SERIAL_NUMBER_ONLY", "SERIAL_NUMBER_DATE_TIME", "BYUSER"}, id \in {<<>>, <<"Z">>},
       path \in {<<>>, <<"/">>, <<"d">>, <<"d", "/">>, <<"d", "/", "e">>, <<"d", "/", "e", "/">>, <<"d", "d", "d", "d">>,
                 <<"d", "d", "d", "d", "d">>},
       name \in {<<>>, <<"S">>}, ext \in {<<>>, <<"t">>, <<".", "t">>}, memory \in BOOLEAN, null \in {{}, {"file"}},
       file \in {"SEC_FILE_SUCCESS", "SEC_FILE_INSECURE_PATH", "SEC_FILE_FILE_ALREADY_EXISTS", "NULL"} :
        LET generated == generate_Log_Name(convention, id, path, name, ext, <<"7">>, memory)
        IN Called("log", "log", [convention |-> convention, id |-> id, path |-> path, name |-> name, ext |-> ext,
                                 memory |-> memory, null |-> null, file |-> file],
                  [name |-> generated, result |-> create_And_Open_Secure_Log_File(null, id, path, generated, file)])

(* The names of the entries that have one, and whether one is there twice.      *)
NameOf(entry) == {SubSeq(entry, 1, k - 1) : k \in {i \in DOMAIN entry : entry[i] = "=" /\ "=" \notin Range(SubSeq(entry, 1, i - 1))}}
Ambiguous(environ) == \E i, j \in DOMAIN environ : i # j /\ NameOf(environ[i]) # {} /\ NameOf(environ[i]) = NameOf(environ[j])

(* Trimming cuts exactly the blanks at its ends, changes of case change the     *)
(* letters only, what is behind the terminator stays; the classes of characters *)
(* fit together and what is no character is an error; an occurrence is the      *)
(* first or the last one; a wildcard matches what it stands for; versions are   *)
(* ordered, so that sorting by them ends in an order.  A variable is given only *)
(* where no name occurred twice, and is the one of its name at the reading; a   *)
(* log file is in the directory asked for, with one separator and one dot, and  *)
(* success is told of an opened file only.  Left out: bytes above 0x7F and NUL  *)
(* in the classes' relations, front trims of more than half of a string, parts  *)
(* that overlap themselves, and a log file whose open gave no handle at all.    *)
StringsAreWhatTheyAreMadeOf ==
    /\ Is("edit") =>
          LET s == call.in.s
              front == Len(s) - Len(SelectSeq(Trimmed(s, TRUE, FALSE), LAMBDA c : c # 0))
          IN \/ \E i \in DOMAIN s : s[i] < 0
             \/ call.f \in {"left", "leading"} /\ 2 * front > Len(s)
             \/ call.out = EditMeant(call.f, s) \o <<0, 65>>
    /\ Is("class") =>
          LET c == call.in.c  t == call.out.tests  lo == call.out.to[1]  up == call.out.to[2]
          IN /\ \A test \in DOMAIN t : t[test].errno = IF c \in -1 .. UCHAR_MAX THEN 0 ELSE ERANGE
             /\ \A test \in DOMAIN t : t[test].yes => c \in 1 .. UCHAR_MAX
             /\ t.alpha.yes = (t.lower.yes \/ t.upper.yes) /\ ~(t.lower.yes /\ t.upper.yes)
             /\ t.alnum.yes = (t.alpha.yes \/ t.digit.yes) /\ (t.digit.yes => t.xdigit.yes) /\ (t.xdigit.yes => t.alnum.yes)
             /\ t.graph.yes = (t.alnum.yes \/ t.punct.yes) /\ t.print.yes = (t.graph.yes \/ c = 32)
             /\ (c \in 1 .. 127 => t.ascii.yes /\ t.cntrl.yes = ~t.print.yes) /\ (t.blank.yes => t.space.yes)
             /\ lo.c = LowerOf(c) /\ up.c = UpperOf(c) /\ lo.errno = t.alpha.errno
    /\ Is("find") /\ call.in.part \notin {<<>>, <<97, 97>>, <<98, 98>>} =>
          LET x == call.in
              at == {i \in 0 .. Len(x.s) - Len(x.part) : \A k \in DOMAIN x.part : x.s[i + k] = x.part[k]}
          IN IF at = {} THEN call.out = [first |-> SIZE_MAX_RESULT, last |-> Len(x.s)]
             ELSE call.out = [first |-> Min(at), last |-> Len(x.s) - Max(at)]
    /\ Is("match") =>
          LET x == call.in
          IN /\ call.out.exact = Matches(x.pattern, x.data, LAMBDA p, d : p = d)
             /\ call.out.case  = Matches(x.pattern, x.data, LAMBDA p, d : LowerOf(p) = LowerOf(d))
    /\ Is("versions") =>
          LET o == call.out
          IN /\ o.ab > 0 <=> o.ba < 0
             /\ (o.ab = 0 <=> call.in.a = call.in.b)
             /\ (o.ab > 0 /\ o.bc > 0 => o.ac > 0)
    /\ Is("environment") =>
          LET x == call.in
              found == {i \in DOMAIN x.read : x.name \in NameOf(x.read[i])}
              given == x.read[Min(found)]
          IN IF x.null # {} THEN call.out.result = "FAILURE" /\ call.out.tampered = x.tampered
             ELSE /\ (call.out.result = "TAMPERED_ENV_DETECTED") = (x.tampered \/ Ambiguous(x.scanned))
                  /\ call.out.tampered = (x.tampered \/ Ambiguous(x.scanned))
                  /\ call.out.result = "SUCCESS" =>
                        found # {} /\ ~x.privileged /\ given = x.name \o <<"=">> \o call.out.value
    /\ Is("log") =>
          LET x == call.in
              dir == CASE x.path = <<>> -> <<".", "/">> [] x.path[Len(x.path)] = "/" -> x.path [] OTHER -> x.path \o <<"/">>
              behind == SubSeq(call.out.name, Len(dir) + 1, Len(call.out.name))
              refused == ~x.memory \/ (x.path # <<>> /\ Len(dir) >= OPENSEA_PATH_MAX) \/ (x.id = <<>> /\ x.convention # "BYUSER")
          IN /\ (call.out.name = <<>>) = refused
             /\ ~refused => /\ call.out.name = dir \o behind /\ "/" \notin Range(behind)
                            /\ (x.ext # <<>>) = ("." \in Range(behind)) /\ Len(SelectSeq(behind, LAMBDA c : c = ".")) <= 1
                            /\ ("_" \in Range(behind)) = (x.convention = "SERIAL_NUMBER_DATE_TIME")
             /\ x.file # "NULL" => (call.out.result = "SUCCESS") =
                                   (x.null = {} /\ x.id # <<>> /\ ~refused /\ x.file = "SEC_FILE_SUCCESS")

(* --------------------------------------------------------------- calls *)

Return == call # Idle /\ call' = Idle

Ask ==
    /\ call = Idle
    /\ \/ CopyStep
       \/ Querying
       \/ Rotating
       \/ Swapping
       \/ Ranging
       \/ Rounding
       \/ Converting
       \/ Measuring
       \/ Typing
       \/ Quantifying
       \/ Verifying
       \/ Sorting
       \/ Searching
       \/ Splitting
       \/ Trimming
       \/ Comparing
       \/ Matching
       \/ Telling
       \/ Waiting
       \/ Filling
       \/ Drawing
       \/ Sleeping
       \/ Watching
       \/ Classifying
       \/ Finding
       \/ Displaying
       \/ Reading
       \/ Logging

Init == call = Idle
Next == Ask \/ Return
Spec == Init /\ [][Next]_call
===============================================================================
