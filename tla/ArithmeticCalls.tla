---------------------------- MODULE ArithmeticCalls ----------------------------
(* Calls of the bit operations and of the roundings, one at a time, and what    *)
(* they are for: from the positions of the ones, and from multiples.            *)
EXTENDS MathUtils, Calls

CONSTANTS
    Wide,           \* the values of eight bytes that are tried, as bits
    Far,            \* and as numbers
    Multiples       \* the numbers rounded to

ASSUME MultiplesAssumption == Multiples \subseteq Nat
ASSUME WideAssumption == Wide \subseteq SUBSET Bits(U64)

(* ---------------------------------------------------------------- bits *)

Patterned(w) == IF w = U64 THEN Wide ELSE SUBSET Bits(w)
Builds == {"builtin", "fallback"}

Queries == {"clz", "clo", "ctz", "cto", "first one", "first zero", "ones", "zeros", "width", "single", "floor", "ceil"}

Query(f, build, w, v) ==
    CASE f = "clz"        -> count_leading_zeros(build, w, v)
      [] f = "clo"        -> count_leading_ones(build, w, v)
      [] f = "ctz"        -> count_trailing_zeros(build, w, v)
      [] f = "cto"        -> count_trailing_ones(build, w, v)
      [] f = "first one"  -> first_leading_one(w, v)
      [] f = "first zero" -> first_leading_zero(w, v)
      [] f = "ones"       -> count_ones(w, v)
      [] f = "zeros"      -> count_zeros(w, v)
      [] f = "width"      -> get_req_bit_width(build, w, v)
      [] f = "single"     -> has_single_bit(w, v)
      [] f = "floor"      -> bit_floor(build, w, v)
      [] f = "ceil"       -> bit_ceil(build, w, v)

(* From the largest and the smallest position of a one. *)
Expected(f, w, v) ==
    LET top(s)  == IF s = {} THEN w ELSE w - 1 - Max(s)
        tail(s) == IF s = {} THEN w ELSE Min(s)
        firstOf(s) == IF s = {} THEN 0 ELSE w - Max(s)
    IN CASE f = "clz" -> top(v)           [] f = "clo" -> top(Bits(w) \ v)
         [] f = "ctz" -> tail(v)          [] f = "cto" -> tail(Bits(w) \ v)
         [] f = "first one" -> firstOf(v) [] f = "first zero" -> firstOf(Bits(w) \ v)
         [] f = "ones" -> Cardinality(v)  [] f = "zeros" -> w - Cardinality(v)
         [] f = "width" -> w - top(v)     [] f = "single" -> Cardinality(v) = 1
         [] f = "floor" -> IF v = {} THEN {} ELSE {Max(v)}
         [] f = "ceil" -> IF v \subseteq {0} THEN {0} ELSE IF v = {Max(v)} THEN v ELSE {Max(v) + 1} \cap Bits(w)

Querying ==
    \E w \in {U8, U16, U32, U64}, build \in Builds, f \in Queries : \E v \in Patterned(w) :
        Called("query", f, [w |-> w, build |-> build, v |-> v], Query(f, build, w, v))

Moves == {"left", "right", "swap bytes", "swap words", "to host", "from host", "parts", "set", "clear"}

Order(build, big, w, v) ==
    [fromBe |-> be_to_host(big, build, w, v), toBe |-> host_to_be(big, build, w, v),
     fromLe |-> le_to_host(big, build, w, v), toLe |-> host_to_le(big, build, w, v),
     inPlace |-> big_To_Little_Endian(FALSE, big, build, w, v)]

(* A value taken apart and put together again. *)
Parts(v) ==
    {bytes_To_Uint64([n \in 0 .. 7 |-> M_Byte(v, n)]),
     words_To_Uint64(M_Word(v, 3), M_Word(v, 2), M_Word(v, 1), M_Word(v, 0)),
     dwords_To_Uint64(get_DWord1(v), get_DWord0(v)),
     dwords_To_Uint64(words_To_Uint32(M_Word(v, 3), M_Word(v, 2)),
                      bytes_To_Uint32(M_Byte(v, 3), M_Byte(v, 2), M_Byte(v, 1), M_Byte(v, 0))),
     bytes_To_Uint64([n \in 0 .. 7 |-> nibbles_To_Byte(M_Nibble(v, 2 * n + 1), M_Nibble(v, 2 * n))]),
     UNION {v \cap M_ByteN(n) : n \in 0 .. 7},
     words_To_Uint64(bytes_To_Uint16(M_Byte(v, 7), M_Byte(v, 6)), M_Word(v, 2), M_Word(v, 1), M_Word(v, 0)),
     dwords_To_Uint64(M_WordsTo4ByteValue(M_Word(v, 2), M_Word(v, 3)), get_DWord0(v))}

Swapped(w, v, unit) == {(((w \div unit) - 1 - (i \div unit)) * unit) + (i % unit) : i \in v}

Rotating ==
    \E w \in {U8, U16, U32, U64} : \E v \in Patterned(w), n \in 0 .. w + 1 :
        \/ Called("move", "left", [w |-> w, v |-> v, n |-> n], rotate_left(w, v, n))
        \/ Called("move", "right", [w |-> w, v |-> v, n |-> n], rotate_right(w, v, n))
        \/ n \in Bits(w) /\ Called("move", "set", [w |-> w, v |-> v, n |-> n], SetBit(w, v, n))
        \/ n \in Bits(w) /\ Called("move", "clear", [w |-> w, v |-> v, n |-> n], ClearBit(w, v, n))

Swapping ==
    \/ \E v \in Patterned(U16) : Called("swap", "bytes", [w |-> U16, unit |-> U8, v |-> v], byte_Swap_16(FALSE, v))
    \/ \E v \in Patterned(U32) :
          \/ Called("swap", "bytes", [w |-> U32, unit |-> U8, v |-> v], byte_Swap_32(FALSE, "builtin", v))
          \/ Called("swap", "bytes", [w |-> U32, unit |-> U8, v |-> v], byte_Swap_Int32(v))
          \/ Called("swap", "words", [w |-> U32, unit |-> U16, v |-> v], w_swap_32(v))
    \/ \E v \in Patterned(U64) :
          \/ Called("swap", "bytes", [w |-> U64, unit |-> U8, v |-> v], byte_Swap_64(FALSE, "builtin", v))
          \/ Called("swap", "words", [w |-> U64, unit |-> U16, v |-> v], word_Swap_64(v))
          \/ Called("swap", "dwords", [w |-> U64, unit |-> U32, v |-> v], double_Word_Swap_64(v))
          \/ Called("parts", "parts", [v |-> v], Parts(v))
    \/ \E v \in Patterned(U8) : Called("swap", "nibbles", [w |-> U8, unit |-> NIBBLE, v |-> v], nibble_Swap(FALSE, v))
    \/ \E w \in {U16, U32, U64}, big \in BOOLEAN : \E v \in Patterned(w) :
          Called("endian", "endian", [w |-> w, big |-> big, v |-> v], Order("builtin", big, w, v))

Ranging ==
    \/ \E size \in {1, 2, 4, 8}, outputsize \in {1, 2, 4, 8}, msb, lsb \in 0 .. U64, signed \in BOOLEAN :
       \E v \in {Bits(size * U8), {i \in Bits(size * U8) : i % 3 = 0}} :
          Called("range", "bits", [w |-> size * U8, out |-> outputsize * U8, v |-> v, msb |-> msb, lsb |-> lsb],
                 IF signed THEN get_bit_range_signed(size, v, outputsize, msb, lsb)
                 ELSE get_bit_range_unsigned(size, v, outputsize, msb, lsb))
    \/ \E v \in Wide, msb \in Bits(U64) : \E lsb \in 0 .. msb, signed \in BOOLEAN :
          Called("range", "macro", [w |-> U64, out |-> U64, v |-> v, msb |-> msb, lsb |-> lsb],
                 IF signed THEN M_IGETBITRANGE(v, msb, lsb) ELSE M_GETBITRANGE(v, msb, lsb))
    \/ \E length \in 1 .. 5, msb, lsb \in 0 .. 4, w \in {U16, U32, U64} :
          LET data == [i \in 1 .. length |-> IF i % 3 = 0 THEN Bits(U8) ELSE {i % U8}]
          IN msb < length /\ lsb < length
             /\ Called("bytes", "bytes", [w |-> w, data |-> data, msb |-> msb, lsb |-> lsb],
                       CASE w = U16 -> get_Bytes_To_16(data, msb, lsb, {}, {})
                         [] w = U32 -> get_Bytes_To_32(data, msb, lsb, {}, {})
                         [] w = U64 -> get_Bytes_To_64(data, msb, lsb, {}, {}))

(* Every bit operation of every width gives what the positions of the one bits  *)
(* say: the counts, the widths and powers of two, the rotations by counts up to *)
(* and beyond the width, the swaps of every unit, ranges, and the parts of a    *)
(* value, which put together give it again.  Left out: a value of zero (and of  *)
(* all ones) given to the counts of the build without built-ins.                *)
BitsAreWhereTheyBelong ==
    /\ Is("query") =>
          LET w == call.in.w  v == call.in.v
              unclear == call.in.build = "fallback"
                         /\ ((call.f \in {"clz", "ctz"} /\ v = {}) \/ (call.f \in {"clo", "cto"} /\ v = Bits(w)))
          IN unclear \/ call.out = Expected(call.f, w, v)
    /\ Is("move") =>
          LET w == call.in.w  v == call.in.v  n == call.in.n
          IN call.out = CASE call.f = "left"  -> {(i + n) % w : i \in v}
                          [] call.f = "right" -> {((i + w) - (n % w)) % w : i \in v}
                          [] call.f = "set"   -> v \cup {n}
                          [] call.f = "clear" -> v \ {n}
    /\ Is("swap") => call.out = Swapped(call.in.w, call.in.v, call.in.unit)
    /\ Is("parts") => call.out = {call.in.v}
    /\ Is("endian") =>
          LET other == Swapped(call.in.w, call.in.v, U8)
              be == IF call.in.big THEN call.in.v ELSE other
              le == IF call.in.big THEN other ELSE call.in.v
          IN call.out = [fromBe |-> be, toBe |-> be, fromLe |-> le, toLe |-> le, inPlace |-> be]
    /\ Is("range") =>
          LET x == call.in
              good == x.lsb <= x.msb /\ x.msb < x.w /\ (x.msb - x.lsb) + 1 <= M_Min(x.out, x.w)
          IN call.out = IF good THEN Ranged(0, {i - x.lsb : i \in x.v \cap (x.lsb .. x.msb)}) ELSE Ranged(ERANGE, {})
    /\ Is("bytes") /\ call.out.ok =>
          LET x == call.in
              n == M_Max(x.msb, x.lsb) - M_Min(x.msb, x.lsb)
              byte(k) == x.data[1 + IF x.lsb <= x.msb THEN x.lsb + k ELSE x.lsb - k]
          IN call.out.out = Bits(x.w) \cap UNION {{i + k * U8 : i \in byte(k)} : k \in 0 .. n}

(* ------------------------------------------------------------ rounding *)

NumberTypes == {Type(signed, w) : signed \in BOOLEAN, w \in {U8, U16, U32, U64}}

Tried(type) == IF type.width < U64 THEN Values(type) ELSE Values(type) \cap Far

(* The functions of the types of the language and of fixed width, the macro.    *)
RoundOut(f, type, down, value, r) ==
    CASE f = "native" /\ type.width # LONG_WIDTH -> NativeByWidth(down, type, value, r)
      [] f = "native" /\ type.width = LONG_WIDTH -> long_round_generic(type.signed, down, value, r)
      [] f = "fixed" -> IF down THEN fixed_round_down_generic(type, value, r)
                        ELSE IF type.width = U8 THEN int8_round_up_generic(type.signed, value, r)
                        ELSE fixed_round_up_generic(type, value, r)
      [] f = "power2" -> IF down THEN fixed_round_down_power2(type, value, r) ELSE fixed_round_up_power2(type, value, r)
      [] f = "native power2" ->
            (CASE type.width = U8  -> char_round_power2(type.signed, down, value, r)
               [] type.width = U16 -> short_round_power2(type.signed, down, value, r)
               [] type.width = U32 -> int_round_power2(type.signed, down, value, r)
               [] type.width = U64 -> long_long_round_power2(type.signed, down, value, r))
      [] f = "long power2" -> IF type.width = LONG_WIDTH THEN long_round_power2(type.signed, down, value, r)
                              ELSE INT_ROUND_POWER2(type, down, value, r)
      [] f \in {"generic", "typeof", "expression"} ->
            IF down THEN INT_ROUND_DOWN(f, type, value, r) ELSE INT_ROUND_UP(f, type, value, r)

RoundPower2 == {"power2", "native power2", "long power2"}
RoundMacros == {"generic", "typeof", "expression"}

Rounding ==
    \/ \E type \in NumberTypes, down \in BOOLEAN, r \in Multiples, f \in RoundPower2 \cup RoundMacros \cup {"native", "fixed"} :
       \E value \in Tried(type) :
          /\ f \in RoundPower2 => \E n \in Bits(U64) : r = 2 ^ n
          /\ f \in RoundMacros => r # 0
          /\ r \in Values(type)
          /\ Called("round", f, [type |-> type, down |-> down, value |-> value, r |-> r], RoundOut(f, type, down, value, r))
    \/ \E n \in Bits(U64), build \in Builds :
          Called("log2", "log2", [n |-> n], log2_power2(build, power_Of_Two(n)))

Multiple(x) ==
    IF x.down THEN CHOOSE m \in (x.value - x.r) + 1 .. x.value : m % x.r = 0
    ELSE CHOOSE m \in x.value .. (x.value + x.r) - 1 : m % x.r = 0

(* Every rounding of every type gives the nearest multiple on the side it is    *)
(* asked for, wherever the type has that multiple, and the value itself for the *)
(* multiple zero.  Left out: negative values that the functions of the types of *)
(* the language round down, and that the macro rounds in a build without C11.   *)
RoundedToTheNextMultiple ==
    /\ Is("round") =>
          LET x == call.in
              astray == x.value < 0 /\ (call.f \in RoundMacros \ {"generic"} \/ (x.down /\ call.f \in {"native", "generic"}))
          IN IF x.r = 0 THEN call.out = x.value
             ELSE astray \/ (Multiple(x) \in Values(x.type) => call.out = Multiple(x))
    /\ Is("log2") => call.out = call.in.n

BitStep == Querying \/ Rotating \/ Swapping \/ Ranging

BitFamilies == {"query", "move", "swap", "parts", "endian", "range", "bytes"}
BitSpec == call = Idle /\ [][BitStep \/ OtherThan(BitFamilies)]_call

RoundingSpec == call = Idle /\ [][Rounding \/ OtherThan({"round", "log2"})]_call

===============================================================================
