-------------------------------- MODULE Patterns --------------------------------
(* pattern_utils.c and prng.c: patterns written into a buffer, and the random   *)
(* numbers.  A buffer is a sequence of bytes 0 .. BYTES - 1; the words of the   *)
(* generator are sets of bits.                                                  *)
EXTENDS MathUtils, SequencesExt

CONSTANT BYTES      \* the values of a byte: 256

ASSUME PatternsAssumption == BYTES \in Nat \ {0}

Filled(ret, buffer) == [ret |-> ret, buffer |-> buffer]

WORD_BYTES == 4     \* sizeof(uint32_t)

(* Whole words of the pattern; the bytes behind the last whole word are zero.   *)
WordsThenZeroes(words, n) ==
    [i \in 1 .. n |-> IF i <= n - (n % WORD_BYTES)
                      THEN words[((i - 1) \div WORD_BYTES) + 1][((i - 1) % WORD_BYTES) + 1] ELSE 0]

(* Refused for nothing to fill, for want of memory and by the copy for NULL.    *)
FillWords(null, buffer, words, memory) ==
    IF buffer = <<>> THEN Filled("BAD_PARAMETER", buffer)
    ELSE IF ~memory \/ null THEN Filled("MEMORY_FAILURE", buffer)
    ELSE Filled("SUCCESS", WordsThenZeroes(words, Len(buffer)))

fill_Random_Pattern_In_Buffer(null, buffer, random, memory) == FillWords(null, buffer, random, memory)

fill_Hex_Pattern_In_Buffer(null, buffer, word, memory) ==
    FillWords(null, buffer, [i \in 1 .. Len(buffer) |-> word], memory)

fill_Incrementing_Pattern_In_Buffer(null, buffer, start) ==
    IF null \/ buffer = <<>> THEN Filled("BAD_PARAMETER", buffer)
    ELSE Filled("SUCCESS", [i \in 1 .. Len(buffer) |-> (start + i - 1) % BYTES])

(* Copies of the pattern one behind the other, the last one cut.  A copy is     *)
(* refused where the pattern lies in the buffer: then the copies before it stay.*)
Repeat(null, buffer, pattern, overlaps) ==
    IF null \/ buffer = <<>> \/ pattern = <<>> THEN Filled("BAD_PARAMETER", buffer)
    ELSE IF overlaps THEN Filled("MEMORY_FAILURE", [i \in 1 .. Len(buffer) |-> 0])
    ELSE Filled("SUCCESS", [i \in 1 .. Len(buffer) |-> pattern[((i - 1) % Len(pattern)) + 1]])

fill_ASCII_Pattern_In_Buffer(null, buffer, pattern, overlaps)           == Repeat(null, buffer, pattern, overlaps)
fill_Pattern_Buffer_Into_Another_Buffer(null, buffer, pattern, overlaps) == Repeat(null, buffer, pattern, overlaps)

(* ---------------------------------------------------------- the generator *)

Xor(a, b) == (a \ b) \cup (b \ a)

(* A set of bits as a number, and back. *)
ValueOf(v) == FoldSet(LAMBDA i, sum : sum + 2 ^ i, 0, v)
BitsOf(w, n) == {i \in Bits(w) : (n \div (2 ^ i)) % 2 = 1}

(* One step from the seeds << x, y >>: the number it gives, and the next seeds. *)
Xorshift(w, seeds, a, b, c) ==
    LET x    == Xor(seeds[1], Shl(w, seeds[1], a))
        next == Xor(Xor(x, seeds[2]), Xor(Shr(x, b), Shr(seeds[2], c)))
    IN [number |-> (ValueOf(next) + ValueOf(seeds[2])) % (2 ^ w), seeds |-> <<seeds[2], next>>]

xorshiftplus32(seeds) == Xorshift(U32, seeds, 13, 17, 7)
xorshiftplus64(seeds) == Xorshift(U64, seeds, 27, 13, 32)

(* >> of a signed word: the sign bit moves in. *)
SignedShr(w, v, n) == Shr(v, n) \cup (IF w - 1 \in v THEN Mask(w - n, n) ELSE {})

(* Two numbers go into the first seed, one after the other.                     *)
Seeded(w, seed, shift, Step(_)) ==
    LET one == Step(<<seed, SignedShr(w, seed, shift)>>)
        two == Step(<<BitsOf(w, one.number), one.seeds[2]>>)
    IN <<BitsOf(w, two.number), two.seeds[2]>>

seed_32(seed) == Seeded(U32, seed, 1, xorshiftplus32)
seed_64(seed) == Seeded(U64, seed, 2, xorshiftplus64)

(* Mutant: the last part of the numbers reaches beyond the range. *)
RandomRangeBeyond(w, rangeMin, rangeMax, number) ==
    LET all == (2 ^ w) - 1
        max == IF rangeMax = all THEN rangeMax - 1 ELSE rangeMax
        d   == all \div ((max - rangeMin + 1) % (2 ^ w))
    IN IF d > 0 THEN (rangeMin + (number \div d)) % (2 ^ w) ELSE 0

(* A number of the generator divided into the range; the largest maximum is     *)
(* taken for one less.  A range of one number has no divisor in the width, and  *)
(* gives 0.                                                                     *)
RandomRange(w, rangeMin, rangeMax, number) ==
    LET all == (2 ^ w) - 1
        max == IF rangeMax = all THEN rangeMax - 1 ELSE rangeMax
        d   == ((all \div ((max - rangeMin + 1) % (2 ^ w))) + 1) % (2 ^ w)
    IN IF d > 0 THEN (rangeMin + (number \div d)) % (2 ^ w) ELSE 0

random_Range_32(rangeMin, rangeMax, number) == RandomRange(U32, rangeMin, rangeMax, number)
random_Range_64(rangeMin, rangeMax, number) == RandomRange(U64, rangeMin, rangeMax, number)
===============================================================================
