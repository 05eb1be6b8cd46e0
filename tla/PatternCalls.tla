----------------------------- MODULE PatternCalls -----------------------------
(* Calls of the functions that fill a buffer and of the random numbers, one at  *)
(* a time, and what they are for.                                               *)
EXTENDS Patterns, ArithmeticCalls

CONSTANTS
    Lengths,        \* of buffers
    Starts,         \* what a pattern begins with, and the lengths of patterns
    Limits,         \* of the ranges
    Drawn           \* the numbers the generator may give

ASSUME PatternCallsAssumption == Lengths \subseteq Nat /\ Starts \subseteq Nat /\ Limits \subseteq Nat /\ Drawn \subseteq Nat

Word(i) == <<i % BYTES, (i + 1) % BYTES, (i + 2) % BYTES, (i + 3) % BYTES>>

FillCall(n, null, memory, k) ==
    LET buffer  == [i \in 1 .. n |-> BYTES]
        pattern == [i \in 1 .. k |-> i % BYTES]
        all == [n |-> n, null |-> null, memory |-> memory, k |-> k, pattern |-> pattern]
    IN \/ Called("fill", "random", all, fill_Random_Pattern_In_Buffer(null, buffer, [i \in 1 .. n |-> Word(i)], memory))
       \/ Called("fill", "hex", all, fill_Hex_Pattern_In_Buffer(null, buffer, Word(k), memory))
       \/ Called("fill", "incrementing", all, fill_Incrementing_Pattern_In_Buffer(null, buffer, k))
       \/ Called("fill", "ascii", all, fill_ASCII_Pattern_In_Buffer(null, buffer, pattern, ~memory))
       \/ Called("fill", "buffer", all, fill_Pattern_Buffer_Into_Another_Buffer(null, buffer, pattern, ~memory))

Filling == \E n \in Lengths, null, memory \in BOOLEAN, k \in Starts : FillCall(n, null, memory, k)

Drawing ==
    \/ \E w \in {U32, U64}, least, most \in Limits, number \in Drawn :
          /\ least <= most /\ most < (2 ^ w) - 1 /\ number < 2 ^ w
          /\ Called("range of numbers", "range", [least |-> least, most |-> most],
                    IF w = U32 THEN random_Range_32(least, most, number) ELSE random_Range_64(least, most, number))
    \/ \E x, y \in {v \cap Bits(U32) : v \in Wide} :
          Called("draw", "seeds", [x |-> x, y |-> y],
                 <<xorshiftplus32(<<x, y>>).seeds, xorshiftplus64(<<x, y>>).seeds, seed_32(x), seed_64(x)>>)

(* A buffer is filled with whole copies of its pattern, the last one cut short, *)
(* or the call fails; the bytes in order follow each other; a random number     *)
(* asked for in a range is in it, and the generator, once it has a seed that is *)
(* not zero, does not come to a stop.  Left out: bytes behind the last whole    *)
(* word, a copy that fails, the largest number as a limit of the range, and a   *)
(* range of one number, for which the divisor wraps and the answer is 0.        *)
PatternsFillAndNumbersStayInRange ==
    /\ Is("fill") =>
          LET x == call.in
              out == call.out.buffer
              whole == x.n - (x.n % 4)
              unable == x.null \/ x.n = 0 \/ (call.f \in {"ascii", "buffer"} /\ x.k = 0)
                        \/ (call.f # "incrementing" /\ ~x.memory)
          IN /\ (call.out.ret = "SUCCESS") = ~unable /\ Len(out) = x.n
             /\ ~unable =>
                   CASE call.f = "incrementing" ->
                           out[1] = x.k % BYTES /\ \A i \in 2 .. x.n : out[i] = (out[i - 1] + 1) % BYTES
                     [] call.f \in {"ascii", "buffer"} ->
                           \A i \in 1 .. x.n : IF i <= x.k THEN out[i] = x.pattern[i] ELSE out[i] = out[i - x.k]
                     [] call.f = "hex" -> \A i \in 1 .. whole : IF i <= 4 THEN out[i] = Word(x.k)[i] ELSE out[i] = out[i - 4]
                     [] call.f = "random" -> \A i \in 1 .. x.n \div 4 : SubSeq(out, 4 * i - 3, 4 * i) = Word(i)
    /\ Is("range of numbers") /\ call.in.least < call.in.most => call.out \in call.in.least .. call.in.most
    /\ Is("draw") /\ (call.in.x # {} \/ call.in.y # {}) => \A i \in 1 .. 2 : call.out[i] # <<{}, {}>>

PatternSpec ==
    call = Idle
    /\ [][Filling \/ Drawing \/ OtherThan({"fill", "range of numbers", "draw"})]_call

===============================================================================
