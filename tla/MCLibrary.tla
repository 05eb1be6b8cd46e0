------------------------------ MODULE MCLibrary ------------------------------
(* The inputs of Library for TLC. *)
EXTENDS Library

(* Distinct bytes, some of them terminators, the last one always. *)
MCContents == {[a \in 1 .. Arena |-> IF a \in Z \cup {Arena} THEN 0 ELSE a] : Z \in SUBSET {2, 3, 4}}

MCWide == {Mask(at, n) \cap Bits(U64) : at \in 0 .. 15, n \in {0, 1, 3, 16}} \cup {{0, 15}, {1, 4, 6, 11}, {0, 2, 3, 9, 14}}
MCFar == UNION {n - 3 .. n + 3 : n \in {0 - 32765, 0 - 129, 0, 128, 255, 32764, 65532}}
MCMultiples == {0, 1, 2, 3, 4, 5, 8}
MCLengths == 0 .. 9
MCStarts == 0 .. 3
MCLimits == {0, 1, 2, 7, 100, 200, 254, 65534}
MCDrawn == {255 - (16 * part) : part \in 0 .. 8} \cup {65535 - (4096 * part) : part \in 0 .. 8} \cup {0}
(* Around freezing and absolute zero, and where the 16 bits of the answer end. *)
MCDegrees == (0 - 480 .. 300) \cup {0 - 32768} \cup (18180 .. 18190) \cup (18455 .. 18465) \cup (32490 .. 32500) \cup {32767}
MCAmounts == 0 .. 300

(* Around the limits of every type, in decimal and in both forms of             *)
(* hexadecimal, with leading zeros, and strings that are no number.             *)
Numbers == {0, 1, 2, 3, 4, 7, 8, 15, 16, 85, 86, 127, 128, 129, 255, 256, 21845, 21846, 32767, 32768, 65535, 65536, 70000}
Spelled(n, base) ==
    LET least == CHOOSE k \in 1 .. 6 : n < base ^ k /\ (k = 1 \/ n >= base ^ (k - 1))
    IN [i \in 1 .. least |-> (n \div base ^ (least - i)) % base]
MCBodies ==
    {Spelled(n, 10) : n \in Numbers} \cup {<<0, X>> \o Spelled(n, 16) : n \in Numbers}
    \cup {Spelled(n, 16) \o <<H>> : n \in Numbers} \cup {<<0, 0>> \o Spelled(n, 10) : n \in {0, 7, 256}}
    \cup {<<>>, <<X>>, <<H>>, <<0, X>>, <<0, X, H>>, <<10>>, <<1, H, 2>>, <<1, X>>, <<0, X, 1, H>>, <<MINUS>>, <<MINUS, 5>>, <<5, MINUS>>}

(* Every length modifier a conversion may have. *)
LengthsOf(c) ==
    CASE c \in {"d", "u"} -> {<<>>, <<"h">>, <<"h", "h">>, <<"l">>, <<"l", "l">>}
      [] c \in {"s", "c", "f"} -> {<<>>, <<"l">>} [] OTHER -> {<<>>}
MCSpecifiers ==
    UNION {{<<flag, width, precision, length, c>> :
            flag \in {<<>>, <<"-">>}, width \in {<<>>, <<"*">>, <<"1", "2">>},
            precision \in {<<>>, <<".">>, <<".", "*">>, <<".", "5">>}, length \in LengthsOf(c)} :
           c \in {"d", "u", "s", "c", "f", "p", "n", "y"}}

(* Below, at and beyond the lengths 7 and 40 where the sort changes. *)
MCTables ==
    UNION {[1 .. n -> 0 .. 2] : n \in {0, 1, 2, 3, 7}} \cup [1 .. 8 -> {0, 2}]
    \cup {[i \in 1 .. n |-> (i * k) % m] : n \in {9, 41, 44}, k \in {1, 3, 7}, m \in {2, 5, 11, 50}}
    \cup {[i \in 1 .. n |-> n - i] : n \in {9, 41, 44}}

(* One of the bytes, another, or both; the third never. *)
MCDelimiters == {{1}, {2}, {1, 2}}

(* Versions with numbers of one and two digits, zeros in front, dots, letters.  *)
MCNames == UNION {[1 .. n -> {46, 48, 49, 50, 97}] : n \in 0 .. 2} \cup {<<49, 46, 48>>, <<48, 48, 49>>, <<49, 48, 46>>, <<97, 49, 48>>}

(* A blank, a control, letters of both cases, a digit and a byte above 0x7F. *)
MCBlanked == UNION {[1 .. n -> {32, 7, 65, 122, 49, -28}] : n \in 0 .. 4}
(* Names that are the beginning of another, an empty value, an empty name. *)
MCEntries == {<<"A", "=", "x">>, <<"A", "=">>, <<"A", "B", "=", "x">>, <<"A">>, <<"=", "x">>, <<"=", "A", "=">>}
(* The first and last second of a year, of February and of days in between, in  *)
(* years that are and are not leap years; in none of them may the future reach  *)
(* beyond what 32 bits hold.                                                    *)
MCSeconds ==
    {(DayOf(y, m, d) * DAY) + s : y \in {1970, 1971, 1972, 1973, 1999, 2000, 2001, 2004, 2026}, m \in {0, 1, 2, 11},
                                  d \in {1, 28}, s \in {0, 43200, DAY - 1}}
    \cup {(DayOf(y, 1, 29) * DAY) + 59 : y \in {1972, 2000, 2004}} \cup {(DayOf(y, 11, 31) * DAY) + DAY - 1 : y \in 1970 .. 2030}

MCAhead == {0, 1, 59, 3600, DAY - 1, DAY, 5 * DAY, 27 * DAY, (31 * DAY) - 1, 400 * DAY}
MCReadings == {0, 59, DAY, (20 * DAY) - 1, 2000000}
MCTicks == {0 - 1, 0, 5, 1000, 7777}
MCFrequencies == {0, 1, 3, 10}
MCResolutions == {10, 1000}

(* Up to two signals, then the end of the sleep or an error. *)
Ended(ends, slept, errno) == [ends |-> ends, slept |-> slept, errno |-> errno]
MCSleeps ==
    {signals \o <<last>> :
     signals \in UNION {[1 .. n -> {Ended("signal", 0, 4), Ended("signal", 1, 4)}] : n \in 0 .. 2},
     last \in {Ended("done", 0, 0), Ended("error", 0, ENOSYS), Ended("error", 0, EINVAL)}}
===============================================================================
