------------------------------- MODULE Tokenizer -------------------------------
(* safe_strtok.c: the calls that take a string apart.  The buffer holds the     *)
(* string and its terminator 0; *saveptr is a place in it, or 0 for NULL.       *)
EXTENDS ErrorCodes, SequencesExt

CONSTANT TOKEN_RSIZE_MAX    \* RSIZE_MAX

Delim(s) == {s[i] : i \in DOMAIN s}

(* What a call leaves: its errno, the token it returns (0 for NULL), and the    *)
(* buffer, *saveptr and *strmax.                                                *)
Step(errno, tok, buffer, saveptr, strmax) ==
    [errno |-> errno, tok |-> tok, buffer |-> buffer, saveptr |-> saveptr, strmax |-> strmax]

Failed(errno, buffer, strmax) == Step(errno, 0, buffer, 0, strmax)

Terminator(buffer) == Min({i \in DOMAIN buffer : buffer[i] = 0})

(* Mutant: the last byte is not looked at. *)
ScanShort(buffer, str, strmax, stops) ==
    LET at == {i \in str .. str + strmax - 2 : buffer[i] \in stops}
    IN IF at = {} THEN 0 ELSE Min(at)

(* The place of the first byte from str on that is one of stops, within strmax  *)
(* bytes: strmax of them are read otherwise.                                    *)
Scan(buffer, str, strmax, stops) ==
    LET at == {i \in str .. str + strmax - 1 : buffer[i] \in stops}
    IN IF at = {} THEN 0 ELSE Min(at)

(* str: the first place of the string, or 0 on a later call. *)
Tokenize(buffer, str, strmax, delim) ==
    LET first == Scan(buffer, str, strmax, Range(buffer) \ delim)
        left  == strmax - (first - str) - 1
        next  == Scan(buffer, first + 1, left, {0} \cup delim)
        rest  == left - (next - first)
    IN CASE strmax = 0 -> Failed(0, buffer, 0)
         [] strmax # 0 /\ first = 0 -> Failed(ERANGE, buffer, 0)
         [] first # 0 /\ buffer[first] = 0 -> Failed(0, buffer, 0)
         [] first # 0 /\ buffer[first] # 0 /\ left = 0 -> Failed(ERANGE, buffer, 0)
         [] first # 0 /\ buffer[first] # 0 /\ left # 0 ->
                CASE next = 0 -> Failed(ERANGE, buffer, 0)
                  [] next # 0 /\ buffer[next] = 0 -> Step(0, first, buffer, 0, rest)
                  [] next # 0 /\ buffer[next] # 0 ->
                        Step(0, first, [buffer EXCEPT ![next] = 0], next + 1, rest)

safe_strtok_impl(null, buffer, str, saveptr, strmax, delim) ==
    LET length == Min({Terminator(buffer) - 1, TOKEN_RSIZE_MAX})
    IN CASE null \cap {"strmax", "delim", "saveptr"} # {} -> Step(EINVAL, 0, buffer, saveptr, strmax)
         [] null = {} /\ str # 0 /\ length \in {0, TOKEN_RSIZE_MAX} -> Failed(ERANGE, buffer, length)
         [] null = {} /\ str # 0 /\ length \in 1 .. TOKEN_RSIZE_MAX - 1 -> Tokenize(buffer, str, length + 1, delim)
         [] null = {} /\ str = 0 /\ saveptr = 0 -> Failed(IF strmax # 0 THEN EINVAL ELSE 0, buffer, strmax)
         [] null = {} /\ str = 0 /\ saveptr # 0 -> Tokenize(buffer, saveptr, strmax, delim)
=============================================================================
