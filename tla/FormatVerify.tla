------------------------------ MODULE FormatVerify ------------------------------
(* validate_format.c: the walk over a format and its arguments that the secured *)
(* printing makes first.  A format is a sequence of characters; an argument is  *)
(* the kind of its value: "value" for a number, "string" and "empty" for a      *)
(* text, "null", and "unconvertible" for a wide one with no multibyte form.     *)
EXTENDS Integers, Sequences, SequencesExt, FiniteSetsExt

CONSTANT C_STR_LITERAL_LIMIT    \* the longest format that is looked at

ASSUME FormatAssumption == C_STR_LITERAL_LIMIT \in Nat

(* The walk: its result, the place it is at, the offset kept for the caller,    *)
(* how many arguments it took, with which types, and the length modifiers.      *)
Walk(at) == [result |-> "SUCCESS", at |-> at, offset |-> at, taken |-> <<>>, mods |-> {}]

Char(f, at) == IF at < Len(f) THEN f[at + 1] ELSE "end"

FormatLength(f) == Min({Len(f), C_STR_LITERAL_LIMIT})

(* strstr(place, "%"), or -1. *)
NextPercent(f, from) ==
    LET at == {i \in from .. Len(f) - 1 : Char(f, i) = "%"} IN IF at = {} THEN 0 - 1 ELSE Min(at)

update_Format_Offset(f, v) ==
    [v EXCEPT !.offset = v.at, !.result = IF v.at >= FormatLength(f) THEN "COMPLETE" ELSE "SUCCESS"]

Advance(f, v, n) == update_Format_Offset(f, [v EXCEPT !.at = @ + n])
Invalid(v)       == [v EXCEPT !.result = "INVALID"]
Take(v, type)    == [v EXCEPT !.taken = Append(@, type)]

(* The argument va_arg gives: behind the last one there is none. *)
Arg(args, v) == IF Len(v.taken) < Len(args) THEN args[Len(v.taken) + 1] ELSE "none"

(* M_VALIDATE_FORMAT_RETURN_VAL: the next part is looked at after a success.    *)
AndThen(v, Part(_)) == IF v.result = "SUCCESS" THEN Part(v) ELSE v

(* After %% the walk goes on right behind it. *)
check_For_Litteral_Precent(f, v) ==
    IF Char(f, v.at) = "end" \/ Char(f, v.at + 1) = "end" THEN Invalid(v)
    ELSE IF Char(f, v.at) = "%" /\ Char(f, v.at + 1) = "%"
    THEN LET next == Advance(f, v, 2)
         IN IF next.result = "SUCCESS" THEN [next EXCEPT !.result = "CONTINUE"] ELSE next
    ELSE Advance(f, v, 1)

(* One flag. *)
validate_Format_Flags(f, v) ==
    IF Char(f, v.at) \in {"-", "+", " ", "#", "0"} THEN Advance(f, v, 1) ELSE v

DigitChars == {"0", "1", "2", "5"}
Digits(f, at) == Min({n \in 0 .. Len(f) - at : Char(f, at + n) \notin DigitChars})

(* strtol always sets its end pointer.  A number is within the range of int.    *)
validate_Format_Width(f, args, v) ==
    IF Char(f, v.at) = "*" THEN Advance(f, Take(v, "int"), 1) ELSE Advance(f, v, Digits(f, v.at))

validate_Format_Precision(f, args, v) ==
    LET dot == Advance(f, v, 1)
    IN IF Char(f, v.at) # "." THEN v
       ELSE IF dot.result = "COMPLETE" THEN dot ELSE validate_Format_Width(f, args, dot)

(* hh and ll are two letters; the letters of the other modifiers are not        *)
(* stepped over.                                                                *)
validate_Format_Length_Modifier(f, v) ==
    LET c == Char(f, v.at)
        twice == Char(f, v.at + 1) = c
    IN CASE c \in {"h", "l"} ->
                Advance(f, [v EXCEPT !.mods = IF twice THEN {c, c \o c} ELSE {c}], IF twice THEN 2 ELSE 1)
         [] c \in {"j", "z", "t"} -> update_Format_Offset(f, [v EXCEPT !.mods = {c, "l"}])
         [] c = "L" -> update_Format_Offset(f, [v EXCEPT !.mods = {c}])
         [] OTHER -> update_Format_Offset(f, v)

(* Mutant: the l of ll is found first. *)
validate_Format_IntegerAsLong(v) ==
    Take(v, IF "h" \in v.mods THEN "int"
            ELSE IF "l" \in v.mods THEN "long" ELSE IF "ll" \in v.mods THEN "long long" ELSE "int")

(* The type an integer argument is read as: hh and h are promoted to int. *)
validate_Format_Integer(v) ==
    Take(v, IF "h" \in v.mods THEN "int"
            ELSE IF "ll" \in v.mods THEN "long long" ELSE IF "l" \in v.mods THEN "long" ELSE "int")

validate_Format_Float(v) == Take(v, IF "L" \in v.mods THEN "long double" ELSE "double")

(* A wide character or string has to have a multibyte form that is not empty,   *)
(* and the memory for it.                                                       *)
validate_Wchar_Conversion(arg, memory) == arg # "unconvertible" /\ memory
validate_WStr_Conversion(arg, memory)  == arg \notin {"null", "unconvertible", "empty"} /\ memory

validate_Format_Char(args, memory, v) ==
    IF "l" \notin v.mods THEN Take(v, "int")
    ELSE IF validate_Wchar_Conversion(Arg(args, v), memory) THEN Take(v, "wint_t") ELSE Invalid(Take(v, "wint_t"))

validate_Format_Pointer(v) == Take(v, "pointer")

validate_Format_String(args, memory, v) ==
    LET accepted == IF "l" \in v.mods THEN validate_WStr_Conversion(Arg(args, v), memory) ELSE Arg(args, v) # "null"
    IN IF accepted THEN Take(v, "pointer") ELSE Invalid(Take(v, "pointer"))

validate_Format_Specifier(f, args, memory, v) ==
    LET c == Char(f, v.at)
        done == CASE c = "c" -> validate_Format_Char(args, memory, v)
                  [] c = "p" -> validate_Format_Pointer(v)
                  [] c = "s" -> validate_Format_String(args, memory, v)
                  [] c \in {"d", "i", "u", "x", "X", "o", "b"} -> validate_Format_Integer(v)
                  [] c \in {"f", "F", "e", "E", "a", "A", "g", "G"} -> validate_Format_Float(v)
                  [] OTHER -> Invalid(v)
    IN IF done.result = "INVALID" THEN done ELSE Advance(f, done, 1)

(* One round of the loop. *)
Specification(f, args, memory, v) ==
    AndThen(check_For_Litteral_Precent(f, v),
        LAMBDA a : AndThen(validate_Format_Flags(f, a),
        LAMBDA b : AndThen(validate_Format_Width(f, args, b),
        LAMBDA c : AndThen(validate_Format_Precision(f, args, c),
        LAMBDA d : AndThen(validate_Format_Length_Modifier(f, d),
        LAMBDA e : AndThen(validate_Format_Specifier(f, args, memory, e),
        LAMBDA g : IF NextPercent(f, g.at) < 0 THEN [g EXCEPT !.result = "COMPLETE"]
                   ELSE update_Format_Offset(f, [g EXCEPT !.at = NextPercent(f, g.at)])))))))

RECURSIVE Rounds(_, _, _, _)
Rounds(f, args, memory, v) ==
    LET next == Specification(f, args, memory, [v EXCEPT !.mods = {}])
    IN IF v.offset >= FormatLength(f) THEN v
       ELSE IF next.result \in {"COMPLETE", "INVALID"} THEN next ELSE Rounds(f, args, memory, next)

(* ret: -1, or the offset the walk ended at. *)
verify_Format_String_And_Args(null, f, args, memory) ==
    LET end == Rounds(f, args, memory, Walk(NextPercent(f, 0)))
    IN IF null THEN [ret |-> 0 - 1, taken |-> <<>>]
       ELSE IF NextPercent(f, 0) < 0 THEN [ret |-> 0, taken |-> <<>>]
       ELSE [ret |-> IF end.result = "INVALID" THEN 0 - 1 ELSE end.offset, taken |-> end.taken]
=============================================================================
