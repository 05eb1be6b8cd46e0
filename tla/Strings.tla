-------------------------------- MODULE Strings --------------------------------
(* The character tests and the string editing of string_utils.c, and the        *)
(* comparison of version_sort.c.  A char is an integer, signed as on most       *)
(* builds; a string is the sequence of its chars without the terminator, a      *)
(* buffer of a length given by the caller may hold 0.                           *)
EXTENDS ErrorCodes, SequencesExt

EOF == 0 - 1
UCHAR_MAX == 255

(* --------------------------------------------- characters, in the C locale *)

digits  == 48 .. 57
uppers  == 65 .. 90
lowers  == 97 .. 122
spaces  == 9 .. 13 \cup {32}
cntrls  == 0 .. 31 \cup {127}
graphs  == 33 .. 126

Tested(errno, yes) == [errno |-> errno, yes |-> yes]

is_valid_unsigned_char_range(c) == c \in 0 .. UCHAR_MAX

(* is_ASCII: no bit outside 0x7F. *)
is_ASCII(c) == c \in 0 .. 127

(* Zero and EOF are answered with no before the test of the class is made. *)
handle_eof(c) == IF c = EOF THEN 0 ELSE c

Test(c, class) ==
    IF handle_eof(c) = 0 THEN Tested(0, FALSE)
    ELSE IF is_valid_unsigned_char_range(c) THEN Tested(0, c \in class)
    ELSE Tested(ERANGE, FALSE)

safe_isascii(c)  == Test(c, {x \in 0 .. UCHAR_MAX : is_ASCII(x)})
safe_isalnum(c)  == Test(c, digits \cup uppers \cup lowers)
safe_isalpha(c)  == Test(c, uppers \cup lowers)
safe_islower(c)  == Test(c, lowers)
safe_isupper(c)  == Test(c, uppers)
safe_isdigit(c)  == Test(c, digits)
safe_isxdigit(c) == Test(c, digits \cup 65 .. 70 \cup 97 .. 102)
safe_iscntrl(c)  == Test(c, cntrls)
safe_isgraph(c)  == Test(c, graphs)
safe_isspace(c)  == Test(c, spaces)
safe_isblank(c)  == Test(c, {9, 32})
safe_isprint(c)  == Test(c, graphs \cup {32})
safe_ispunct(c)  == Test(c, graphs \ (digits \cup uppers \cup lowers))

Converted(errno, c) == [errno |-> errno, c |-> c]

Convert(c, from, by) ==
    IF is_valid_unsigned_char_range(c) THEN Converted(0, IF c \in from THEN c + by ELSE c)
    ELSE IF c = EOF THEN Converted(0, EOF) ELSE Converted(ERANGE, c)

safe_tolower(c) == Convert(c, uppers, 32)
safe_toupper(c) == Convert(c, lowers, 0 - 32)

(* ------------------------------------------------------------- editing *)

byte_Swap_String_Len(s) ==
    LET pairs == Len(s) - (Len(s) % 2)
    IN [i \in 1 .. Len(s) |-> IF i > pairs THEN s[i] ELSE IF i % 2 = 1 THEN s[i + 1] ELSE s[i - 1]]

(* What is cut off at the front, and at the back: there a byte above 0x7F, a    *)
(* negative char, goes as well.                                                 *)
CutInFront(c) == safe_isascii(c).yes /\ (safe_isspace(c).yes \/ safe_iscntrl(c).yes)

(* Mutant: control characters stay behind. *)
CutSpacesBehind(c) == c < 0 \/ safe_isspace(c).yes
CutBehind(c)  == c < 0 \/ safe_isspace(c).yes \/ safe_iscntrl(c).yes

Leading(s)      == Min({n \in 0 .. Len(s) : n = Len(s) \/ ~CutInFront(s[n + 1])})
End(s, start)   == Min({e \in start .. Len(s) : \A i \in e + 1 .. Len(s) : CutBehind(s[i])})

Zeros(n) == [i \in 1 .. n |-> 0]

remove_Trailing_Whitespace_Len(s) == SubSeq(s, 1, End(s, 0)) \o Zeros(Len(s) - End(s, 0))

(* The end is zeroed with its own length as the room: refused when more was cut *)
(* off than is left.                                                            *)
remove_Leading_Whitespace_Len(s) ==
    LET iter == Leading(s)
        left == Len(s) - iter
        tail == IF iter <= left THEN Zeros(iter) ELSE SubSeq(s, left + 1, Len(s))
    IN SubSeq(s, iter + 1, Len(s)) \o tail

remove_Leading_And_Trailing_Whitespace_Len(s) ==
    LET start  == Leading(s)
        newlen == End(s, start) - start
    IN SubSeq(s, start + 1, start + newlen) \o Zeros(Len(s) - newlen)

remove_Leading_And_Trailing_Control_Char_Len(s) == remove_Leading_And_Trailing_Whitespace_Len(s)

Each(s, F(_)) == [i \in 1 .. Len(s) |-> F(s[i])]

convert_String_To_Upper_Case_Len(s) == Each(s, LAMBDA c : safe_toupper(c).c)
convert_String_To_Lower_Case_Len(s) == Each(s, LAMBDA c : safe_tolower(c).c)
convert_String_To_Inverse_Case_Len(s) ==
    Each(s, LAMBDA c : IF safe_islower(c).yes THEN safe_toupper(c).c
                       ELSE IF safe_isupper(c).yes THEN safe_tolower(c).c ELSE c)

(* The functions without a length take the string up to its terminator. *)
UpToTerminator(b) == SubSeq(b, 1, Min({n \in 0 .. Len(b) : n = Len(b) \/ b[n + 1] = 0}))
Edit(b, F(_)) == F(UpToTerminator(b)) \o SubSeq(b, Len(UpToTerminator(b)) + 1, Len(b))

byte_Swap_String(b)            == Edit(b, byte_Swap_String_Len)
remove_Whitespace_Left(b)      == Edit(b, remove_Leading_Whitespace_Len)
remove_Trailing_Whitespace(b)  == Edit(b, remove_Trailing_Whitespace_Len)
remove_Leading_Whitespace(b)   == Edit(b, remove_Leading_Whitespace_Len)
remove_Leading_And_Trailing_Whitespace(b)   == Edit(b, remove_Leading_And_Trailing_Whitespace_Len)
remove_Leading_And_Trailing_Control_Char(b) == Edit(b, remove_Leading_And_Trailing_Control_Char_Len)
convert_String_To_Upper_Case(b)   == Edit(b, convert_String_To_Upper_Case_Len)
convert_String_To_Lower_Case(b)   == Edit(b, convert_String_To_Lower_Case_Len)
convert_String_To_Inverse_Case(b) == Edit(b, convert_String_To_Inverse_Case_Len)

(* ------------------------------------------------------------ searching *)

SIZE_MAX_RESULT == 0 - 1    \* SIZE_MAX as an answer

OccursAt(s, part, at) == at + Len(part) <= Len(s) /\ SubSeq(s, at + 1, at + Len(part)) = part

(* strstr from an offset on: the offset, or -1. *)
strstr(s, part, from) ==
    LET at == {i \in from .. Len(s) : OccursAt(s, part, i)} IN IF at = {} THEN 0 - 1 ELSE Min(at)

RECURSIVE LastFrom(_, _, _, _)
LastFrom(s, part, from, last) ==
    LET at == strstr(s, part, from)
    IN IF at < 0 THEN last ELSE LastFrom(s, part, at + Len(part), Len(s) - at)

find_last_occurrence_in_string(null, s, part) ==
    LET last == LastFrom(s, part, 0, SIZE_MAX_RESULT)
    IN IF null \/ part = <<>> THEN SIZE_MAX_RESULT
       ELSE IF last # SIZE_MAX_RESULT THEN last ELSE Len(s)

find_first_occurrence_in_string(null, s, part) == IF null THEN SIZE_MAX_RESULT ELSE strstr(s, part, 0)

star     == 42
question == 63

(* A char equal to its pattern is taken before a star is looked at. *)
RECURSIVE wildcard_match_internal(_, _, _)
wildcard_match_internal(pattern, data, caseInsensitive) ==
    LET one  == pattern # <<>> /\ data # <<>> /\
                   (\/ Head(pattern) = Head(data)
                    \/ caseInsensitive /\ safe_toupper(Head(pattern)).c = safe_toupper(Head(data)).c)
        any  == pattern # <<>> /\ Head(pattern) = question
    IN CASE pattern = <<>> /\ data = <<>> -> TRUE
         [] one \/ any -> data # <<>> /\ wildcard_match_internal(Tail(pattern), Tail(data), caseInsensitive)
         [] ~one /\ pattern # <<>> /\ Head(pattern) = star ->
                \/ wildcard_match_internal(Tail(pattern), data, caseInsensitive)
                \/ data # <<>> /\ wildcard_match_internal(pattern, Tail(data), caseInsensitive)
         [] OTHER -> FALSE

wildcard_case_match(pattern, data) == wildcard_match_internal(pattern, data, TRUE)
wildcard_match(pattern, data)      == wildcard_match_internal(pattern, data, FALSE)

(* -------------------------------------------------------------- versions *)

(* The number at the front: zeros in front of it, all digits, and the value.    *)
(* A value beyond the range of long is undefined behaviour and left out.        *)
string_version_compare_parse_number(s) ==
    LET count == Min({n \in 0 .. Len(s) : n = Len(s) \/ s[n + 1] \notin digits})
        zeros == Min({n \in 0 .. count : n = count \/ s[n + 1] # 48})
    IN [count |-> count, zeros |-> zeros,
        val |-> FoldLeft(LAMBDA v, c : v * 10 + (c - 48), 0, SubSeq(s, 1, count))]

Sign(a, b) == IF a > b THEN 1 ELSE IF a < b THEN 0 - 1 ELSE 0

Rest(s, n) == SubSeq(s, n + 1, Len(s))

Numbered(s) == s # <<>> /\ Head(s) \in digits

RECURSIVE string_version_compare(_, _)
string_version_compare(s1, s2) ==
    LET n1 == string_version_compare_parse_number(s1)
        n2 == string_version_compare_parse_number(s2)
    IN CASE s1 = <<>> \/ s2 = <<>> -> Sign(Len(s1), Len(s2))
         [] s1 # <<>> /\ s2 # <<>> /\ Numbered(s1) /\ Numbered(s2) ->
                (CASE n1.val # n2.val -> Sign(n1.val, n2.val)
                   [] n1.val = n2.val /\ n1.zeros # n2.zeros -> Sign(n2.zeros, n1.zeros)
                   [] n1.val = n2.val /\ n1.zeros = n2.zeros /\ n1.count # n2.count -> Sign(n2.count, n1.count)
                   [] n1.val = n2.val /\ n1.zeros = n2.zeros /\ n1.count = n2.count ->
                        string_version_compare(Rest(s1, n1.count), Rest(s2, n2.count)))
         [] s1 # <<>> /\ s2 # <<>> /\ ~(Numbered(s1) /\ Numbered(s2)) ->
                IF Head(s1) # Head(s2) THEN (Head(s1) % (UCHAR_MAX + 1)) - (Head(s2) % (UCHAR_MAX + 1))
                ELSE string_version_compare(Tail(s1), Tail(s2))

(* The entries of a directory are compared by their names. *)
version_sort(a, b) == string_version_compare(a.d_name, b.d_name)
=============================================================================
