------------------------------ MODULE TokenCalls ------------------------------
(* A string taken apart: a first call of safe_strtok and the calls that follow, *)
(* as long as they give a token, each token read before the next call.          *)
EXTENDS Tokenizer, Calls

CONSTANTS
    Characters,     \* the bytes strings are made of
    Delimiters      \* the sets of bytes that delimit tokens

ASSUME TokenAssumption ==
    /\ TOKEN_RSIZE_MAX \in Nat \ {0}
    /\ Characters \subseteq Nat \ {0}
    /\ \A d \in Delimiters : d \subseteq Nat \ {0}

TokenText(step) ==
    SubSeq(step.buffer, step.tok, Min({i \in step.tok .. Len(step.buffer) : step.buffer[i] = 0}) - 1)

Took(step, tokens) ==
    [step |-> step, tokens |-> IF step.tok = 0 THEN tokens ELSE Append(tokens, TokenText(step))]

LaterToken(t, delim) ==
    IF t.step.tok = 0 THEN t
    ELSE Took(safe_strtok_impl({}, t.step.buffer, 0, t.step.saveptr, t.step.strmax, delim), t.tokens)

Tokens(null, s, d1, d2) ==
    LET taking[k \in 0 .. Len(s)] ==
            IF k = 0 THEN Took(safe_strtok_impl(null, Append(s, 0), 1, 0, 0, d1), <<>>) ELSE LaterToken(taking[k - 1], d2)
        last == taking[Len(s)]
    IN [tokens |-> last.tokens, errno |-> last.step.errno]

Splitting ==
    \E n \in 0 .. TOKEN_RSIZE_MAX : \E s \in [1 .. n -> Characters], d1, d2 \in Delimiters,
       null \in {{}, {"strmax"}, {"delim"}, {"saveptr"}} :
        Called("tokens", "strtok", [s |-> s, d1 |-> d1, d2 |-> d2, null |-> null], Tokens(null, s, d1, d2))

(* The longest parts of s without a delimiter, from a place on: where they      *)
(* start, the one that starts at i, and that tokens are all of them, in order.  *)
PartStarts(s, from, d) == {i \in from .. Len(s) : s[i] \notin d /\ (i = from \/ s[i - 1] \in d)}
PartAt(s, i, d) == SubSeq(s, i, Min({j \in i .. Len(s) : j = Len(s) \/ s[j + 1] \in d}))
AreTheParts(tokens, s, from, d) ==
    \E at \in [DOMAIN tokens -> PartStarts(s, from, d)] :
        /\ \A k, l \in DOMAIN tokens : k < l => at[k] < at[l]
        /\ \A i \in PartStarts(s, from, d) : \E k \in DOMAIN tokens : at[k] = i
        /\ \A k \in DOMAIN tokens : tokens[k] = PartAt(s, at[k], d)

(* The tokens of a string are its longest parts without a delimiter, in order,  *)
(* the first by the delimiters of the first call and the others, behind the     *)
(* delimiter that ended it, by those of the later calls; then there is none and *)
(* no error.  A string that is empty or not below the limit is refused.         *)
TokensAreTheParts ==
    Is("tokens") =>
        LET x == call.in  tokens == call.out.tokens
            kept == {i \in DOMAIN x.s : x.s[i] \notin x.d1}
        IN IF x.null # {} THEN call.out.errno = EINVAL /\ tokens = <<>>
           ELSE IF Len(x.s) \in {0, TOKEN_RSIZE_MAX} THEN call.out.errno = ERANGE /\ tokens = <<>>
           ELSE /\ call.out.errno = 0
                /\ IF kept = {} THEN tokens = <<>>
                   ELSE /\ tokens # <<>> /\ Head(tokens) = PartAt(x.s, Min(kept), x.d1)
                        /\ AreTheParts(Tail(tokens), x.s, Min(kept) + Len(Head(tokens)) + 1, x.d2)

TokenSpec == call = Idle /\ [][Splitting \/ OtherThan({"tokens"})]_call
===============================================================================
