------------------------------ MODULE SortCalls ------------------------------
(* Calls of the sorts and searches, one at a time, and what they are for.       *)
EXTENDS SortSearch, Calls

CONSTANT Tables         \* the keys of the tables that are sorted and searched

ASSUME TablesAssumption ==
    /\ SEARCH_RSIZE_MAX \in Nat \ {0}
    /\ Tables \subseteq Seq(Int) /\ \A keys \in Tables : Len(keys) <= SEARCH_RSIZE_MAX

Table(keys) == [i \in DOMAIN keys |-> [key |-> keys[i], id |-> i]]
Good(n) == Arguments({}, n, 1)
Faulty == {Arguments({"ptr"}, 2, 1), Arguments({"compare"}, 2, 1), Arguments({}, SEARCH_RSIZE_MAX + 1, 1),
           Arguments({}, 2, SEARCH_RSIZE_MAX + 1)}
Ascending(a) == \A i \in 1 .. Len(a) - 1 : a[i].key <= a[i + 1].key

SortOut(f, args, a) == IF f = "qsort" THEN safe_qsort_impl(args, a) ELSE safe_qsort_context_impl(args, a)

Sorting ==
    \E keys \in Tables, f \in {"qsort", "qsort_context"} : \E args \in {Good(Len(keys))} \cup Faulty :
        /\ args \in Faulty => Len(keys) = 2
        /\ Called("sort", f, [a |-> Table(keys), args |-> args], SortOut(f, args, Table(keys)))

SearchOut(f, args, key, a) ==
    CASE f = "bsearch" -> safe_bsearch_impl(args, key, a)
      [] f = "bsearch_context" -> safe_bsearch_context_impl(args, key, a)
      [] f = "lfind" -> safe_lfind_impl(args, key, a)
      [] f = "lfind_context" -> safe_lfind_context_impl(args, key, a)
      [] f = "lsearch" -> safe_lsearch_impl(args, key, a, FALSE)
      [] f = "lsearch_context" -> safe_lsearch_context_impl(args, key, a, FALSE)

Searching ==
    \E keys \in Tables, k \in 0 .. 3, args \in {Good(0), Arguments({"key"}, 2, 1)} \cup Faulty :
    \E f \in {"lfind", "lfind_context", "lsearch", "lsearch_context"}
             \cup (IF Ascending(Table(keys)) THEN {"bsearch", "bsearch_context"} ELSE {}) :
        LET a    == Table(keys)
            key  == [key |-> k, id |-> 0]
            used == IF args = Good(0) THEN Good(Len(keys)) ELSE args
        IN /\ used \in Faulty => Len(keys) = 2
           /\ Len(keys) # 7 \/ Ascending(a)
           /\ Called("search", f, [a |-> a, key |-> key, args |-> used], SearchOut(f, used, key, a))

(* Both sorts give the same elements in order, whatever the table: equal keys,  *)
(* sorted, reversed, longer than each threshold of the choice of the pivot; the *)
(* searches find an element that is equal exactly if there is one, and a search *)
(* that adds appends the key once; a refused call changes nothing.              *)
SortedAndFound ==
    /\ Is("sort") =>
          LET a == call.in.a  t == call.out.table
          IN IF call.in.args = Good(Len(a))
             THEN /\ call.out.errno = 0 /\ Ascending(t) /\ Len(t) = Len(a)
                  /\ {t[i] : i \in DOMAIN t} = {a[i] : i \in DOMAIN a}
             ELSE call.out.errno # 0 /\ t = a
    /\ Is("search") =>
          LET a == call.in.a  key == call.in.key  at == call.out.at
              equal  == {i \in DOMAIN a : a[i].key = key.key}
              adding == call.f \in {"lsearch", "lsearch_context"}
          IN IF call.in.args # Good(Len(a)) THEN call.out.errno # 0 /\ at = 0
             ELSE /\ call.out.errno = 0
                  /\ IF equal # {} THEN at \in equal ELSE at = IF adding THEN Len(a) + 1 ELSE 0
                  /\ adding => call.out.table = IF equal = {} THEN Append(a, key) ELSE a

SortSpec == call = Idle /\ [][Sorting \/ Searching \/ OtherThan({"sort", "search"})]_call
===============================================================================
