------------------------------ MODULE SortSearch ------------------------------
(* Sorting and searching: sort_and_search.c, safe_qsort.c, safe_bsearch.c and   *)
(* safe_lsearch.c.  An element has a key, which the comparison looks at, and an *)
(* identity, which it does not; a table is a sequence of elements and places    *)
(* are its indexes, 0 is M_NULLPTR.  Elements are swapped whole.                *)
EXTENDS ErrorCodes

CONSTANT SEARCH_RSIZE_MAX    \* RSIZE_MAX

compare(x, y) == x.key - y.key

(* The arguments the checks look at: which pointers are NULL, count and size.   *)
Arguments(null, count, size) == [null |-> null, count |-> count, size |-> size]

SortChecks(args) ==
    FirstFailing(<< <<args.count > 0 /\ "ptr" \in args.null, EINVAL>>,
                    <<args.count > 0 /\ "compare" \in args.null, EINVAL>>,
                    <<args.count > SEARCH_RSIZE_MAX, ERANGE>>,
                    <<args.size > SEARCH_RSIZE_MAX, ERANGE>> >>)

SearchChecks(args) ==
    FirstFailing(<< <<args.count > 0 /\ "ptr" \in args.null, EINVAL>>,
                    <<args.count > 0 /\ "compare" \in args.null, EINVAL>>,
                    <<args.count > 0 /\ "key" \in args.null, EINVAL>>,
                    <<args.count > SEARCH_RSIZE_MAX, ERANGE>>,
                    <<args.size > SEARCH_RSIZE_MAX, ERANGE>> >>)

Sorted(errno, a) == [errno |-> errno, table |-> a]
Found(errno, at) == [errno |-> errno, at |-> at]

(* bsearch of the C library: a place whose element compares equal. *)
bsearch(key, a) ==
    LET equal == {i \in DOMAIN a : compare(key, a[i]) = 0}
    IN IF equal = {} THEN 0 ELSE Min(equal)

safe_bsearch_impl(args, key, a) ==
    IF SearchChecks(args) # 0 THEN Found(SearchChecks(args), 0)
    ELSE Found(0, IF args.count > 0 THEN bsearch(key, a) ELSE 0)

(* -------------------------------------------- the sort with a context *)

swapfunc(a, i, j) == [a EXCEPT ![i] = a[j], ![j] = a[i]]

(* n elements from i on with n elements from j on. *)
vecswap(a, i, j, n) ==
    [k \in DOMAIN a |->
        IF k \in i .. i + n - 1 THEN a[j + (k - i)]
        ELSE IF k \in j .. j + n - 1 THEN a[i + (k - j)] ELSE a[k]]

med3(t, a, b, c) ==
    IF compare(t[a], t[b]) < 0
    THEN IF compare(t[b], t[c]) < 0 THEN b ELSE IF compare(t[a], t[c]) < 0 THEN c ELSE a
    ELSE IF compare(t[b], t[c]) > 0 THEN b ELSE IF compare(t[a], t[c]) < 0 THEN a ELSE c

(* The element at pm goes down to ptr, past those before it that are greater.   *)
SinkLeft(a, ptr, pm) ==
    LET pl == Min({k \in ptr .. pm : \A j \in k .. pm - 1 : compare(a[j], a[pm]) > 0})
    IN [k \in DOMAIN a |-> IF k = pl THEN a[pm] ELSE IF k \in pl + 1 .. pm THEN a[k - 1] ELSE a[k]]

(* Mutant: the last element is not inserted. *)
InsertionSortShort(a, ptr, count) ==
    LET inserted[n \in 0 .. count - 1] == IF n = 0 THEN a ELSE SinkLeft(inserted[n - 1], ptr, ptr + n)
    IN IF count < 2 THEN a ELSE inserted[count - 2]

InsertionSort(a, ptr, count) ==
    LET inserted[n \in 0 .. count - 1] == IF n = 0 THEN a ELSE SinkLeft(inserted[n - 1], ptr, ptr + n) IN inserted[count - 1]

(* qsort of the C library: the same elements in order, equal ones in any.  This *)
(* one keeps the order of equal ones.                                           *)
qsort(a) == InsertionSort(a, 1, Len(a))

safe_qsort_impl(args, a) ==
    IF SortChecks(args) # 0 THEN Sorted(SortChecks(args), a)
    ELSE Sorted(0, IF args.count > 0 THEN qsort(a) ELSE a)

Pivot(a, ptr, count) ==
    LET middle == ptr + (count \div 2)
        last   == ptr + count - 1
        d      == count \div 8
    IN CASE count = 7 -> middle
         [] count > 7 /\ count <= 40 -> med3(a, ptr, middle, last)
         [] count > 40 -> med3(a, med3(a, ptr, ptr + d, ptr + 2 * d),
                                  med3(a, middle - d, middle, middle + d),
                                  med3(a, last - 2 * d, last - d, last))

(* The state of a partition: the elements equal to the first are gathered       *)
(* before pa and after pd, the smaller ones lie between pa and pb, the greater  *)
(* ones between pc and pd.                                                      *)
Parting(a, pa, pb, pc, pd, swapped) ==
    [a |-> a, pa |-> pa, pb |-> pb, pc |-> pc, pd |-> pd, swapped |-> swapped]

ScanUp(s, equal) ==
    IF equal THEN Parting(swapfunc(s.a, s.pa, s.pb), s.pa + 1, s.pb + 1, s.pc, s.pd, TRUE)
    ELSE Parting(s.a, s.pa, s.pb + 1, s.pc, s.pd, s.swapped)

ScanDown(s, equal) ==
    IF equal THEN Parting(swapfunc(s.a, s.pc, s.pd), s.pa, s.pb, s.pc - 1, s.pd - 1, TRUE)
    ELSE Parting(s.a, s.pa, s.pb, s.pc - 1, s.pd, s.swapped)

(* One round of one of the two loops, or the exchange behind them. *)
Part(s, ptr) ==
    LET up   == compare(s.a[s.pb], s.a[ptr])
        down == compare(s.a[s.pc], s.a[ptr])
    IN IF s.pb > s.pc THEN s
       ELSE IF up <= 0 THEN ScanUp(s, up = 0)
       ELSE IF down >= 0 THEN ScanDown(s, down = 0)
       ELSE Parting(swapfunc(s.a, s.pb, s.pc), s.pa, s.pb + 1, s.pc - 1, s.pd, TRUE)

(* The loops meet after at most as many rounds as there are elements. *)
Partition(s, ptr, count) ==
    LET parted[n \in 0 .. count] == IF n = 0 THEN s ELSE Part(parted[n - 1], ptr) IN parted[count]

(* The equal elements of both ends between the smaller and the greater ones. *)
Gathered(s, ptr, pn) ==
    LET d1   == Min({s.pa - ptr, s.pb - s.pa})
        left == vecswap(s.a, ptr, s.pb - d1, d1)
        d2   == Min({s.pd - s.pc, pn - s.pd - 1})
    IN vecswap(left, s.pb, pn - d2, d2)

Elements(ptr, count) == [ptr |-> ptr, count |-> count]
ToSort(ptr, count)   == IF count > 1 THEN {Elements(ptr, count)} ELSE {}

(* Going once round the loop.  A partition that swapped nothing is taken for    *)
(* nearly sorted.  Of the two sides that are left one is sorted by a call, the  *)
(* other one in the next round.                                                 *)
SortPart(a, parts, ptr, count) ==
    LET s == Partition(Parting(swapfunc(a, ptr, Pivot(a, ptr, count)), ptr + 1, ptr + 1, ptr + count - 1,
                               ptr + count - 1, FALSE), ptr, count)
        pn      == ptr + count
        smaller == s.pb - s.pa
        greater == s.pd - s.pc
    IN IF count < 7 THEN [a |-> InsertionSort(a, ptr, count), parts |-> parts]
       ELSE IF ~s.swapped THEN [a |-> InsertionSort(s.a, ptr, count), parts |-> parts]
       ELSE [a |-> Gathered(s, ptr, pn),
             parts |-> parts \cup ToSort(ptr, smaller) \cup ToSort(pn - greater, greater)]

(* What is left to sort shares no place, so the order does not matter: the      *)
(* first part is taken.                                                         *)
SortNext(s) ==
    LET part == CHOOSE p \in s.parts : \A q \in s.parts : p.ptr <= q.ptr
    IN IF s.parts = {} THEN s ELSE SortPart(s.a, s.parts \ {part}, part.ptr, part.count)

(* Every round puts an element where it stays. *)
QuickSort(a, count) ==
    LET sorting[n \in 0 .. count] == IF n = 0 THEN [a |-> a, parts |-> ToSort(1, count)] ELSE SortNext(sorting[n - 1])
    IN sorting[count].a

safe_qsort_context_impl(args, a) ==
    IF SortChecks(args) # 0 THEN Sorted(SortChecks(args), a)
    ELSE Sorted(0, IF args.count > 0 THEN QuickSort(a, args.count) ELSE a)

(* ------------------------------------------------ search with a context *)

(* What is left are lim elements from base on; at is the one found. *)
Halving(base, lim, at) == [base |-> base, lim |-> lim, at |-> at]

Halve(key, a, h) ==
    LET p   == h.base + (h.lim \div 2)
        cmp == compare(key, a[p])
    IN IF h.lim = 0 \/ h.at # 0 THEN h
       ELSE IF cmp = 0 THEN Halving(h.base, h.lim, p)
       ELSE IF cmp > 0 THEN Halving(p + 1, (h.lim - 1) \div 2, 0)
       ELSE Halving(h.base, h.lim \div 2, 0)

(* Every round leaves fewer. *)
Halved(key, a, count) ==
    LET halving[n \in 0 .. count] == IF n = 0 THEN Halving(1, count, 0) ELSE Halve(key, a, halving[n - 1])
    IN halving[count].at

safe_bsearch_context_impl(args, key, a) ==
    IF SearchChecks(args) # 0 THEN Found(SearchChecks(args), 0)
    ELSE Found(0, Halved(key, a, args.count))

(* -------------------------------------------------------- linear search *)

Worked(errno, at, a) == [errno |-> errno, at |-> at, table |-> a]

LinearChecks(args) ==
    FirstFailing(<< <<"nelp" \in args.null, EINVAL>>,
                    <<args.count > 0 /\ "ptr" \in args.null, EINVAL>>,
                    <<args.count > 0 /\ "compare" \in args.null, EINVAL>>,
                    <<args.count > 0 /\ "key" \in args.null, EINVAL>>,
                    <<args.count > SEARCH_RSIZE_MAX, ERANGE>>,
                    <<args.size > SEARCH_RSIZE_MAX, ERANGE>>,
                    <<args.size = 0, ERANGE>> >>)

FirstEqual(key, a) == {i \in DOMAIN a : compare(key, a[i]) = 0}

(* The copy of the key behind the last element: refused for a NULL pointer, and *)
(* where the key lies in the memory it is copied to.                            *)
CopyError(args, overlaps) == IF args.null \cap {"ptr", "key"} # {} \/ overlaps THEN EINVAL ELSE 0

(* add: LWORK_MODE_SEARCH. *)
safe_lwork(args, key, a, add, overlaps) ==
    LET at     == FirstEqual(key, a)
        copied == CopyError(args, overlaps)
    IN CASE LinearChecks(args) # 0 -> Worked(LinearChecks(args), 0, a)
         [] LinearChecks(args) = 0 /\ at # {} -> Worked(0, Min(at), a)
         [] LinearChecks(args) = 0 /\ at = {} /\ ~add -> Worked(0, 0, a)
         [] LinearChecks(args) = 0 /\ at = {} /\ add ->
                IF copied # 0 THEN Worked(copied, 0, a) ELSE Worked(0, Len(a) + 1, Append(a, key))

(* The version with a context returns the place behind the table when the copy  *)
(* fails, and no error.                                                         *)
safe_lwork_context(args, key, a, add, overlaps) ==
    IF /\ LinearChecks(args) = 0 /\ FirstEqual(key, a) = {} /\ add
       /\ CopyError(args, overlaps) # 0
    THEN Worked(0, Len(a) + 1, a)
    ELSE safe_lwork(args, key, a, add, overlaps)

safe_lsearch_impl(args, key, a, overlaps)         == safe_lwork(args, key, a, TRUE, overlaps)
safe_lfind_impl(args, key, a)                     == safe_lwork(args, key, a, FALSE, FALSE)
safe_lsearch_context_impl(args, key, a, overlaps) == safe_lwork_context(args, key, a, TRUE, overlaps)
safe_lfind_context_impl(args, key, a)             == safe_lwork_context(args, key, a, FALSE, FALSE)
=============================================================================
