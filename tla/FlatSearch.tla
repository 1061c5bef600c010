----------------------------- MODULE FlatSearch -----------------------------
(***************************************************************************)
(* Searching and sorting vectors in a buffer: the find, scan, rscan and    *)
(* sort functions that the macros of nanoarrow_ipc.c define for vectors of *)
(* scalars and of strings, and for the fields of tables and structs.       *)
(*                                                                         *)
(* Indices start at 0 as in the code.  A search only reads, so it is       *)
(* defined on the comparisons of the elements with the key, in order; a    *)
(* sort moves bytes in the buffer.  Numbers are non-negative here.         *)
(***************************************************************************)
EXTENDS FlatBuffers

not_found == -2

scalar_cmp(x, y) == IF x < y THEN -1 ELSE IF x > y THEN 1 ELSE 0

(* The C library: bytes are compared up to the first that differs or is 0. *)
strncmp(v, s, n) ==
    LET at(t, i) == IF i <= Len(t) THEN t[i] ELSE 0
        stops == {i \in 1..n : at(v, i) # at(s, i) \/ at(v, i) = 0}
    IN  IF stops = {} THEN 0
        ELSE scalar_cmp(at(v, Min(stops)), at(s, Min(stops)))
strcmp(v, s) == strncmp(v, s, Len(v) + 1)

string_n_cmp(v, s, n) ==
    LET x == strncmp(v, s, Min({Len(v), n}))
    IN  IF x # 0 THEN x ELSE scalar_cmp(Len(v), n)
string_cmp(v, s, n) == strcmp(v, s)
string_diff(x, y) == string_n_cmp(x, y, Len(y))

(* Bisection of cmp[a + 1 .. b + 1] for the first that is not negative. *)
RECURSIVE Bisect(_, _, _)
Bisect(cmp, a, b) ==
    LET mid == a + ((b - a) \div 2) IN
    IF a >= b THEN a
    ELSE IF cmp[mid + 1] < 0 THEN Bisect(cmp, mid + 1, b)
    ELSE Bisect(cmp, a, mid)

find_by_field(cmp) ==
    LET a == Bisect(cmp, 0, Len(cmp) - 1) IN
    IF cmp = << >> THEN not_found
    ELSE IF cmp[a + 1] = 0 THEN a ELSE not_found

(* The loops look at b, ..., e - 1 or back; nothing keeps them in the      *)
(* vector but the bounds they are given.                                   *)
scan_by_field(cmp, b, e) ==
    LET stops == {i \in b .. e - 1 : i >= Len(cmp) \/ cmp[i + 1] = 0} IN
    IF stops = {} THEN not_found
    ELSE IF Min(stops) >= Len(cmp) THEN Stray ELSE Min(stops)
rscan_by_field(cmp, b, e) ==
    LET stops == {i \in b .. e - 1 : i >= Len(cmp) \/ cmp[i + 1] = 0} IN
    IF stops = {} THEN not_found
    ELSE IF Max(stops) >= Len(cmp) THEN Stray ELSE Max(stops)

(* N_vec_scan and _by_NK, and their _ex forms on a part of the vector. *)
vec_scan(cmp) == scan_by_field(cmp, 0, Len(cmp))
vec_rscan(cmp) == rscan_by_field(cmp, 0, Len(cmp))
vec_scan_ex(cmp, begin, end) ==
    scan_by_field(cmp, begin, Min({end, Len(cmp)}))
vec_rscan_ex(cmp, begin, end) ==
    rscan_by_field(cmp, begin, Min({end, Len(cmp)}))

(* The comparisons of a vector of scalars or of a scalar field of its      *)
(* elements with key, and of strings with s or the n first bytes of s.     *)
Scalars(keys, key) == [i \in DOMAIN keys |-> scalar_cmp(keys[i], key)]
Strings(keys, s) == [i \in DOMAIN keys |-> string_cmp(keys[i], s, 0)]
Strings_n(keys, s, n) == [i \in DOMAIN keys |-> string_n_cmp(keys[i], s, n)]

-----------------------------------------------------------------------------
(* Sorting.  A vector in buffer m is [p, kind, size]: the address of its   *)
(* length, "scalar" or "string", and the size of an element.               *)

vec_len(m, d) == read_uoffset(m, d.p)
Slot(d, i) == d.p + 4 + d.size * i
vec_at(m, d, i) ==
    IF d.kind = "string"
    THEN string_at(m, Slot(d, i) + read_uoffset(m, Slot(d, i)))[2]
    ELSE Number(BytesAt(m, Slot(d, i), d.size))
Less(d, x, y) ==
    IF d.kind = "string" THEN string_diff(x, y) < 0 ELSE scalar_cmp(x, y) < 0

Stored(m, p, b) ==
    [i \in DOMAIN m |-> IF i - p \in DOMAIN b THEN b[i - p] ELSE m[i]]
value_swap(m, d, a, b) ==
    LET x == BytesAt(m, Slot(d, b), d.size)
        m1 == Stored(m, Slot(d, b), BytesAt(m, Slot(d, a), d.size))
    IN  Stored(m1, Slot(d, a), x)

(* An offset is relative to its own place, so it changes when it moves. *)
uoffset_swap(m, d, a, b) ==
    LET dist == UOffset((a - b) * d.size)
        ta == UOffset(read_uoffset(m, Slot(d, b)) - dist)
        tb == UOffset(read_uoffset(m, Slot(d, a)) + dist)
    IN  Stored(Stored(m, Slot(d, a), Bytes(ta, 4)), Slot(d, b), Bytes(tb, 4))

Swap(m, d, a, b) ==
    IF d.kind = "string" THEN uoffset_swap(m, d, a, b)
    ELSE value_swap(m, d, a, b)

(* Element 0 is on top of a heap whose nodes are numbered from 1. *)
RECURSIVE heap_sift_down(_, _, _, _)
heap_sift_down(m, d, root, end) ==
    LET left == 2 * root
        child == IF left < end /\ Less(d, vec_at(m, d, left),
                                          vec_at(m, d, left + 1))
                 THEN left + 1 ELSE left
    IN  IF left <= end /\ Less(d, vec_at(m, d, root), vec_at(m, d, child))
        THEN heap_sift_down(Swap(m, d, root, child), d, child, end)
        ELSE m

RECURSIVE Heapified(_, _, _, _)
Heapified(m, d, start, end) ==
    LET m1 == heap_sift_down(m, d, start, end) IN
    IF start = 0 THEN m1 ELSE Heapified(m1, d, start - 1, end)
RECURSIVE Unheaped(_, _, _)
Unheaped(m, d, end) ==
    IF end = 0 THEN m
    ELSE Unheaped(heap_sift_down(Swap(m, d, 0, end), d, 0, end - 1), d, end - 1)

(* The plausible slip: the heap is taken for granted. *)
heap_sort_unheaped(m, d) ==
    IF vec_len(m, d) = 0 THEN m ELSE Unheaped(m, d, vec_len(m, d) - 1)

heap_sort(m, d) ==
    LET size == vec_len(m, d) IN
    IF size = 0 THEN m
    ELSE Unheaped(Heapified(m, d, size \div 2, size - 1), d, size - 1)

=============================================================================
