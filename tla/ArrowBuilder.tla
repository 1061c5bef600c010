---------------------------- MODULE ArrowBuilder ----------------------------
(* The life of an array that is built with nanoarrow: it is initialised, its     *)
(* elements are appended one by one or in runs, its children in between, and it   *)
(* is finished and exported; the allocator may fail at every reallocation, and    *)
(* the caller may go on after a call that failed. Next to the array the           *)
(* specification keeps the rows that were asked for, in "rows", and those asked   *)
(* of each child, in "below"; and in "flaws" which of the calls happened after    *)
(* which the library no longer keeps the rows, or its writes, in order.           *)
EXTENDS ArrowViews

CONSTANTS
    Shapes,         \* the arrays, just initialised
    Ints,           \* numbers to append
    Strings,        \* sequences of bytes to append
    Runs,           \* lengths of runs of nulls and empty values
    MaxLength(_),   \* bound on the length of an array of a type
    MaxChild(_),    \* bound on the length of a child of an array of a type
    Quiet,          \* lengths at which only a value is appended, and nothing fails
    ResizeAt(_),    \* lengths at which Reserve and ShrinkToFit are called, by type
    MaxOffset,      \* the largest offset of 32 bits
    MaxFlawed       \* bound on the calls from the first flaw on

VARIABLES array, pc, rows, below, taken, flaws, after

vars == <<array, pc, rows, below, taken, flaws, after>>

\* torn: a call failed and left the array changed. crossing: a run of bits went past the byte of
\* the first one. unmarked: an interval got no validity bit. displaced: a missing bitmap was shrunk.
Flaws == {"torn", "crossing", "unmarked", "displaced"}

AllMem == {0, 1, 2}
Memories == {AllMem} \cup {AllMem \ {i} : i \in AllMem}

-----------------------------------------------------------------------------
(* Rows: what an element is, apart from how it is stored *)

Null == [null |-> TRUE, v |-> <<>>]
Value(v) == [null |-> FALSE, v |-> v]
Times(n, x) == [i \in 1..n |-> x]

\* The empty value of an array.
RECURSIVE EmptyRow(_)
EmptyRow(a) ==
    CASE a.type = "NA" -> Null
      [] a.type = "STRUCT" -> Value([i \in DOMAIN a.children |-> EmptyRow(a.children[i])])
      [] a.type = "FIXED_SIZE_LIST" -> Value(Times(a.fixed, EmptyRow(a.children[1])))
      [] a.type \in UnionTypes -> Value(<<0, EmptyRow(a.children[1])>>)
      [] a.type \in ListTypes \cup StringTypes \cup LargeStringTypes -> Value(<<>>)
      [] a.type = "FIXED_SIZE_BINARY" -> Value(Times(a.fixed, 0))
      [] a.type \in IntervalTypes \cup DecimalTypes ->
            Value(Times(DataBits(a.type, 0) \div CellBits(a.type, 0), 0))
      [] OTHER -> Value(<<0>>)

\* The row an array shows at i through its view.
RECURSIVE RowOf(_, _)
RowOf(v, i) ==
    LET Slice(from, to) == [k \in 1..(to - from) |-> RowOf(v.children[1], from + k - 1)]
        unreadable == /\ v.type \notin UnionTypes \cup {"NA"} /\ ~v.b[1].null
                      /\ ArrowBitGet(v.b[1], i) = Unset
        stored ==
            CASE v.type \in ListTypes -> Slice(Cell(v.b[2], i), Cell(v.b[2], i + 1))
              [] v.type = "FIXED_SIZE_LIST" -> Slice(i * v.fixed, (i + 1) * v.fixed)
              [] v.type = "STRUCT" -> [k \in DOMAIN v.children |-> RowOf(v.children[k], i)]
              [] v.type \in UnionTypes ->
                    <<UnionChildIndex(v, i),
                      RowOf(v.children[UnionChildIndex(v, i) + 1], UnionChildOffset(v, i))>>
              [] v.type \in StringTypes \cup LargeStringTypes \cup {"FIXED_SIZE_BINARY"} ->
                    GetBytesUnsafe(v, i)
              [] v.type \in IntervalTypes -> GetIntervalUnsafe(v, i)
              [] v.type \in DecimalTypes -> GetDecimalUnsafe(v, i)
              [] OTHER -> <<GetIntUnsafe(v, i)>>
    IN  IF unreadable THEN Value(<<Unset>>)
        ELSE IF ArrowArrayViewIsNull(v, i) THEN Null ELSE Value(stored)
RowsOf(v) == [i \in 1..v.length |-> RowOf(v, i - 1)]

-----------------------------------------------------------------------------
(* Actions *)

Init ==
    /\ array \in Shapes
    /\ pc = "new"
    /\ rows = <<>>
    /\ below = [i \in DOMAIN array.children |-> <<>>]
    /\ taken = 0
    /\ flaws = {}
    /\ after = 0

Torn(r) == r.rc # OK /\ r.a # array

\* A call returns and building goes on, whatever it returned; a call that failed and changed nothing
\* leaves the rows as they were. From an array that is torn no rows are expected. "flaw" holds the
\* flaw the call itself brings, if any.
Returned(r, newRows, newBelow, newTaken, flaw) ==
    /\ pc = "building" /\ after < MaxFlawed
    /\ array' = r.a
    /\ flaws' = flaws \cup (IF Torn(r) THEN {"torn"} ELSE IF r.rc = OK THEN flaw ELSE {})
    /\ after' = IF flaws' = {} THEN 0 ELSE after + 1
    /\ rows' = IF "torn" \in flaws' THEN <<>> ELSE IF r.rc = OK THEN newRows ELSE rows
    /\ below' = IF "torn" \in flaws' THEN [i \in DOMAIN below |-> <<>>]
                ELSE IF r.rc = OK THEN newBelow ELSE below
    /\ taken' = IF "torn" \in flaws' THEN 0 ELSE IF r.rc = OK THEN newTaken ELSE taken
    /\ UNCHANGED pc

\* Nothing is appended to an array that could not be started.
StartAppending(mem) ==
    LET r == ArrowArrayStartAppending(array, mem)
    IN  /\ pc = "new"
        /\ array' = r.a
        /\ pc' = IF r.rc = OK THEN "building" ELSE "failed"
        /\ UNCHANGED <<rows, below, taken, flaws, after>>

\* No child has elements that its parent does not count yet.
Aligned ==
    CASE array.type \in {"STRUCT", "SPARSE_UNION"} ->
            \A i \in DOMAIN array.children : array.children[i].length = array.length
      [] array.type = "FIXED_SIZE_LIST" -> array.children[1].length = array.length * array.fixed
      [] OTHER -> TRUE

\* Room is made for the byte of the first bit of a run; does the run reach the next one?
BitsCross(a, n) == a.type = "BOOL" /\ BytesForBits(a.length + n) > BytesForBits(a.length + 1)
Crossing(a, n) ==
    \/ BitsCross(a, n)
    \/ a.type \in {"STRUCT", "SPARSE_UNION"} /\ \E i \in DOMAIN a.children : BitsCross(a.children[i], n)
    \/ a.type = "FIXED_SIZE_LIST" /\ BitsCross(a.children[1], n * a.fixed)

\* A run of nulls or empty values, with what it appends to the children.
AppendRun(n, valid, mem) ==
    LET row == IF array.type \in UnionTypes
               THEN Value(<<0, IF valid THEN EmptyRow(array.children[1]) ELSE Null>>)
               ELSE IF valid THEN EmptyRow(array) ELSE Null
        OfChild(i) ==
            LET empty == EmptyRow(array.children[i])
            IN  CASE array.type = "STRUCT" -> Times(n, empty)
                  [] array.type = "FIXED_SIZE_LIST" -> Times(n * array.fixed, empty)
                  [] array.type = "SPARSE_UNION" -> Times(n, IF i = 1 /\ ~valid THEN Null ELSE empty)
                  [] array.type = "DENSE_UNION" /\ i = 1 -> <<IF valid THEN empty ELSE Null>>
                  [] OTHER -> <<>>
    IN  /\ Aligned
        /\ array.length + n <= MaxLength(array.type) /\ array.length \notin Quiet
        /\ Returned(AppendEmptyInternal(array, n, valid, mem), rows \o Times(n, row),
                    [i \in DOMAIN below |-> below[i] \o OfChild(i)], taken,
                    IF Crossing(array, n) THEN {"crossing"} ELSE {})

\* One value for an array without children: its call and the row it stands for.
Call(a, x, mem) ==
    CASE a.type \in IntTypes \cup {"BOOL"} /\ x \in Ints -> ArrowArrayAppendInt(a, x, mem)
      [] a.type \in UIntTypes /\ x \in Ints -> ArrowArrayAppendUInt(a, x, mem)
      [] a.type \in FloatTypes /\ x \in Ints -> ArrowArrayAppendDouble(a, x, mem)
Storable(a) == a.type \in IntTypes \cup UIntTypes \cup FloatTypes \cup {"BOOL"}
IntRow(a, x) == Value(<<IF a.type = "BOOL" THEN BoolInt(x # 0) ELSE x>>)

AppendInt(x, mem) ==
    /\ Storable(array) /\ array.length < MaxLength(array.type)
    /\ Returned(Call(array, x, mem), Append(rows, IntRow(array, x)), below, taken, {})

AppendString(s, mem) ==
    /\ array.length < MaxLength(array.type)
    /\ array.type \in StringTypes \cup LargeStringTypes \cup {"FIXED_SIZE_BINARY"}
    /\ Returned(IF array.type = "FIXED_SIZE_BINARY" THEN ArrowArrayAppendBytes(array, s, MaxOffset, mem)
                ELSE ArrowArrayAppendString(array, s, MaxOffset, mem),
                Append(rows, Value(s)), below, taken, {})

\* Where there is a bitmap the interval gets no validity bit of its own.
AppendInterval(mem) ==
    LET words == [i \in 1..(DataBits(array.type, 0) \div 32) |-> i]
    IN  /\ array.type \in IntervalTypes /\ array.length < MaxLength(array.type)
        /\ Returned(ArrowArrayAppendInterval(array, array.type, words, mem),
                    Append(rows, Value(words)), below, taken,
                    IF array.b[1].null THEN {} ELSE {"unmarked"})

AppendDecimal(n, mem) ==
    /\ array.type \in DecimalTypes /\ array.length < MaxLength(array.type)
    /\ Returned(ArrowArrayAppendDecimal(array, [i \in 1..n |-> i], mem),
                Append(rows, Value([i \in 1..n |-> i])), below, taken, {})

\* A value, or a null, for child i. One more than the element takes is refused when it ends.
AppendToChild(i, x, mem) ==
    LET child == array.children[i]
        r == IF x = Unset THEN ArrowArrayAppendNull(child, 1, mem) ELSE Call(child, x, mem)
        row == IF x = Unset THEN Null ELSE IntRow(child, x)
    IN  /\ child.length < MaxChild(array.type)
        /\ Returned([rc |-> r.rc, a |-> [array EXCEPT !.children[i] = r.a]], rows,
                    [below EXCEPT ![i] = Append(@, row)], taken, {})

\* The children's elements since the last end become one element.
FinishElement(mem) ==
    LET row == CASE array.type \in ListTypes -> Value(SubSeq(below[1], taken + 1, Len(below[1])))
                 [] array.type = "FIXED_SIZE_LIST" ->
                      Value(SubSeq(below[1], array.length * array.fixed + 1, Len(below[1])))
                 [] OTHER -> Value([i \in DOMAIN below |-> below[i][Len(below[i])]])
    IN  /\ array.length < MaxLength(array.type)
        /\ array.type \in ListTypes \cup {"FIXED_SIZE_LIST", "STRUCT"}
        /\ Returned(ArrowArrayFinishElement(array, MaxOffset, mem), Append(rows, row), below,
                    IF array.type \in ListTypes THEN Len(below[1]) ELSE taken, {})

FinishUnionElement(id, mem) ==
    LET r == ArrowArrayFinishUnionElement(array, id, mem)
        short(i) == array.type = "SPARSE_UNION" /\ i # id + 1 /\ array.children[i].length = array.length
    IN  /\ array.type \in UnionTypes /\ array.length < MaxLength(array.type)
        \* The caller has appended to the child it names.
        /\ id + 1 \in DOMAIN below => array.children[id + 1].length > 0
        /\ array.type = "SPARSE_UNION" /\ id + 1 \in DOMAIN below =>
              array.children[id + 1].length = array.length + 1
        /\ Returned(r, Append(rows, Value(<<id, below[id + 1][Len(below[id + 1])]>>)),
                    [i \in DOMAIN below |->
                        IF short(i) THEN Append(below[i], EmptyRow(array.children[i])) ELSE below[i]],
                    taken, {})

Reserve(n, mem) ==
    /\ array.length \in ResizeAt(array.type)
    /\ Returned(ArrowArrayReserve(array, n, mem), rows, below, taken, {})

\* realloc gives a bitmap that does not exist an address, as if the elements before had their bits.
Unmapped(a) == Layout(a).kind[1] = "validity" /\ a.b[1].null /\ a.length > 0
ShrinkToFit(mem) ==
    /\ array.length \in ResizeAt(array.type)
    /\ Returned(ArrowArrayShrinkToFit(array, mem), rows, below, taken,
                IF Unmapped(array) \/ \E i \in DOMAIN array.children : Unmapped(array.children[i])
                THEN {"displaced"} ELSE {})

\* A bitmap made elsewhere, of values packed in two pieces, replaces the missing one.
SetValidityBitmap(bits, k, beyond) ==
    LET first == ArrowBitmapReserve(ArrowBitmapInit, Len(bits), TRUE).m
        half == ArrowBitmapAppendIntUnsafe(first, SubSeq(bits, 1, k), beyond)
        whole == ArrowBitmapAppendIntUnsafe(half, SubSeq(bits, k + 1, Len(bits)), beyond)
    IN  /\ pc = "building" /\ array.type = "INT8" /\ array.b[1].null /\ array.length > 0
        /\ Len(bits) = array.length
        /\ array' = [WithBitmap(array, [whole EXCEPT !.buffer = ArrowBufferMove(@).moved]) EXCEPT !.nulls = -1]
        /\ pc' = "imported"
        /\ rows' = [i \in DOMAIN rows |-> IF bits[i] = 1 THEN rows[i] ELSE Null]
        /\ UNCHANGED <<below, taken, flaws, after>>

FinishBuilding(level, mem) ==
    LET r == ArrowArrayFinishBuilding(array, level, mem)
    IN  /\ pc \in {"building", "imported"}
        /\ Aligned
        /\ array' = r.a
        /\ pc' = IF r.rc = OK THEN "finished" ELSE "refused"
        /\ UNCHANGED <<rows, below, taken, flaws, after>>

\* Everything the array holds is freed, its children's buffers too.
Release ==
    /\ pc \in {"finished", "refused", "failed"}
    /\ array' = ArrowArrayInitFromType("UNINITIALIZED", 0, <<>>, TRUE)
    /\ pc' = "released"
    /\ rows' = <<>> /\ below' = <<>> /\ taken' = 0 /\ flaws' = {} /\ after' = 0

\* Where the allocator may fail: not at quiet lengths, and not again for an array with children.
Failing == array.length \notin Quiet /\ (flaws = {} \/ array.children = <<>>)

Next ==
    \/ \E mem \in IF Failing THEN Memories ELSE {AllMem} :
          \/ StartAppending(mem)
          \/ \E n \in Runs, valid \in BOOLEAN : AppendRun(n, valid, mem)
          \/ \E x \in Ints : AppendInt(x, mem)
          \/ \E s \in Strings : AppendString(s, mem)
          \/ AppendInterval(mem)
          \/ \E n \in {2, 4} : AppendDecimal(n, mem)
          \/ \E i \in DOMAIN array.children, x \in Ints \cup {Unset} : AppendToChild(i, x, mem)
          \/ FinishElement(mem)
          \/ \E id \in 0..Len(array.children) : FinishUnionElement(id, mem)
          \/ \E n \in Runs : Reserve(n, mem)
          \/ ShrinkToFit(mem)
          \/ \E level \in {"none", "minimal", "default", "full"} : FinishBuilding(level, mem)
    \/ \E z \in 1..array.length, k \in 0..array.length, beyond \in {0, 1} :
          SetValidityBitmap([i \in 1..array.length |-> BoolInt(i # z)], k, beyond)
    \/ Release

Spec == Init /\ [][Next]_vars

-----------------------------------------------------------------------------
(* Properties *)

RECURSIVE ArrayOK(_)
ArrayOK(a) ==
    /\ a.type \in Types /\ a.length \in Nat /\ a.bits \in Nat
    /\ \A i \in 1..3 : /\ a.b[i].size \in Nat
                        /\ (a.b[i].wild \/ a.b[i].size <= a.b[i].capacity)
                        /\ Len(a.b[i].cells) = CellsIn(a.b[i].bits, a.b[i].capacity)
    /\ \A i \in DOMAIN a.children : ArrayOK(a.children[i])

\* Types, and the library's own invariant "capacity >= size" on every buffer that was not written
\* outside, which ArrowBufferResize keeps when it shrinks and when reallocation fails.
TypeOK ==
    /\ pc \in {"new", "building", "imported", "finished", "refused", "failed", "released"}
    /\ ArrayOK(array)
    /\ taken \in Nat /\ flaws \subseteq Flaws /\ after \in 0..MaxFlawed

RECURSIVE Tame(_)
Tame(a) ==
    /\ a.b[1].wild => Layout(a).kind[1] = "validity" /\ "torn" \in flaws
    /\ a.b[2].wild => \/ a.type = "BOOL" /\ "crossing" \in flaws
                      \/ Layout(a).kind[2] = "offset" /\ "torn" \in flaws
    /\ ~a.b[3].wild
    /\ \A i \in DOMAIN a.children : Tame(a.children[i])

\* No append, fill or bit operation writes or reads outside the capacity it reserved, however runs of
\* nulls fall on byte boundaries, whatever allocation failed before and whatever the caller went on
\* with, but for three accesses the code really makes: the bits of a BOOL after a run that crossed
\* a byte; and, only after a call that failed half way, a bitmap that was lost while its count of
\* bits stayed, and the last offset of an offset buffer that was lost. Values, bytes, type ids and
\* union offsets are always written inside.
NoWildWrite == Tame(array)

RECURSIVE Unhurt(_)
Unhurt(a) == /\ \A i \in 1..3 : ~a.b[i].wild
             /\ \A i \in DOMAIN a.children : Unhurt(a.children[i])

\* What the library does not keep: the three accesses of NoWildWrite happen.
NeverWild == Unhurt(array)

\* As long as none of the flaws came in, the array shows exactly the rows that were asked for, nulls
\* included, and so does each child: the bitmap that is allocated at the first null, the repeated
\* offsets, the zero fill, every reallocation and every call refused without a change are invisible.
ReadBack ==
    flaws = {} /\ pc \in {"building", "imported", "finished"} =>
        LET v == ArrowArrayViewInitFromArray(array)
        IN  /\ RowsOf(v) = rows
            /\ \A i \in DOMAIN v.children : RowsOf(v.children[i]) = below[i]

RECURSIVE NullsCounted(_)
NullsCounted(a) ==
    /\ a.nulls >= 0 /\ a.type \notin UnionTypes \cup {"NA"} /\ ~a.b[1].null =>
          /\ a.bits = a.length
          /\ a.nulls = a.length - ArrowBitCountSet(a.b[1], 0, a.length)
    /\ \A i \in DOMAIN a.children : NullsCounted(a.children[i])

\* null_count is the number of zero bits that ArrowBitCountSet finds in a bitmap as long as the
\* array: a consumer that trusts null_count and one that trusts the bitmap agree.
NullCountExact == flaws = {} /\ pc \in {"building", "finished"} => NullsCounted(array)

\* Without a flaw FinishBuilding refuses nothing that was appended, at any level, except unions at
\* the full level, whose type ids a builder does not know; and what the finished array exports, seen
\* by a consumer that only has the pointers, is again the rows.
FinishedIsExported ==
    flaws = {} =>
    /\ pc = "refused" => array.type \in UnionTypes
    /\ pc = "finished" =>
          LET r == ArrowArrayViewSetArray(array)
          IN  r.rc = OK /\ RowsOf(r.v) = rows

\* Appending stays inside the memory it reserved, whichever allocations fail while the caller goes
\* on, but for the accesses NoWildWrite names.
WritesInside == TypeOK /\ NoWildWrite

\* What was appended is what the array holds while it is built, what its null count says of it, and
\* what a consumer of the finished array reads.
RowsKept == ReadBack /\ NullCountExact /\ FinishedIsExported
=============================================================================
