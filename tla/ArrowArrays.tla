---------------------------- MODULE ArrowArrays -----------------------------
(* Arrays of nanoarrow: the layout of each storage type, building an array       *)
(* element by element (nanoarrow.h), viewing it, validating the view and reading  *)
(* rows from it (nanoarrow.c). An operation returns its code and what it left     *)
(* behind. "mem" is the set of buffer numbers the allocator has memory for.      *)
EXTENDS ArrowBuffers

IntTypes == {"INT8", "INT16", "INT32", "INT64"}
UIntTypes == {"UINT8", "UINT16", "UINT32", "UINT64"}
FloatTypes == {"FLOAT", "DOUBLE"}
StringTypes == {"STRING", "BINARY"}
LargeStringTypes == {"LARGE_STRING", "LARGE_BINARY"}
ListTypes == {"LIST", "MAP", "LARGE_LIST"}
UnionTypes == {"SPARSE_UNION", "DENSE_UNION"}
IntervalTypes == {"INTERVAL_MONTHS", "INTERVAL_DAY_TIME", "INTERVAL_MONTH_DAY_NANO"}
DecimalTypes == {"DECIMAL128", "DECIMAL256"}
Types == {"UNINITIALIZED", "NA", "BOOL", "HALF_FLOAT", "FIXED_SIZE_BINARY", "FIXED_SIZE_LIST", "STRUCT"}
           \cup IntTypes \cup UIntTypes \cup FloatTypes \cup StringTypes \cup LargeStringTypes
           \cup ListTypes \cup UnionTypes \cup IntervalTypes \cup DecimalTypes

\* Bits of an element of the data buffer; "fixed" is the parameter of the two fixed-size types.
DataBits(type, fixed) ==
    CASE type = "BOOL" -> 1
      [] type \in {"INT8", "UINT8"} -> 8
      [] type \in {"INT16", "UINT16", "HALF_FLOAT"} -> 16
      [] type \in {"INT32", "UINT32", "FLOAT", "INTERVAL_MONTHS"} -> 32
      [] type \in {"INT64", "UINT64", "DOUBLE", "INTERVAL_DAY_TIME"} -> 64
      [] type \in {"DECIMAL128", "INTERVAL_MONTH_DAY_NANO"} -> 128
      [] type = "DECIMAL256" -> 256
      [] type = "FIXED_SIZE_BINARY" -> 8 * fixed
      [] OTHER -> 0

\* What the three buffers of a type hold and the bits of their elements.
ArrowLayoutInit(type, fixed) ==
    LET offsets(bits, data) == [kind |-> <<"validity", "offset", data>>, bits |-> <<1, bits, 0>>]
    IN  CASE type \in {"UNINITIALIZED", "NA"} ->
                [kind |-> <<"none", "none", "none">>, bits |-> <<0, 0, 0>>]
          [] type \in {"LIST", "MAP"} -> offsets(32, "none")
          [] type = "LARGE_LIST" -> offsets(64, "none")
          [] type \in StringTypes -> offsets(32, "data")
          [] type \in LargeStringTypes -> offsets(64, "data")
          [] type \in {"STRUCT", "FIXED_SIZE_LIST"} ->
                [kind |-> <<"validity", "none", "none">>, bits |-> <<1, 0, 0>>]
          [] type = "DENSE_UNION" ->
                [kind |-> <<"type_id", "union_offset", "none">>, bits |-> <<8, 32, 0>>]
          [] type = "SPARSE_UNION" ->
                [kind |-> <<"type_id", "none", "none">>, bits |-> <<8, 0, 0>>]
          [] OTHER -> [kind |-> <<"validity", "data", "none">>,
                       bits |-> <<1, DataBits(type, fixed), 0>>]

\* Intervals and decimals are stored word by word, bytes one by one, other values in one piece.
CellBits(type, fixed) ==
    CASE type = "FIXED_SIZE_BINARY" -> 8
      [] type \in IntervalTypes -> 32
      [] type \in DecimalTypes -> 64
      [] type \in {"UNINITIALIZED", "NA", "STRUCT", "FIXED_SIZE_LIST", "SPARSE_UNION"} -> 8
      [] OTHER -> ArrowLayoutInit(type, fixed).bits[2]

Layout(a) == ArrowLayoutInit(a.type, a.fixed)

NBuffers(type) ==
    CASE type \in {"UNINITIALIZED", "NA"} -> 0
      [] type \in {"FIXED_SIZE_LIST", "STRUCT", "SPARSE_UNION"} -> 1
      [] type \in StringTypes \cup LargeStringTypes -> 3
      [] OTHER -> 2

\* Buffer number i is b[i + 1]; the first one is the bitmap's, with its count of bits in "bits".
\* "out" holds the buffers that the exported pointers designate.
ArrowArrayInitFromType(type, fixed, children, ids) ==
    LET b == <<ArrowBufferInit(IF type \in UnionTypes THEN 8 ELSE 1),
               ArrowBufferInit(CellBits(type, fixed)), ArrowBufferInit(8)>>
    IN  [type |-> type, fixed |-> fixed, length |-> 0, nulls |-> 0, bits |-> 0, b |-> b, out |-> b,
         children |-> children, ids |-> ids]

Bitmap(a) == [buffer |-> a.b[1], bits |-> a.bits]
WithBitmap(a, m) == [a EXCEPT !.b[1] = m.buffer, !.bits = m.bits]

-----------------------------------------------------------------------------
(* Building. A step that fails leaves what the steps before it did. *)

Result(rc, a) == [rc |-> rc, a |-> a]
Then(r, Step(_)) == IF r.rc = OK THEN Step(r.a) ELSE r

\* Appends to buffer i of an array.
WithBuffer(a, i, r) == Result(r.rc, [a EXCEPT !.b[i + 1] = r.b])
AppendTo(a, i, vs, mem) == WithBuffer(a, i, ArrowBufferAppend(a.b[i + 1], vs, i \in mem))
FillTo(a, i, v, bytes, mem) == WithBuffer(a, i, ArrowBufferAppendFill(a.b[i + 1], v, bytes, i \in mem))

\* The children one after the other, stopping at the first that fails.
WithChild(a, i, r) == Result(r.rc, [a EXCEPT !.children[i] = r.a])
EachChild(a, first, Op(_)) ==
    LET Upto[i \in (first - 1)..Len(a.children)] ==
            IF i < first THEN Result(OK, a)
            ELSE Then(Upto[i - 1], LAMBDA x : WithChild(x, i, Op(x.children[i])))
    IN  Upto[Len(a.children)]

RECURSIVE ArrowArrayStartAppending(_, _)
ArrowArrayStartAppending(a, mem) ==
    LET started == IF Layout(a).kind[2] = "offset" THEN AppendTo(a, 1, <<0>>, mem) ELSE Result(OK, a)
        Start(child) == ArrowArrayStartAppending(child, mem)
    IN  IF a.type = "UNINITIALIZED" \/ (a.type \in UnionTypes /\ ~a.ids) THEN Result(EINVAL, a)
        ELSE Then(started, LAMBDA x : EachChild(x, 1, Start))

RECURSIVE ArrowArrayShrinkToFit(_, _)
ArrowArrayShrinkToFit(a, mem) ==
    LET Shrink(x, i) ==
            WithBuffer(x, i, ArrowBufferResize(x.b[i + 1], x.b[i + 1].size, TRUE, i \in mem))
        Child(x) == ArrowArrayShrinkToFit(x, mem)
    IN  Then(Then(Then(Shrink(a, 0), LAMBDA x : Shrink(x, 1)), LAMBDA x : Shrink(x, 2)),
             LAMBDA x : EachChild(x, 1, Child))

\* Room is made for one more bit, whatever n is.
ArrowArrayAppendBits(a, i, v, n, mem) ==
    LET Grown(required) == IF required > a.b[i + 1].size
                           THEN FillTo(a, i, 0, required - a.b[i + 1].size, mem) ELSE Result(OK, a)
    IN  Then(Grown(RoundUpToMultipleOf8(Layout(a).bits[i + 1] * (a.length + 1)) \div 8), LAMBDA x :
                Result(OK, [x EXCEPT !.b[i + 1] = ArrowBitsSetTo(x.b[i + 1], a.length, n, v)]))

AppendValidityUnmarked(a, valid, n, mem) ==
    LET r == ArrowBitmapReserve(Bitmap(a), a.length + n, 0 \in mem)
    IN  IF a.b[1].null /\ valid THEN Result(OK, a)
        ELSE IF r.rc # OK THEN Result(r.rc, WithBitmap(a, r.m))
        ELSE Result(OK, WithBitmap(a, ArrowBitmapAppendUnsafe(r.m, BoolInt(valid), n)))
\* The bitmap exists only from the first null on: then the elements before it are marked valid.
AppendValidity(a, valid, n, mem) ==
    LET extra == IF a.b[1].null THEN a.length + n ELSE n
        Marked(m) == IF a.b[1].null THEN ArrowBitmapAppendUnsafe(m, 1, a.length) ELSE m
        After(r) == IF r.rc # OK THEN Result(r.rc, WithBitmap(a, r.m))
                    ELSE Result(OK, WithBitmap(a, ArrowBitmapAppendUnsafe(Marked(r.m),
                                                                          BoolInt(valid), n)))
    IN  IF a.b[1].null /\ valid THEN Result(OK, a)
        ELSE After(ArrowBitmapReserve(Bitmap(a), extra, 0 \in mem))

\* Offsets are read where the length of the array says, whether the buffer is that long or not.
OffsetsRead(b, n) == [b EXCEPT !.wild = @ \/ n > Len(b.cells)]
LastOffset(a, b) == IF a.length < Len(b.cells) THEN b.cells[a.length + 1] ELSE Unset

\* An offset buffer repeats its last offset and hides the data buffer; data is zero.
RepeatLast(a, n, r) ==
    WithBuffer(a, 1, IF r.rc # OK THEN r
                     ELSE AppendAfter([r EXCEPT !.b = OffsetsRead(@, a.length + n)],
                                      [i \in 1..n |-> LastOffset(a, r.b)]))
FillBy(a, n, kind, bits, mem) ==
    CASE kind = "offset" ->
            RepeatLast(a, n, ArrowBufferReserve(a.b[2], (bits \div 8) * n, 1 \in mem))
      [] kind = "data" /\ bits % 8 = 0 -> FillTo(a, 1, 0, (bits \div 8) * n, mem)
      [] kind = "data" /\ bits % 8 # 0 -> ArrowArrayAppendBits(a, 1, 0, n, mem)
      [] OTHER -> Result(OK, a)
FillElements(a, n, mem) == FillBy(a, n, Layout(a).kind[2], Layout(a).bits[2], mem)

RECURSIVE AppendEmptyInternal(_, _, _, _)
AppendEmptyInternal(a, n, valid, mem) ==
    LET First(x, count, isValid) ==
            WithChild(x, 1, AppendEmptyInternal(x.children[1], count, isValid, mem))
        Others(x) == EachChild(x, 2, LAMBDA y : AppendEmptyInternal(y, n, TRUE, mem))
        TypeIds(x) == FillTo(x, 0, 0, n, mem)
        References(x) == AppendTo(x, 1, [i \in 1..n |-> x.children[1].length - 1], mem)
        Longer(x) == Result(OK, [x EXCEPT !.length = @ + n])
        AppendBelow(x) ==
            CASE x.type = "FIXED_SIZE_LIST" -> First(x, n * x.fixed, TRUE)
              [] x.type = "STRUCT" -> EachChild(x, 1, LAMBDA y : AppendEmptyInternal(y, n, TRUE, mem))
              [] OTHER -> Result(OK, x)
    IN  CASE n = 0 -> Result(OK, a)
          [] n # 0 /\ a.type = "NA" -> Result(OK, [a EXCEPT !.nulls = @ + n, !.length = @ + n])
          [] n # 0 /\ a.type = "DENSE_UNION" ->
                Then(Then(Then(First(a, 1, valid), TypeIds), References), Longer)
          [] n # 0 /\ a.type = "SPARSE_UNION" ->
                Then(Then(Then(First(a, n, valid), Others), TypeIds), Longer)
          [] OTHER ->
                Then(Then(Then(AppendBelow(a), LAMBDA x : AppendValidity(x, valid, n, mem)),
                          LAMBDA x : FillElements(x, n, mem)),
                     LAMBDA x : Result(OK, [x EXCEPT !.length = @ + n,
                                                     !.nulls = @ + n * BoolInt(~valid)]))

ArrowArrayAppendNull(a, n, mem) == AppendEmptyInternal(a, n, FALSE, mem)
ArrowArrayAppendEmpty(a, n, mem) == AppendEmptyInternal(a, n, TRUE, mem)

\* What ends every append of one value: its validity bit, if there is a bitmap, and the length.
FinishAppend(a, mem) ==
    LET Marked(r) == Result(r.rc, WithBitmap(a, r.m))
    IN  Then(IF a.b[1].null THEN Result(OK, a) ELSE Marked(ArrowBitmapAppend(Bitmap(a), 1, 1, 0 \in mem)),
             LAMBDA x : Result(OK, [x EXCEPT !.length = @ + 1]))

\* The range checks of AppendInt and AppendUInt, which pass a value on to each other. The largest
\* values of 32 and 64 bits are out of reach of the numbers appended here.
IntAccepted(type, v) ==
    CASE type = "INT8" -> v \in -128..127
      [] type = "INT16" -> v \in -32768..32767
      [] type \in {"INT32", "INT64", "BOOL"} \cup FloatTypes -> TRUE
      [] type = "UINT8" -> v \in 0..255
      [] type = "UINT16" -> v \in 0..65535
      [] type \in {"UINT32", "UINT64"} -> v >= 0
      [] OTHER -> FALSE

ArrowArrayAppendInt(a, v, mem) ==
    IF ~IntAccepted(a.type, v) THEN Result(EINVAL, a)
    ELSE Then(IF a.type = "BOOL" THEN ArrowArrayAppendBits(a, 1, BoolInt(v # 0), 1, mem)
              ELSE AppendTo(a, 1, <<v>>, mem),
              LAMBDA x : FinishAppend(x, mem))

\* The same from an unsigned value.
ArrowArrayAppendUInt(a, v, mem) ==
    IF v < 0 THEN Result(EINVAL, a) ELSE ArrowArrayAppendInt(a, v, mem)

ArrowArrayAppendDouble(a, v, mem) ==
    IF a.type \notin FloatTypes THEN Result(EINVAL, a)
    ELSE Then(AppendTo(a, 1, <<v>>, mem), LAMBDA x : FinishAppend(x, mem))

\* The offset is appended before the bytes it counts.
ArrowArrayAppendBytes(a, bytes, maxOffset, mem) ==
    LET offset == LastOffset(a, a.b[2])
        read == [a EXCEPT !.b[2] = OffsetsRead(@, a.length + 1)]
        small == a.type \in StringTypes
        two == Then(AppendTo(read, 1, <<offset + Len(bytes)>>, mem), LAMBDA x : AppendTo(x, 2, bytes, mem))
    IN  CASE a.type = "FIXED_SIZE_BINARY" /\ Len(bytes) = a.fixed ->
                Then(AppendTo(a, 1, bytes, mem), LAMBDA x : FinishAppend(x, mem))
          [] small /\ offset + Len(bytes) > maxOffset -> Result(EOVERFLOW, read)
          [] small /\ offset + Len(bytes) <= maxOffset -> Then(two, LAMBDA x : FinishAppend(x, mem))
          [] a.type \in LargeStringTypes -> Then(two, LAMBDA x : FinishAppend(x, mem))
          [] OTHER -> Result(EINVAL, a)

ArrowArrayAppendString(a, bytes, maxOffset, mem) ==
    IF a.type \in StringTypes \cup LargeStringTypes
    THEN ArrowArrayAppendBytes(a, bytes, maxOffset, mem) ELSE Result(EINVAL, a)

\* An interval is its words: months, days and milliseconds, or months, days and nanoseconds. No
\* validity bit is appended for it.
ArrowArrayAppendInterval(a, type, words, mem) ==
    IF a.type \notin IntervalTypes \/ type # a.type THEN Result(EINVAL, a)
    ELSE Then(AppendTo(a, 1, words, mem), LAMBDA x : Result(OK, [x EXCEPT !.length = @ + 1]))

DecimalWords(type) == CASE type = "DECIMAL128" -> 2 [] type = "DECIMAL256" -> 4 [] OTHER -> 0
ArrowArrayAppendDecimal(a, words, mem) ==
    IF a.type \notin DecimalTypes \/ Len(words) # DecimalWords(a.type) THEN Result(EINVAL, a)
    ELSE Then(AppendTo(a, 1, words, mem), LAMBDA x : FinishAppend(x, mem))

\* Ends a list, fixed-size list or struct whose children have been appended to.
ArrowArrayFinishElement(a, maxOffset, mem) ==
    LET childLength == a.children[1].length
        closed ==
            CASE a.type \in {"LIST", "MAP"} /\ childLength > maxOffset -> Result(EOVERFLOW, a)
              [] a.type \in {"LIST", "MAP"} /\ childLength <= maxOffset ->
                    AppendTo(a, 1, <<childLength>>, mem)
              [] a.type = "LARGE_LIST" -> AppendTo(a, 1, <<childLength>>, mem)
              [] a.type = "FIXED_SIZE_LIST" /\ childLength = (a.length + 1) * a.fixed -> Result(OK, a)
              [] a.type = "STRUCT"
                   /\ \A i \in DOMAIN a.children : a.children[i].length = a.length + 1 -> Result(OK, a)
              [] OTHER -> Result(EINVAL, a)
    IN  Then(closed, LAMBDA x : FinishAppend(x, mem))

\* Ends a union element whose child "id" has been appended to. The other children of a sparse
\* union get an empty value unless they are that long already.
ArrowArrayFinishUnionElement(a, id, mem) ==
    LET Level(child) == IF child.length = a.length + 1 THEN Result(OK, child)
                        ELSE IF child.length # a.length THEN Result(EINVAL, child)
                        ELSE ArrowArrayAppendEmpty(child, 1, mem)
        \* The target child is skipped, whatever its length.
        Levelled(x, i) == IF i = id + 1 THEN Result(OK, x)
                          ELSE WithChild(x, i, Level(x.children[i]))
        All[i \in 0..Len(a.children)] ==
            IF i = 0 THEN Result(OK, a) ELSE Then(All[i - 1], LAMBDA x : Levelled(x, i))
        linked ==
            CASE a.type = "DENSE_UNION" -> AppendTo(a, 1, <<a.children[id + 1].length - 1>>, mem)
              [] a.type = "SPARSE_UNION" -> All[Len(a.children)]
              [] OTHER -> Result(EINVAL, a)
    IN  IF id \notin 0..(Len(a.children) - 1) THEN Result(EINVAL, a)
        ELSE Then(Then(linked, LAMBDA x : AppendTo(x, 0, <<id>>, mem)),
                  LAMBDA x : Result(OK, [x EXCEPT !.length = @ + 1]))
=============================================================================
