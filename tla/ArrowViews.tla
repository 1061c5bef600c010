----------------------------- MODULE ArrowViews -----------------------------
(* Views of arrays: how sizes are found and checked at each validation level, and *)
(* how a row is read. A view has the fields of an array, an offset, and in "map"  *)
(* whether the type ids of a union are known. A buffer of unknown size has size   *)
(* -1. A read outside the cells of a buffer, which C does not stop, gives Unset.  *)
EXTENDS ArrowArrays

Unknown == -1

Cell(b, i) == IF i + 1 \in DOMAIN b.cells THEN b.cells[i + 1] ELSE Unset
CellsFrom(b, i, n) == [k \in 1..n |-> Cell(b, i + k - 1)]

RECURSIVE ArrowArrayViewInitFromArray(_)
ArrowArrayViewInitFromArray(a) ==
    [type |-> a.type, fixed |-> a.fixed, length |-> a.length, offset |-> 0, nulls |-> a.nulls,
     b |-> a.b, map |-> FALSE,
     children |-> [i \in DOMAIN a.children |-> ArrowArrayViewInitFromArray(a.children[i])]]

\* A view of what an array exports: sizes are not known, unless the pointer is NULL.
RECURSIVE SetArrayInternal(_)
SetArrayInternal(a) ==
    [type |-> a.type, fixed |-> a.fixed, length |-> a.length, offset |-> 0, nulls |-> a.nulls,
     b |-> [i \in 1..3 |-> [a.out[i] EXCEPT !.size = IF a.out[i].null THEN 0 ELSE Unknown]],
     map |-> TRUE,
     children |-> [i \in DOMAIN a.children |-> SetArrayInternal(a.children[i])]]

\* Bytes each buffer has at least when the array has so many elements.
MinSizeOf(kind, bits, n) ==
    CASE kind = "validity" -> BytesForBits(n)
      [] kind = "offset" -> IF n = 0 THEN 0 ELSE (bits \div 8) * (n + 1)
      [] kind = "data" -> RoundUpToMultipleOf8(bits * n) \div 8
      [] kind \in {"type_id", "union_offset"} -> (bits \div 8) * n
      [] OTHER -> 0
MinSize(v, i, n) == MinSizeOf(Layout(v).kind[i], Layout(v).bits[i], n)

\* The sizes buffers should have for a length, for this array and the children that are as long.
RECURSIVE ArrowArrayViewSetLength(_, _)
ArrowArrayViewSetLength(v, n) ==
    [v EXCEPT !.b = [i \in 1..3 |-> [v.b[i] EXCEPT !.size = MinSize(v, i, n)]],
              !.children = [i \in DOMAIN v.children |->
                  IF v.type \in {"STRUCT", "SPARSE_UNION"}
                  THEN ArrowArrayViewSetLength(v.children[i], n)
                  ELSE IF v.type = "FIXED_SIZE_LIST" /\ i = 1
                  THEN ArrowArrayViewSetLength(v.children[i], n * v.fixed)
                  ELSE v.children[i]]]

\* Room for more elements in every buffer but a bitmap that does not exist yet. "v" has the sizes.
RECURSIVE ReserveInternal(_, _, _)
ReserveInternal(a, v, mem) ==
    LET Reserved(x, i) ==
            LET extra == v.b[i].size - x.b[i].size
                r == ArrowBufferReserve(x.b[i], extra, (i - 1) \in mem)
            IN  IF (Layout(v).kind[i] = "validity" /\ x.b[i].null) \/ extra <= 0 THEN Result(OK, x)
                ELSE Result(r.rc, [x EXCEPT !.b[i] = r.b])
        Buffers[i \in 0..NBuffers(a.type)] ==
            IF i = 0 THEN Result(OK, a) ELSE Then(Buffers[i - 1], LAMBDA x : Reserved(x, i))
        Children[i \in 0..Len(a.children)] ==
            IF i = 0 THEN Buffers[NBuffers(a.type)]
            ELSE Then(Children[i - 1], LAMBDA x :
                    LET r == ReserveInternal(x.children[i], v.children[i], mem)
                    IN  Result(r.rc, [x EXCEPT !.children[i] = r.a]))
    IN  Children[Len(a.children)]
ArrowArrayReserve(a, n, mem) ==
    ReserveInternal(a, ArrowArrayViewSetLength(ArrowArrayViewInitFromArray(a), a.length + n), mem)

-----------------------------------------------------------------------------
(* Validation: the codes, and the view with the sizes it assigned *)

\* The first two buffers: assigned when unknown, otherwise at least the minimum. A bitmap may be
\* missing when no element is null.
SizeAssigned(v, i) ==
    IF v.b[i].size = Unknown
    THEN [v EXCEPT !.b[i].size = MinSize(v, i, v.offset + v.length)] ELSE v
SizeRefusedOf(kind, v, i) ==
    /\ kind # "none"
    /\ ~(kind = "validity" /\ v.nulls = 0 /\ v.b[i].size = 0)
    /\ v.b[i].size # Unknown
    /\ v.b[i].size < MinSize(v, i, v.offset + v.length)
SizeRefused(v, i) == SizeRefusedOf(Layout(v).kind[i], v, i)

ChildrenRefused(v) ==
    LET n == v.offset + v.length
    IN  \/ v.type \in ListTypes \cup {"FIXED_SIZE_LIST"} /\ Len(v.children) # 1
        \/ /\ v.type \in {"STRUCT", "SPARSE_UNION"}
           /\ \E i \in DOMAIN v.children : v.children[i].length < n
        \/ v.type = "FIXED_SIZE_LIST" /\ v.children[1].length < n * v.fixed

RECURSIVE ValidateMinimal(_)
ValidateMinimal(v) ==
    LET sized == SizeAssigned(SizeAssigned(v, 1), 2)
        below == [i \in DOMAIN v.children |-> ValidateMinimal(v.children[i])]
    IN  IF SizeRefused(v, 1) \/ SizeRefused(v, 2) \/ ChildrenRefused(v)
           \/ \E i \in DOMAIN below : below[i].rc # OK
        THEN [rc |-> EINVAL, v |-> v]
        ELSE [rc |-> OK, v |-> [sized EXCEPT !.children = [i \in DOMAIN below |-> below[i].v]]]

OffsetsRefusedFirst(v) ==
    Layout(v).kind[2] = "offset" /\ v.b[2].size # 0 /\ Cell(v.b[2], 0) < 0
\* The first offset is not negative; the last one fits the data, or the child.
OffsetsRefused(v) ==
    LET first == Cell(v.b[2], 0)
        last == Cell(v.b[2], v.offset + v.length)
    IN  /\ Layout(v).kind[2] = "offset"
        /\ v.b[2].size # 0
        /\ \/ first < 0
           \/ /\ v.type \in StringTypes \cup LargeStringTypes
              /\ v.b[3].size # Unknown /\ v.b[3].size < last
           \/ v.type \in ListTypes /\ v.children[1].length < last

DataAssigned(v) ==
    IF v.type \in StringTypes \cup LargeStringTypes /\ v.b[2].size # 0 /\ v.b[3].size = Unknown
    THEN [v EXCEPT !.b[3].size = Cell(v.b[2], v.offset + v.length)] ELSE v

\* The offsets, when the sizes are right, then the children.
RECURSIVE ValidateOffsets(_)
ValidateDefault(v) == ValidateOffsets(ValidateMinimal(v))
ValidateOffsets(least) ==
    LET v == least.v
        below == [i \in DOMAIN v.children |-> ValidateDefault(v.children[i])]
    IN  IF least.rc # OK THEN least
        ELSE IF OffsetsRefused(v) \/ \E i \in DOMAIN below : below[i].rc # OK
        THEN [rc |-> EINVAL, v |-> v]
        ELSE [rc |-> OK, v |-> [DataAssigned(v)
                                   EXCEPT !.children = [i \in DOMAIN below |-> below[i].v]]]

\* Every offset of the buffer, as far as its size goes, is at least the one before it.
AssertIncreasing(v) ==
    \A i \in 1..(CellsIn(v.b[2].bits, v.b[2].size) - 1) : Cell(v.b[2], i) >= Cell(v.b[2], i - 1)

UnionChildIndex(v, i) == Cell(v.b[1], i)
UnionChildOffset(v, i) ==
    CASE v.type = "DENSE_UNION" -> Cell(v.b[2], i) [] v.type = "SPARSE_UNION" -> i [] OTHER -> -1

\* Type ids name a child, and an offset of a dense union is at most the length of that child.
UnionRefused(v) ==
    /\ v.type \in UnionTypes
    /\ \/ ~v.map
       \/ \E i \in 0..(v.b[1].size - 1) : Cell(v.b[1], i) \notin 0..(Len(v.children) - 1)
       \/ /\ v.type = "DENSE_UNION"
          /\ \E i \in 0..(v.length - 1) :
                UnionChildOffset(v, i) \notin 0..v.children[UnionChildIndex(v, i) + 1].length

RECURSIVE ValidateFull(_)
ValidateFull(v) ==
    /\ Layout(v).kind[2] = "offset" => AssertIncreasing(v)
    /\ ~UnionRefused(v)
    /\ \A i \in DOMAIN v.children : ValidateFull(v.children[i])

ValidatedFully(r) == IF r.rc = OK /\ ~ValidateFull(r.v) THEN [r EXCEPT !.rc = EINVAL] ELSE r
ArrowArrayViewValidate(v, level) ==
    CASE level = "none" -> [rc |-> OK, v |-> v]
      [] level = "minimal" -> ValidateMinimal(v)
      [] level = "default" -> ValidateDefault(v)
      [] level = "full" -> ValidatedFully(ValidateDefault(v))

ArrowArrayViewSetArray(a) == ValidateDefault(SetArrayInternal(a))

-----------------------------------------------------------------------------
(* The end of building *)

\* The data of strings and binaries is never NULL; whether that byte was allocated is not looked at.
RECURSIVE FinalizeBuffers(_, _)
FinalizeBuffers(a, mem) ==
    LET data == AppendTo(a, 2, <<0>>, mem).a.b[3]
        needs == a.type \in StringTypes \cup LargeStringTypes /\ a.b[3].null
    IN  [a EXCEPT !.b[3] = IF needs THEN data ELSE a.b[3],
                  !.children = [i \in DOMAIN a.children |-> FinalizeBuffers(a.children[i], mem)]]

RECURSIVE FlushInternalPointers(_)
FlushInternalPointers(a) ==
    [a EXCEPT !.out = a.b,
              !.children = [i \in DOMAIN a.children |-> FlushInternalPointers(a.children[i])]]

Validated(a, level) ==
    Result(ArrowArrayViewValidate(ArrowArrayViewInitFromArray(a), level).rc, a)
ArrowArrayFinishBuilding(a, level, mem) ==
    Validated(FlushInternalPointers(IF level \in {"default", "full"} THEN FinalizeBuffers(a, mem)
                                    ELSE a), level)

-----------------------------------------------------------------------------
(* Reading a row *)

ArrowArrayViewIsNull(v, i) ==
    CASE v.type = "NA" -> TRUE
      [] v.type \in UnionTypes -> FALSE
      [] OTHER -> ~v.b[1].null /\ ArrowBitGet(v.b[1], i + v.offset) # 1

\* Numbers; Unset where the type has none.
GetIntUnsafe(v, i) ==
    IF v.type \in IntTypes \cup UIntTypes \cup FloatTypes \cup {"BOOL"}
    THEN Cell(v.b[2], i + v.offset) ELSE Unset
GetDoubleUnsafe(v, i) == GetIntUnsafe(v, i)

\* The bytes of a string; a read that starts or ends outside the data holds Unset cells.
GetBytesUnsafe(v, i) ==
    LET from == Cell(v.b[2], i + v.offset)
        to == Cell(v.b[2], i + v.offset + 1)
    IN  CASE v.type \in StringTypes \cup LargeStringTypes -> CellsFrom(v.b[3], from, to - from)
          [] v.type = "FIXED_SIZE_BINARY" -> CellsFrom(v.b[2], (i + v.offset) * v.fixed, v.fixed)
          [] OTHER -> <<>>
GetStringUnsafe(v, i) == GetBytesUnsafe(v, i)

\* The words of a value that has several; an interval is not moved by the offset.
Words(v) == DataBits(v.type, v.fixed) \div CellBits(v.type, v.fixed)
GetIntervalUnsafe(v, i) == CellsFrom(v.b[2], i * Words(v), Words(v))
\* A type that is no decimal reads as zero.
GetDecimalUnsafe(v, i) ==
    IF v.type \in DecimalTypes THEN CellsFrom(v.b[2], (i + v.offset) * Words(v), Words(v)) ELSE <<0, 0>>

ListChildOffset(v, i) == IF v.type \in {"LIST", "LARGE_LIST"} THEN Cell(v.b[2], i) ELSE -1
=============================================================================
