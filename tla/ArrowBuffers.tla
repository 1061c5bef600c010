---------------------------- MODULE ArrowBuffers ----------------------------
(* Growable buffers and bitmaps of nanoarrow.h. A buffer is a record: is its     *)
(* pointer NULL, its size and capacity in bytes, the width of its elements in    *)
(* bits, and one cell per element its capacity holds. A cell nobody wrote is     *)
(* Unset. A write outside the capacity, which C does not stop, is remembered in  *)
(* "wild" and otherwise lost. "mem" says whether the allocator has memory.       *)
EXTENDS Integers, Sequences, FiniteSets

Unset == -1000

OK == "ok"
EINVAL == "einval"
ENOMEM == "enomem"
EOVERFLOW == "eoverflow"

BoolInt(b) == IF b THEN 1 ELSE 0
SmallerOf(a, b) == IF a < b THEN a ELSE b

-----------------------------------------------------------------------------
(* Buffers *)

ArrowBufferInit(bits) ==
    [null |-> TRUE, size |-> 0, capacity |-> 0, bits |-> bits, cells |-> <<>>, wild |-> FALSE]

\* How many elements fit in so many bytes. An element without a width fills nothing.
CellsIn(bits, bytes) == IF bits = 0 THEN 0 ELSE (8 * bytes) \div bits
CellsUsed(b) == CellsIn(b.bits, b.size)

ArrowBufferReset(b) == ArrowBufferInit(b.bits)

\* What the source of a move becomes: its pointer is dropped, not freed.
ArrowBufferMove(b) == [moved |-> b, source |-> ArrowBufferInit(b.bits)]

\* realloc: contents up to the smaller size survive, and a size of zero frees what there was
\* and returns NULL, but allocates something that is not NULL when there was nothing.
Reallocated(b, bytes) ==
    [b EXCEPT !.null = (bytes = 0 /\ ~b.null),
              !.capacity = bytes,
              !.cells = [i \in 1..CellsIn(b.bits, bytes) |->
                            IF i <= Len(b.cells) THEN b.cells[i] ELSE Unset]]

ArrowBufferResize(b, bytes, shrink, mem) ==
    LET moves == bytes > b.capacity \/ shrink
        kept == IF moves THEN Reallocated(b, bytes) ELSE b
    IN  IF bytes < 0 THEN [rc |-> EINVAL, b |-> b]
        ELSE IF moves /\ ~mem /\ bytes > 0
        THEN [rc |-> ENOMEM, b |-> [ArrowBufferInit(b.bits) EXCEPT !.wild = b.wild]]
        ELSE [rc |-> OK, b |-> [kept EXCEPT !.size = SmallerOf(bytes, b.size)]]

GrowByFactor(current, new) == IF current * 2 > new THEN current * 2 ELSE new

ReserveExactlyOnce(b, extra, mem) ==
    IF b.capacity > 0 THEN [rc |-> OK, b |-> b]
    ELSE ArrowBufferResize(b, GrowByFactor(b.capacity, b.size + extra), FALSE, mem)
ArrowBufferReserve(b, extra, mem) ==
    IF b.size + extra <= b.capacity THEN [rc |-> OK, b |-> b]
    ELSE ArrowBufferResize(b, GrowByFactor(b.capacity, b.size + extra), FALSE, mem)

\* Cells from index i (0-based) take the values vs; what falls outside is a wild write.
Stored(b, i, vs) ==
    [b EXCEPT !.cells = [j \in DOMAIN b.cells |->
                            IF j \in (i + 1)..(i + Len(vs)) THEN vs[j - i] ELSE b.cells[j]],
              !.wild = b.wild \/ (Len(vs) > 0 /\ i + Len(vs) > Len(b.cells))]

ArrowBufferAppendUnsafe(b, vs) ==
    [Stored(b, CellsUsed(b), vs) EXCEPT !.size = b.size + (Len(vs) * b.bits) \div 8]

AppendAfter(r, vs) == IF r.rc # OK THEN r ELSE [rc |-> OK, b |-> ArrowBufferAppendUnsafe(r.b, vs)]
ArrowBufferAppend(b, vs, mem) ==
    AppendAfter(ArrowBufferReserve(b, (Len(vs) * b.bits) \div 8, mem), vs)

\* n bytes of zeros (or of a type id, whose elements are bytes).
FillAfter(r, v, bytes) ==
    IF r.rc # OK THEN r
    ELSE [rc |-> OK, b |-> [Stored(r.b, CellsUsed(r.b), [i \in 1..CellsIn(r.b.bits, bytes) |-> v])
                               EXCEPT !.size = r.b.size + bytes]]
ArrowBufferAppendFill(b, v, bytes, mem) == FillAfter(ArrowBufferReserve(b, bytes, mem), v, bytes)

-----------------------------------------------------------------------------
(* Bits *)

BytesForBits(n) == (n \div 8) + BoolInt(n % 8 # 0)
RoundUpToMultipleOf8(n) == ((n + 7) \div 8) * 8

\* The masks name the bits of a byte that a write keeps.
PrecedingBitmask(k) == 0..(k - 1)
TrailingBitmask(k) == k..7
ByteExcept(byte, kept) == {8 * byte + k : k \in (0..7) \ kept}

\* The bits that ArrowBitsSetTo writes, byte by byte.
BitsWritten(start, length) ==
    LET end == start + length
        bytesBegin == start \div 8
        bytesEnd == end \div 8 + 1
        first == PrecedingBitmask(start % 8)
        last == TrailingBitmask(end % 8)
    IN  IF bytesEnd = bytesBegin + 1
        THEN ByteExcept(bytesBegin, IF end % 8 = 0 THEN first ELSE first \cup last)
        ELSE ByteExcept(bytesBegin, first)
               \cup UNION {ByteExcept(j, {}) : j \in (bytesBegin + 1)..(bytesEnd - 2)}
               \cup (IF end % 8 = 0 THEN {} ELSE ByteExcept(bytesEnd - 1, last))

ArrowBitsSetTo(b, start, length, v) ==
    LET written == BitsWritten(start, length)
    IN  [b EXCEPT !.cells = [j \in DOMAIN b.cells |-> IF j - 1 \in written THEN v ELSE b.cells[j]],
                  !.wild = b.wild \/ (\E i \in written : i >= Len(b.cells))]

\* A bit outside the buffer, or one nobody wrote, reads as Unset.
ArrowBitGet(b, i) == IF i + 1 \in DOMAIN b.cells THEN b.cells[i + 1] ELSE Unset

\* Bits set among length bits from start: the first byte, the middle ones and the last one
\* each with its mask.
ArrowBitCountSet(b, start, length) ==
    LET end == start + length
        bytesBegin == start \div 8
        bytesLast == (end - 1) \div 8
        Popcount(byte, dropped) ==
            Cardinality({k \in (0..7) \ dropped : ArrowBitGet(b, 8 * byte + k) = 1})
        lastDropped == IF end % 8 = 0 THEN {} ELSE TrailingBitmask(end % 8)
        Middle[j \in (bytesBegin + 1)..bytesLast] ==
            IF j = bytesLast THEN 0 ELSE Popcount(j, {}) + Middle[j + 1]
    IN  IF length = 0 THEN 0
        ELSE IF bytesBegin = bytesLast
        THEN Popcount(bytesBegin, (0..7) \ (TrailingBitmask(start % 8) \ lastDropped))
        ELSE Popcount(bytesBegin, PrecedingBitmask(start % 8)) + Middle[bytesBegin + 1]
               + Popcount(bytesLast, lastDropped)

-----------------------------------------------------------------------------
(* Bitmaps: a buffer of bits with its own count of bits *)

ArrowBitmapInit == [buffer |-> ArrowBufferInit(1), bits |-> 0]

LastByteCleared(b) == Stored(b, 8 * (b.capacity - 1), <<0, 0, 0, 0, 0, 0, 0, 0>>)
ClearedAfter(m, r) ==
    [rc |-> r.rc, m |-> [m EXCEPT !.buffer = IF r.rc # OK THEN r.b ELSE LastByteCleared(r.b)]]
ArrowBitmapReserve(m, extra, mem) ==
    IF m.bits + extra <= m.buffer.capacity * 8 THEN [rc |-> OK, m |-> m]
    ELSE ClearedAfter(m, ArrowBufferReserve(m.buffer, BytesForBits(extra), mem))

ResizedTo(m, bits, r) ==
    [rc |-> r.rc, m |-> [buffer |-> r.b,
                         bits |-> IF r.rc = OK THEN SmallerOf(bits, m.bits) ELSE m.bits]]
ArrowBitmapResize(m, bits, shrink, mem) ==
    IF bits < 0 THEN [rc |-> EINVAL, m |-> m]
    ELSE ResizedTo(m, bits, ArrowBufferResize(m.buffer, BytesForBits(bits), shrink, mem))

ArrowBitmapAppendUnsafe(m, v, length) ==
    [buffer |-> [ArrowBitsSetTo(m.buffer, m.bits, length, v)
                    EXCEPT !.size = BytesForBits(m.bits + length)],
     bits |-> m.bits + length]

BitsAfter(r, v, length) ==
    IF r.rc # OK THEN r ELSE [rc |-> OK, m |-> ArrowBitmapAppendUnsafe(r.m, v, length)]
ArrowBitmapAppend(m, v, length, mem) == BitsAfter(ArrowBitmapReserve(m, length, mem), v, length)

\* Values of an int8 or int32 array, packed: bits up to the next byte one at a time, whole bytes,
\* then a last byte that is cleared first. The first loop does not look at how many values there
\* are: past the last one it reads what follows them in memory, which "beyond" stands for.
ArrowBitmapAppendIntUnsafe(m, values, beyond) ==
    LET n == Len(values)
        start == m.bits
        partial == IF start % 8 = 0 THEN 0 ELSE RoundUpToMultipleOf8(start) - start
        rest == n - partial
        cleared == IF rest > 0 /\ rest % 8 # 0
                   THEN ByteExcept((start + n) \div 8, {}) ELSE {}
        written == start..(start + (IF n < partial THEN partial ELSE n) - 1)
        Value(i) == IF i - start < n THEN values[i - start + 1] ELSE beyond
        b == m.buffer
    IN  IF n = 0 THEN m
        ELSE [buffer |-> [b EXCEPT
                !.cells = [j \in DOMAIN b.cells |->
                              IF j - 1 \in written THEN Value(j - 1)
                              ELSE IF j - 1 \in cleared THEN 0 ELSE b.cells[j]],
                !.wild = b.wild \/ (\E i \in written \cup cleared : i >= Len(b.cells)),
                !.size = BytesForBits(start + n)],
              bits |-> start + n]

ArrowBitmapReset == ArrowBitmapInit
=============================================================================
