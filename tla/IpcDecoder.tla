----------------------------- MODULE IpcDecoder -----------------------------
(***************************************************************************)
(* The decoder of nanoarrow_ipc.c between a message and the buffers of an  *)
(* array: the numbers of the header prefix, the numbering of the fields of  *)
(* a schema, the walk that gives the buffers of a record batch to them, and *)
(* the change of byte order.                                                *)
(*                                                                         *)
(* A field is [layout, children]: layout lists the type and the width in    *)
(* bits of each of its buffers.  Memory is a sequence of bytes.             *)
(***************************************************************************)
EXTENDS Integers, Sequences, SequencesExt

CONSTANT Fields     \* the fields of the schemas: every schema and what is below it

\* A field has its children among the fields.
ASSUME FieldsAssumption == \A f \in Fields : f.children \in Seq(Fields)

Marker == <<255, 255, 255, 255>>

\* ArrowIpcReadContinuationBytes.
ReadContinuationBytes(data) == SubSeq(data, 1, 4)

\* A signed 32-bit integer as a machine of byte order `system` loads it.
LoadInt32(b, system) ==
    LET le == IF system = "little" THEN b ELSE Reverse(b)
    IN le[1] + 256 * le[2] + 65536 * le[3] + 16777216 * (IF le[4] > 127 THEN le[4] - 256 ELSE le[4])

\* ArrowIpcReadInt32LE: the bytes are swapped on a big-endian machine.
ReadInt32LE(data, system) ==
    LoadInt32(IF system = "big" THEN Reverse(data) ELSE data, system)

\* ArrowIpcDecoderReadHeaderPrefix on the first bytes of a message.
ReadHeaderPrefix(data, system) ==
    LET size == ReadInt32LE(SubSeq(data, 5, 8), system) IN
    CASE Len(data) < 8                          -> "ESPIPE"
      [] ReadContinuationBytes(data) # Marker   -> "EINVAL"
      [] size < 0                               -> "EINVAL"
      [] size = 0                               -> "ENODATA"
      [] OTHER                                  -> "OK"

-----------------------------------------------------------------------------
(* The fields of the schema, numbered depth first from the root.            *)

\* ArrowIpcDecoderCountFields: the field and all below it.
CountFields[f \in Fields] == FoldLeft(LAMBDA n, c : n + CountFields[c], 1, f.children)

\* The order in which the recursions of the decoder reach the field f and the
\* fields below it: a field before its children.
PreOrder[f \in Fields] ==
    <<f>> \o FlattenSeq([i \in DOMAIN f.children |-> PreOrder[f.children[i]]])

\* The number of buffers is counted before the offset is taken.
InitFieldsLate(acc, f) ==
    FoldLeft(LAMBDA a, g :
                [fields |-> Append(a.fields, [view |-> g, buffer_offset |-> a.n_buffers + Len(g.layout)]),
                 n_buffers |-> a.n_buffers + Len(g.layout)],
             acc, PreOrder[f])

\* ArrowIpcDecoderInitFields: each field and the number of buffers before it.
InitFields(acc, f) ==
    FoldLeft(LAMBDA a, g :
                [fields |-> Append(a.fields, [view |-> g, buffer_offset |-> a.n_buffers]),
                 n_buffers |-> a.n_buffers + Len(g.layout)],
             acc, PreOrder[f])

\* ArrowIpcDecoderSetSchema: what it leaves in the private data of the decoder.
SetSchema(root) ==
    LET init == InitFields([fields |-> <<>>, n_buffers |-> 0], root)
    IN [n_fields |-> CountFields[root], fields |-> init.fields, n_buffers |-> init.n_buffers]

-----------------------------------------------------------------------------
(* The walk over a record batch: the node and the buffer of the message     *)
(* that each buffer of the array view gets.  Both are counted from 0.       *)

\* ArrowIpcDecoderWalkSetArrayView for the field f and what is below it.
WalkSetArrayView(setter, f) ==
    FoldLeft(LAMBDA s, g :
                [field_i |-> s.field_i + 1,
                 buffer_i |-> s.buffer_i + Len(g.layout),
                 seen |-> s.seen \o [j \in 1..Len(g.layout) |->
                             [node |-> s.field_i, buffer |-> s.buffer_i + j - 1,
                              type |-> g.layout[j].type, bits |-> g.layout[j].bits]]],
             setter, PreOrder[f])

\* ArrowIpcDecoderDecodeArrayViewInternal for field i; -1 is the root, which
\* the message does not count.
DecodeArrayView(p, i) ==
    LET root  == p.fields[i + 2]
        start == [field_i |-> i, buffer_i |-> root.buffer_offset - 1, seen |-> <<>>]
    IN IF i = -1
       THEN FoldLeft(LAMBDA s, c : WalkSetArrayView(s, c),
                     [start EXCEPT !.field_i = 0, !.buffer_i = @ + 1], root.view.children).seen
       ELSE WalkSetArrayView(start, root.view).seen

\* ArrowIpcDecoderDecodeRecordBatchHeader: the counts of the message.
CountsMatch(p, nodes, buffers) ==
    nodes + 1 = p.n_fields /\ buffers + 1 = p.n_buffers

-----------------------------------------------------------------------------
(* Byte order.                                                              *)

\* ArrowIpcDecoderNeedsSwapEndian.
NeedsSwapEndian(endianness, system) ==
    endianness \in {"little", "big"} /\ endianness # system

\* The types whose buffers are the same in both orders.
Unswapped == {"BOOL", "INT8", "UINT8", "STRING", "BINARY"}

Garbage == -1     \* a byte of the new allocation that no loop writes

Words(b, w) == [i \in 1..(Len(b) \div w) |-> SubSeq(b, (i - 1) * w + 1, i * w)]
Rest(b, w)  == [i \in 1..(Len(b) % w) |-> Garbage]

\* The loops over 16, 32 and 64 bits: bswap of every word.
SwapWords(b, w) ==
    FlattenSeq([i \in 1..(Len(b) \div w) |-> Reverse(Words(b, w)[i])]) \o Rest(b, w)

\* The loop over decimals: the words of each are swapped and their order is
\* reversed.
SwapDecimal(words) ==
    FlattenSeq([i \in DOMAIN words |->
        FlattenSeq([j \in DOMAIN words[i] |-> Reverse(words[i][Len(words[i]) - j + 1])])])

\* The loop over intervals of months, days and nanoseconds.
SwapMonthDayNano(items) ==
    FlattenSeq([i \in DOMAIN items |->
        Reverse(SubSeq(items[i], 1, 4)) \o Reverse(SubSeq(items[i], 5, 8))
            \o Reverse(SubSeq(items[i], 9, 16))])

\* The result of ArrowIpcDecoderSwapEndian, when it has the memory it needs.
SwapCode(v) ==
    IF v.type \in Unswapped \cup {"DECIMAL128", "DECIMAL256", "INTERVAL_DAY_TIME", "INTERVAL_MONTH_DAY_NANO"}
         \/ v.bits \in {16, 32, 64}
    THEN "OK" ELSE "ENOTSUP"

\* The bytes it gives the view of buffer v.
SwapEndian(v, b) ==
    CASE v.type \in Unswapped -> b
      [] v.type \in {"DECIMAL128", "DECIMAL256"} ->
            SwapDecimal([i \in DOMAIN Words(b, v.bits \div 8) |-> Words(Words(b, v.bits \div 8)[i], 8)])
                \o Rest(b, v.bits \div 8)
      [] v.type = "INTERVAL_DAY_TIME" -> SwapWords(b, 4)
      [] v.type = "INTERVAL_MONTH_DAY_NANO" -> SwapMonthDayNano(Words(b, 16)) \o Rest(b, 16)
      [] OTHER -> SwapWords(b, v.bits \div 8)
=============================================================================
