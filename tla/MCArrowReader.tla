--------------------------- MODULE MCArrowReader ---------------------------
(* Streams for ArrowReader: a schema and up to three batches, whole, cut at   *)
(* every half prefix, or with one defect, in either byte order.              *)
EXTENDS ArrowReader

Of(type, bits) == [type |-> type, bits |-> bits]
Field(layout, children) == [layout |-> <<Of("BOOL", 1)>> \o layout, children |-> children, converts |-> FALSE]

Int32  == [Field(<<Of("INT32", 32)>>, <<>>) EXCEPT !.converts = TRUE]
String == Field(<<Of("INT32", 32), Of("STRING", 8)>>, <<>>)
Plain(type, bits) == Field(<<Of(type, bits)>>, <<>>)

\* Two columns, one of them a struct of one field.
Small == Field(<<>>, <<Field(<<>>, <<Int32>>), Int32>>)
\* Every width and every special case of the byte swap, below a struct.
Wide == Field(<<>>, <<Field(<<>>, <<Plain("DECIMAL128", 128), Field(<<>>, <<String>>)>>),
                      Plain("INTERVAL_MONTH_DAY_NANO", 128), Plain("INTERVAL_DAY_TIME", 64),
                      Plain("INT64", 64), Plain("HALF_FLOAT", 16), Plain("DECIMAL256", 256)>>)

\* Nothing lies deeper than three fields below a schema.
WithChildren(S) == S \cup UNION {ToSet(f.children) : f \in S}
MCFields == WithChildren(WithChildren(WithChildren({Small, Wide})))

PrefixOf(n) == Marker \o <<n % 256, (n \div 256) % 256, 0, 0>>

Schema(root, order) ==
    [prefix |-> PrefixOf(8), type |-> "schema", verified |-> TRUE, header |-> 8, root |-> root,
     endianness |-> order, features |-> {}, codec |-> "none", valid |-> TRUE, rows |-> 0,
     nodes |-> 0, buffers |-> <<>>, values |-> <<>>, body |-> <<>>]

\* The first buffer, a validity bitmap, is left out, as writers do.
ValuesOf(v, n) ==
    LET size == IF v.buffer = 0 THEN 0 ELSE IF v.type = "BOOL" THEN Min({n, 1}) ELSE n * (v.bits \div 8)
    IN [j \in 1..size |-> (17 * v.buffer + j) % 256]

OffsetOf(values, k) == FoldSeq(LAMBDA b, n : Len(b) + n, 0, SubSeq(values, 1, k - 1))

BatchWith(root, order, n, slots, values) ==
    [Schema(root, order) EXCEPT
        !.type = "batch", !.rows = n, !.nodes = CountFields[root] - 1, !.values = values,
        !.buffers = [k \in DOMAIN slots |-> [offset |-> OffsetOf(values, k), length |-> Len(values[k])]],
        !.body = FlattenSeq([k \in DOMAIN slots |-> Encoded(slots[k], values[k], order)])]

SmallSlots == DecodeArrayView(SetSchema(Small), -1)
WideSlots == DecodeArrayView(SetSchema(Wide), -1)
SmallBatch(order, n) ==
    BatchWith(Small, order, n, SmallSlots, [k \in DOMAIN SmallSlots |-> ValuesOf(SmallSlots[k], n)])
WideBatch(order, n) ==
    BatchWith(Wide, order, n, WideSlots, [k \in DOMAIN WideSlots |-> ValuesOf(WideSlots[k], n)])

Little == Schema(Small, "little")
LittleBatches == [n \in 0..2 |-> SmallBatch("little", n)]
Batch(n) == LittleBatches[n]
Eos == [Little EXCEPT !.prefix = PrefixOf(0), !.header = 0]

SizeOf(msgs) == FoldSeq(LAMBDA m, n : MessageSize(m) + n, 0, msgs)
Stream(msgs) == [msgs |-> msgs, known |-> TRUE, size |-> SizeOf(msgs),
                 starts |-> [i \in DOMAIN msgs |-> SizeOf(SubSeq(msgs, 1, i - 1))]]

Whole ==
    {<<Little>>, <<Little, Eos>>, <<Little, Batch(1)>>, <<Little, Batch(2), Batch(1), Eos>>,
     <<Little, Batch(1), Batch(2)>>, <<Little, Batch(1), Batch(0), Batch(1)>>,
     <<Little, Batch(1), Eos, Batch(1)>>}
Orders == {<<Schema(Wide, o), WideBatch(o, n)>> : o \in {"little", "big"}, n \in 1..2}
            \cup {<<Schema(Small, "big"), SmallBatch("big", 2), SmallBatch("big", 1)>>}

\* One defect each: of the schema message, or of the second batch.
BadSchemas ==
    {Batch(1), [Little EXCEPT !.endianness = "unknown"], [Little EXCEPT !.features = {"unknown"}],
     [Little EXCEPT !.features = {"compressed"}], [Little EXCEPT !.valid = FALSE],
     [Little EXCEPT !.prefix[4] = 0]}
BadBatches ==
    {Little, [Batch(1) EXCEPT !.type = "dictionary"], [Batch(1) EXCEPT !.verified = FALSE],
     [Batch(1) EXCEPT !.nodes = @ - 1], [Batch(1) EXCEPT !.buffers = Tail(@)],
     [Batch(1) EXCEPT !.codec = "unknown"],
     [Batch(1) EXCEPT !.codec = "lz4"], [Batch(1) EXCEPT !.valid = FALSE],
     [Batch(1) EXCEPT !.buffers[3].length = 100], [Batch(1) EXCEPT !.buffers[2].offset = -4],
     [Batch(1) EXCEPT !.buffers[3].length = -4, !.valid = FALSE],
     [Batch(1) EXCEPT !.prefix[8] = 255]}

MCStreams ==
    {Stream(msgs) : msgs \in Whole \cup Orders}
      \cup {[Stream(<<Little, Batch(2), Batch(1)>>) EXCEPT !.known = FALSE]}
      \cup {[Stream(<<Little, Batch(2), Batch(1), Eos>>) EXCEPT !.size = 4 * n] : n \in 0..21}
      \cup {Stream(<<m, Batch(1)>>) : m \in BadSchemas}
      \cup {Stream(<<Little, Batch(2), m, Batch(1)>>) : m \in BadBatches}

\* Every allocation and every conversion may fail.
MCFails == {"input", "reader", "schema", "header", "body", "share", "swap", "array", "finish", "view",
            "row", "column", "throw"}
=============================================================================
