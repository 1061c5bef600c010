--------------------------- MODULE MCFlatMessages ---------------------------
(***************************************************************************)
(* Instances for TLC: every table of the Arrow metadata is built at least  *)
(* once, every type in a schema, in the styles and configurations that     *)
(* lay it out differently.                                                 *)
(***************************************************************************)
EXTENDS FlatMessages

(* A table with some fields given; the others are absent or the default. *)
Absent(d) ==
    CASE d.kind = "scalar" -> <<"scalar", Bytes(d.default, d.size)>>
      [] d.kind = "union" -> <<"union", 0, None>>
      [] OTHER -> None
Filled(N, given, ds) ==
    <<"table", N, [f \in DOMAIN ds |-> IF f \in DOMAIN given THEN given[f]
                                      ELSE Absent(ds[f])]>>
Tab(N, given) == Filled(N, given, reader[N])
Int_(size, v) == <<"scalar", Bytes(v, size)>>
Str(s) == <<"string", s>>
Code(U, N) == CHOOSE c \in DOMAIN members[U] : members[U][c] = N
U_(U, t) == <<"union", Code(U, t[2]), t>>
Pairs(n) == <<"vector", [i \in 1..n |-> Bytes(i, 8) \o Bytes(i + 1, 8)]>>
Longs(s) == <<"vector", [i \in DOMAIN s |-> Bytes(s[i], 8)]>>
Ints(s) == <<"vector", [i \in DOMAIN s |-> Bytes(s[i], 4)]>>
KV(k, v) == Tab("KeyValue", [key |-> Str(k), value |-> Str(v)])

IntType(w, signed) == Tab("Int", [bitWidth |-> Int_(4, w), is_signed |-> Int_(1, signed)])
Types ==
    {Tab(N, << >>) : N \in {"Null", "Utf8", "Binary", "Bool", "List", "Struct_",
                          "LargeList", "LargeUtf8", "LargeBinary",
                          "RunEndEncoded"}}
    \union {IntType(w, s) : w \in {32, 64}, s \in 0..1}
    \union {Tab("FloatingPoint", [precision |-> Int_(2, p)]) : p \in 0..3}
    \union {Tab("Decimal", [precision |-> Int_(4, 5), scale |-> Int_(4, s),
                          bitWidth |-> Int_(4, w)]) : s \in 0..1, w \in {128, 256}}
    \union {Tab("FixedSizeBinary", [byteWidth |-> Int_(4, 3)])}
    \union {Tab("Date", [unit |-> Int_(2, u)]) : u \in 0..2}
    \union {Tab("Time", [unit |-> Int_(2, u), bitWidth |-> Int_(4, w)]) :
                u \in 0..3, w \in {32, 64}}
    \union {Tab("Timestamp", [unit |-> Int_(2, u), timezone |-> z]) :
                u \in {0, 3}, z \in {None, Str(<<7>>)}}
    \union {Tab("Interval", [unit |-> Int_(2, u)]) : u \in 0..3}
    \union {Tab("Duration", [unit |-> Int_(2, u)]) : u \in {1, 2}}
    \union {Tab("FixedSizeList", [listSize |-> Int_(4, n)]) : n \in 2..3}
    \union {Tab("Map", [keysSorted |-> Int_(1, k)]) : k \in 0..1}
    \union {Tab("Union", [mode |-> Int_(2, m), typeIds |-> Ints(<<5>>)]) : m \in 0..1}

Field(name, type, children) ==
    Tab("Field", [name |-> Str(name), nullable |-> Int_(1, 1), type |-> U_("Type", type),
                children |-> <<"tables", children>>])
Child == Field(<<3>>, Tab("Bool", << >>), << >>)
Nested == {"List", "LargeList", "FixedSizeList", "Map", "Struct_", "Union"}
FieldOf(t) == Field(<<1, 2>>, t, IF t[2] \in Nested THEN <<Child>> ELSE << >>)
SchemaOf(fs) == Tab("Schema", [fields |-> <<"tables", fs>>])
Message(N, t) ==
    Tab("Message", [version |-> Int_(2, 4), header |-> U_("MessageHeader", t),
                  bodyLength |-> Int_(8, 9)])
Types_Messages == {Message("Schema", SchemaOf(<<FieldOf(t)>>)) : t \in Types}

(* A schema with everything in it: equal children, metadata, features. *)
Rich ==
    Message("Schema", Tab("Schema",
        [endianness |-> Int_(2, 1),
         fields |-> <<"tables", <<FieldOf(Tab("Struct_", << >>)), Child, Child>>>>,
         custom_metadata |-> <<"tables", <<KV(<<1>>, <<2, 3>>)>>>>,
         features |-> Longs(<<2>>)]))
Encoded ==
    Message("Schema", SchemaOf(<<Tab("Field",
        [name |-> Str(<<1>>), type |-> U_("Type", Tab("Utf8", << >>)),
         dictionary |-> Tab("DictionaryEncoding",
            [id |-> Int_(8, 2), indexType |-> IntType(8, 1), isOrdered |-> Int_(1, 1)]),
         custom_metadata |-> <<"tables", <<KV(<< >>, <<4>>)>>>>])>>))
RECURSIVE Deep(_)
Deep(n) == Field(<<n>>, Tab("List", << >>), IF n = 1 THEN << >> ELSE <<Deep(n - 1)>>)

Batch(n) ==
    Tab("RecordBatch", [length |-> Int_(8, 3), nodes |-> Pairs(n),
                      buffers |-> Pairs(n + 1)])
Compressed(c) ==
    Tab("RecordBatch", [length |-> Int_(8, 3), nodes |-> Pairs(1),
                      buffers |-> Pairs(1),
                      compression |-> Tab("BodyCompression",
                            [codec |-> Int_(1, c), method |-> Int_(1, 1)])])
Dictionary ==
    Message("DictionaryBatch", Tab("DictionaryBatch",
        [id |-> Int_(8, 6), data |-> Batch(1), isDelta |-> Int_(1, 1)]))
Footer ==
    Tab("Footer", [version |-> Int_(2, 4), schema |-> SchemaOf(<<Child>>),
                 dictionaries |-> <<"vector", << >>>>,
                 recordBatches |-> <<"vector", <<Bytes(5, 24), Bytes(6, 24)>>>>,
                 custom_metadata |-> <<"tables", <<KV(<<1>>, <<1>>)>>>>])
Dim(n) == Tab("TensorDim", [size |-> Int_(8, n), name |-> Str(<<n>>)])
Extent == <<"struct", Bytes(1, 8) \o Bytes(2, 8)>>
Tensor ==
    Tab("Tensor", [type |-> U_("Type", IntType(64, 1)),
                 shape |-> <<"tables", <<Dim(2), Dim(2)>>>>,
                 strides |-> Longs(<<1, 2>>), data |-> Extent])
Indices ==
    {Tab("SparseTensorIndexCOO",
       [indicesType |-> IntType(32, 0), indicesStrides |-> Longs(<<1>>),
        indicesBuffer |-> Extent, isCanonical |-> Int_(1, 1)]),
     Tab("SparseMatrixIndexCSX",
       [compressedAxis |-> Int_(2, 1), indptrType |-> IntType(32, 1),
        indptrBuffer |-> Extent, indicesType |-> IntType(32, 1),
        indicesBuffer |-> Extent]),
     Tab("SparseTensorIndexCSF",
       [indptrType |-> IntType(32, 1), indptrBuffers |-> Pairs(1),
        indicesType |-> IntType(64, 1), indicesBuffers |-> Pairs(1),
        axisOrder |-> Ints(<<1, 0>>)])}
SparseTensor(x) ==
    Tab("SparseTensor", [type |-> U_("Type", Tab("FloatingPoint", << >>)),
                       shape |-> <<"tables", <<Dim(1)>>>>,
                       non_zero_length |-> Int_(8, 5),
                       sparseIndex |-> U_("SparseTensorIndex", x),
                       data |-> Extent])

-----------------------------------------------------------------------------
Plan(root, style) ==
    [root |-> root, style |-> style, fid |-> NoIdentifier, block_align |-> 0,
     align |-> 8, vb_flush_limit |-> 0, clustering |-> TRUE, abandon |-> FALSE,
     damage |-> FALSE]
Others ==
    {Rich, Encoded, Dictionary, Footer, Tensor, Message("Tensor", Tensor),
     Message("RecordBatch", Batch(0)), Message("RecordBatch", Batch(1)),
     Message("RecordBatch", Compressed(1)), Tab("Null", << >>),
     Message("Schema", SchemaOf(<<Deep(2)>>)),
     Message("Schema", SchemaOf(<<Deep(3)>>))}
    \union {Message("SparseTensor", SparseTensor(x)) : x \in Indices}

Layouts(r) ==
    {[Plan(r, "nested") EXCEPT !.clustering = FALSE],
     [Plan(r, "nested") EXCEPT !.vb_flush_limit = 20, !.fid = <<1, 2, 3, 4>>],
     [Plan(r, "shared") EXCEPT !.block_align = 16]}
StructRoots ==
    {[Plan(Extent, "parts") EXCEPT !.abandon = TRUE, !.fid = f] :
        f \in {NoIdentifier, <<1, 2, 3, 4>>}}
Abandoned ==
    {[Plan(r, s) EXCEPT !.abandon = TRUE] :
        r \in {Tensor, Message("RecordBatch", Compressed(0))},
        s \in {"nested", "parts"}}
Damaged ==
    {[Plan(r, "parts") EXCEPT !.damage = TRUE] :
        r \in {Message("Schema", SchemaOf(<<Child>>)),
               SchemaOf(<<FieldOf(Tab("Timestamp", [timezone |-> Str(<<7>>)]))>>),
               Message("RecordBatch", Compressed(0)),
               SparseTensor(CHOOSE x \in Indices : TRUE)}}
        \union {[Plan(Extent, "parts") EXCEPT !.damage = TRUE]}

(* Vectors to sort: of strings, some equal up to a zero, and of scalars. *)
Keys == {<<1>>, <<1, 0, 1>>, <<1, 0, 2>>, <<2>>}
ToSort ==
    {Plan(<<"tables", [i \in DOMAIN s |-> Str(s[i])]>>, "parts") :
        s \in BoundedSeq(Keys, 3)
              \union {<<<<2>>, <<1, 0, 2>>, <<1>>, <<1, 0, 1>>, <<2>>>>,
                      <<<<3>>, <<2>>, <<1>>, <<1, 1>>, <<2>>, <<3>>>>}}
    \union {Plan(Tab("SparseTensorIndexCSF",
                   [indptrType |-> IntType(32, 1), indptrBuffers |-> Pairs(1),
                    indicesType |-> IntType(64, 1), indicesBuffers |-> Pairs(1),
                    axisOrder |-> Ints(s)]), "parts") :
                s \in {<<2, 1>>, <<3, 1, 2>>, <<1, 3, 2, 3>>, <<5, 4, 3, 2, 1>>,
                       <<2, 3, 1, 1, 3, 2>>, <<1, 4, 2, 6, 3, 5, 7>>}}
    \union {Plan(Tab("Tensor", [type |-> U_("Type", IntType(64, 1)),
                              shape |-> <<"tables", <<Dim(2), Dim(3), Dim(2)>>>>,
                              strides |-> Longs(<<3, 1, 2>>),
                              data |-> Extent]), "nested")}

MCPlans ==
    {Plan(r, "nested") : r \in Types_Messages}
    \union {Plan(r, s) : r \in Others, s \in {"nested", "parts", "shared"}}
    \union UNION {Layouts(r) : r \in {Rich, Encoded, Tensor, Footer}}
    \union StructRoots \union Abandoned \union Damaged \union ToSort

MCDamages(m) == (1 .. Len(m)) \X (0 .. Radix - 1)

=============================================================================
