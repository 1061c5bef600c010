--------------------------- MODULE MCArrowBuilder ---------------------------
(* One array of every kind of storage, with children of one byte or one bit.     *)
EXTENDS ArrowBuilder

Leaf(type, fixed) == ArrowArrayInitFromType(type, fixed, <<>>, TRUE)
Over(type, fixed, children) ==
    ArrowArrayInitFromType(type, fixed, [i \in DOMAIN children |-> Leaf(children[i], 0)], TRUE)

MCShapes ==
    {Leaf(type, 0) : type \in {"UNINITIALIZED", "NA", "BOOL", "INT8", "UINT8", "INT64", "DOUBLE", "STRING",
                               "LARGE_BINARY", "INTERVAL_DAY_TIME", "DECIMAL128"}}
      \cup {Leaf("FIXED_SIZE_BINARY", 2),
            Over("LIST", 0, <<"INT8">>), Over("LARGE_LIST", 0, <<"BOOL">>),
            Over("FIXED_SIZE_LIST", 2, <<"INT8">>), Over("STRUCT", 0, <<"INT8", "BOOL">>),
            Over("SPARSE_UNION", 0, <<"INT8", "BOOL">>), Over("DENSE_UNION", 0, <<"BOOL", "INT8">>),
            ArrowArrayInitFromType("DENSE_UNION", 0, <<Leaf("INT8", 0)>>, FALSE)}

MCInts == {1, 200}
MCStrings == {<<>>, <<7, 8>>}
\* Arrays of one byte or bit per element grow past a byte of validity bits.
MCMaxLength(type) == IF type \in {"NA", "INT8", "BOOL"} THEN 9 ELSE 2
MCMaxChild(type) == CASE type \in ListTypes -> 3 [] type = "DENSE_UNION" -> 1 [] OTHER -> 2
\* Arrays with children have more states of their own: they are resized at one length.
MCResizeAt(type) ==
    IF type \in ListTypes \cup UnionTypes \cup {"STRUCT"} THEN {1} ELSE {0, 2}
=============================================================================
