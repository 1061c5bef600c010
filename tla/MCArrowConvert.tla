--------------------------- MODULE MCArrowConvert ---------------------------
(* Columns as the server stores them, for every logical type and storage form,   *)
(* and lists, maps and strings with offsets that may be wrong.                   *)
EXTENDS ArrowConvert

Nil == -999
Full(bits, cells) ==
    LET bytes == (bits * Len(cells) + 7) \div 8
    IN  [null |-> Len(cells) = 0, size |-> bytes, capacity |-> bytes, bits |-> bits, wild |-> FALSE,
         cells |-> [i \in 1..CellsIn(bits, bytes) |-> IF i <= Len(cells) THEN cells[i] ELSE 0]]
Bits(xs) == IF Nil \in {xs[i] : i \in DOMAIN xs} THEN Full(1, [i \in DOMAIN xs |-> BoolInt(xs[i] # Nil)])
            ELSE Full(1, <<>>)
Nils(xs) == Cardinality({i \in DOMAIN xs : xs[i] = Nil})

Arr(type, fixed, xs, second, third, children) ==
    LET b == <<Bits(xs), second, third>>
    IN  [type |-> type, fixed |-> fixed, length |-> Len(xs), nulls |-> Nils(xs), bits |-> Len(xs), b |-> b,
         out |-> b, children |-> children, ids |-> TRUE]
Zeroed(xs) == [i \in DOMAIN xs |-> IF xs[i] = Nil THEN 0 ELSE xs[i]]
IntArr(type, xs) == Arr(type, 0, xs, Full(CellBits(type, 0), Zeroed(xs)), Full(8, <<>>), <<>>)
DecArr(xs) == LET z == Zeroed(xs)
              IN  Arr("DECIMAL128", 0, xs, Full(64, [k \in 1..(2 * Len(xs)) |->
                      IF k % 2 = 1 THEN DecimalOf(z[(k + 1) \div 2])[1] ELSE DecimalOf(z[k \div 2])[2]]),
                      Full(8, <<>>), <<>>)
OffArr(type, xs, offsets, data, children) == Arr(type, 0, xs, Full(32, offsets), Full(8, data), children)
Struct(xs, children) == Arr("STRUCT", 0, xs, Full(8, <<>>), Full(8, <<>>), children)

Schema(sf, type, scale, bytes, names, children) ==
    [sf |-> sf, type |-> type, scale |-> scale, byteLength |-> bytes, unit |-> 0, names |-> names,
     children |-> children]
Leaf(sf, type, scale) == Schema(sf, type, scale, 0, <<>>, <<>>)
Col(s, a, xs) == [s |-> s, a |-> a, rows |-> xs, formed |-> TRUE]
Odd(s, a) == [s |-> s, a |-> a, rows |-> <<>>, formed |-> FALSE]

RowsAs(xs, Of(_)) == [i \in DOMAIN xs |-> IF xs[i] = Nil THEN None ELSE Of(xs[i])]

-----------------------------------------------------------------------------

Numbers == {<<>>, <<-5, Nil>>, <<Nil, 0, 100>>}
FixedColumns ==
    {Col(Leaf("FIXED", type, scale), IntArr(type, xs), RowsAs(xs, LAMBDA x : <<"number", Number(x, scale)>>)) :
        type \in {"INT8", "INT64"}, scale \in {0, 2, 9, 12}, xs \in Numbers}
      \cup {Col(Leaf("FIXED", "DECIMAL128", scale), DecArr(xs),
                RowsAs(xs, LAMBDA x : <<"number", Number(x, scale)>>)) : scale \in {0, 3}, xs \in Numbers}
      \cup {Odd(Leaf("FIXED", "STRING", 0), OffArr("STRING", <<1>>, <<0, 1>>, <<65>>, <<>>))}

PlainColumns ==
    {Col(Leaf("BOOLEAN", "BOOL", 0), IntArr("BOOL", xs), RowsAs(xs, LAMBDA x : <<"bool", x # 0>>)) :
        xs \in {<<1, Nil, 0>>}}
      \cup {Col(Leaf("REAL", "DOUBLE", 0), IntArr("DOUBLE", xs), RowsAs(xs, LAMBDA x : <<"number", x>>)) :
        xs \in {<<3, Nil>>}}
      \cup {Col(Leaf("DATE", "INT32", 0), IntArr("INT32", xs), RowsAs(xs, LAMBDA x : <<"day", x>>)) :
        xs \in {<<-1, Nil>>}}
      \cup {Col(Leaf("INTERVAL_YEAR_MONTH", "INT64", 0), IntArr("INT64", xs),
                RowsAs(xs, LAMBDA x : <<"months", x>>)) : xs \in {<<14, Nil>>}}
      \cup {Col(Leaf("INTERVAL_DAY_TIME", "INT64", 9), IntArr("INT64", xs),
                RowsAs(xs, LAMBDA x : <<"span", x>>)) : xs \in {<<-7, Nil>>}}
      \cup {Col(Leaf("INTERVAL_DAY_TIME", "DECIMAL128", 9), DecArr(xs),
                RowsAs(xs, LAMBDA x : <<"span", x>>)) : xs \in {<<-7, Nil>>}}
      \cup {Odd(Leaf("TIMESTAMP", "INT64", 0), IntArr("INT64", <<1>>)),
            Odd(Leaf("ARRAY", "INT64", 0), IntArr("INT64", <<1>>)),
            Odd(Leaf("OBJECT", "INT64", 0), IntArr("INT64", <<1>>)),
            Odd(Leaf("INTERVAL_DAY_TIME", "INT32", 0), IntArr("INT32", <<1>>))}

Scales == {0, 2, 3, 5, 6, 8, 9}

TimeColumns ==
    {Col(Leaf("TIME", type, scale), IntArr(type, xs),
         RowsAs(xs, LAMBDA x : <<"time", x * powTenSB4(9 - scale)>>)) :
        type \in {"INT32", "INT64"}, scale \in Scales,
        xs \in {<<Nil, 3661 * powTenSB4(s) + k>> : s \in Scales, k \in {0, 1}}}
      \cup {Odd(Leaf("TIME", "DOUBLE", 3), IntArr("DOUBLE", <<1>>))}

Units == {-513, -17, -1, 0, 9, 1030}
InstantColumns ==
    {Col(Leaf(sf, "INT64", scale), IntArr("INT64", <<x, Nil, y>>),
         RowsAs(<<x, Nil, y>>, LAMBDA u : <<"instant", u * powTenSB4(9 - scale)>>)) :
        sf \in {"TIMESTAMP_NTZ", "TIMESTAMP_LTZ"}, scale \in Scales, x \in Units, y \in {-3, 5}}

Far == Int64Max \div powTenSB4(9)
Epochs == {-Far - 1, -Far, -1, 0, 3, Far, Far + 1}
\* Nanoseconds of a second; a column of some scale has no digits beyond it.
Fractions == {0, 8, 9, 128, 510, 511}
FractionsOf(scale) == {f \in Fractions : f % powTenSB4(9 - scale) = 0}
Pair(e, f, g) == Struct(g, <<IntArr("INT64", e), IntArr("INT32", f)>>)
TwoFieldColumns ==
    UNION {{Col(Schema(sf, "STRUCT", scale, 0, <<"epoch", "fraction">>,
                       <<Leaf("FIXED", "INT64", 0), Leaf("FIXED", "INT32", 0)>>),
                Pair(<<e, 1, 2>>, <<f, 0, g>>, <<1, Nil, 1>>),
                <<<<"instant", e * powTenSB4(9) + f>>, None, <<"instant", 2 * powTenSB4(9) + g>>>>) :
        sf \in {"TIMESTAMP_NTZ", "TIMESTAMP_LTZ"}, e \in Epochs,
        f \in FractionsOf(scale), g \in {8, 510}} : scale \in {8, 9}}
      \cup {Odd(Schema("TIMESTAMP_NTZ", "STRUCT", 9, 0, <<"epoch">>, <<Leaf("FIXED", "INT64", 0)>>),
                Struct(<<Nil>>, <<IntArr("INT64", <<1>>)>>))}

ZonedColumns ==
    {Col(Schema("TIMESTAMP_TZ", "STRUCT", scale, 8, <<"epoch", "timezone">>,
                <<Leaf("FIXED", "INT64", 0), Leaf("FIXED", "INT32", 0)>>),
         Struct(<<Nil, 1>>, <<IntArr("INT64", <<0, x>>), IntArr("INT32", <<0, 1440>>)>>),
         <<None, <<"zoned", x * powTenSB4(9 - scale), 1440>>>>) : scale \in Scales, x \in Units}
      \cup UNION {{Col(Schema("TIMESTAMP_TZ", "STRUCT", scale, 16, <<"epoch", "fraction", "timezone">>,
                <<Leaf("FIXED", "INT64", 0), Leaf("FIXED", "INT32", 0), Leaf("FIXED", "INT32", 0)>>),
         Struct(<<1>>, <<IntArr("INT64", <<e>>), IntArr("INT32", <<f>>), IntArr("INT32", <<1441>>)>>),
         <<<<"zoned", e * powTenSB4(9) + f, 1441>>>>) : e \in Epochs, f \in FractionsOf(scale)} :
         scale \in Scales}
      \cup {Odd(Schema("TIMESTAMP_TZ", "STRUCT", 3, 4, <<"epoch", "timezone">>,
                <<Leaf("FIXED", "INT64", 0), Leaf("FIXED", "INT32", 0)>>),
         Struct(g, <<IntArr("INT64", <<7>>), IntArr("INT32", <<1440>>)>>)) : g \in {<<1>>, <<Nil>>}}

-----------------------------------------------------------------------------
(* Offsets of two rows, right and wrong *)

Offsets == {<<a, b, c>> : a \in {-1, 0, 1}, b \in {0, 1, 3}, c \in {1, 2, 3}}
Short == {<<0>>, <<0, 1>>}

StringColumns ==
    {Odd(Leaf(sf, type, 0), OffArr(type, <<1, Nil>>, o, <<65, 66>>, <<>>)) :
        sf \in {"TEXT", "VARIANT", "ARRAY"}, type \in {"STRING"}, o \in Offsets \cup Short}
      \cup {Odd(Leaf("BINARY", "BINARY", 0), OffArr("BINARY", <<1, 1>>, o, <<65, 66>>, <<>>)) :
        o \in Offsets \cup Short}
      \cup {Col(Leaf("OBJECT", "STRING", 0), OffArr("STRING", <<1, Nil, 1>>, <<0, 2, 2, 3>>, <<65, 66, 67>>, <<>>),
                <<<<"text", <<65, 66>>>>, None, <<"text", <<67>>>>>>)}

Child8 == IntArr("INT8", <<4, Nil>>)
Time5 == Leaf("TIME", "INT32", 5)
ListColumns ==
    {Odd(Schema("ARRAY", "LIST", 0, 0, <<"item">>, <<Leaf("FIXED", "INT8", 0)>>),
         OffArr("LIST", <<1, 1>>, o, <<>>, <<Child8>>)) : o \in Offsets \cup Short}
      \cup {Col(Schema("ARRAY", "LIST", 0, 0, <<"item">>, <<Time5>>),
                OffArr("LIST", <<1, Nil, 1, 1>>, <<0, 2, 2, 2, 3>>, <<>>, <<IntArr("INT32", <<64, Nil, 33>>)>>),
                <<<<"list", <<<<"time", 1024>>, None>>>>, None, <<"list", <<>>>>,
                  <<"list", <<<<"time", 528>>>>>>>>),
            Odd(Schema("ARRAY", "LIST", 0, 0, <<"item">>, <<Leaf("FIXED", "BOOL", 0)>>),
                OffArr("LIST", <<1>>, <<0, 1>>, <<>>, <<IntArr("BOOL", <<1>>)>>))}

Entries(keys, vals) == Struct([i \in DOMAIN keys |-> 1], <<IntArr("INT8", keys), IntArr("INT32", vals)>>)
EntrySchema == Schema("none", "STRUCT", 0, 0, <<"key", "value">>, <<Leaf("FIXED", "INT8", 0), Time5>>)
MapColumns ==
    {Odd(Schema("MAP", "MAP", 0, 0, <<"entries">>, <<EntrySchema>>),
         OffArr("MAP", <<1, 1>>, o, <<>>, <<Entries(<<1, 2>>, <<32, Nil>>)>>)) : o \in Offsets \cup Short}
      \cup {Col(Schema("MAP", "MAP", 0, 0, <<"entries">>, <<EntrySchema>>),
                OffArr("MAP", <<1, Nil, 1>>, <<0, 1, 1, 2>>, <<>>, <<Entries(<<1, 2>>, <<64, Nil>>)>>),
                <<<<"list", <<<<"list", <<<<"number", Number(1, 0)>>, <<"time", 1024>>>>>>>>>>, None,
                  <<"list", <<<<"list", <<<<"number", Number(2, 0)>>, None>>>>>>>>>>),
            Odd(Schema("MAP", "MAP", 0, 0, <<"entries">>,
                       <<Schema("none", "STRUCT", 0, 0, <<"key">>, <<Leaf("FIXED", "INT8", 0)>>)>>),
                OffArr("MAP", <<1>>, <<0, 1>>, <<>>, <<Struct(<<1>>, <<IntArr("INT8", <<1>>)>>)>>))}

\* The second child may be shorter than its parent, and its bitmap shorter than itself.
ObjectColumns ==
    {Odd(Schema("OBJECT", "STRUCT", 0, 0, <<"a", "b">>, <<Leaf("FIXED", "INT8", 0), Leaf("BOOLEAN", "BOOL", 0)>>),
         Struct(<<1, 1>>, <<IntArr("INT8", <<1, 2>>), IntArr("BOOL", xs)>>)) : xs \in {<<1>>, <<0, Nil>>}}
      \cup {Col(Schema("OBJECT", "STRUCT", 0, 0, <<"a", "b">>, <<Time5, Leaf("FIXED", "INT8", 2)>>),
                Struct(<<1, Nil>>, <<IntArr("INT32", <<64, 5>>), IntArr("INT8", <<Nil, 1>>)>>),
                <<<<"list", <<<<"time", 1024>>, None>>>>, None>>),
            Odd(Schema("OBJECT", "STRUCT", 0, 0, <<"a", "b">>, <<Leaf("DECFLOAT", "INT8", 0), Time5>>),
                Struct(<<1>>, <<IntArr("INT8", <<1>>), IntArr("INT32", <<64>>)>>))}

VectorOf(type) == Schema("VECTOR", "FIXED_SIZE_LIST", 0, 0, <<"item">>, <<Leaf("none", type, 0)>>)
Vector(n, xs, child) == Arr("FIXED_SIZE_LIST", n, xs, Full(8, <<>>), Full(8, <<>>), <<child>>)
VectorColumns ==
    {Col(VectorOf(type), Vector(2, <<1, Nil, 1>>, IntArr(type, <<1, 2, 3, 4, 5, 6>>)),
         <<<<"list", <<<<"number", 1>>, <<"number", 2>>>>>>, None,
           <<"list", <<<<"number", 5>>, <<"number", 6>>>>>>>>) : type \in {"INT32", "FLOAT"}}
      \cup {Odd(VectorOf(child.type), Vector(2, <<1, 1>>, child)) :
              child \in {IntArr("INT32", <<1, 2, 3>>), IntArr("INT32", <<1, 2, 3, 4, 5>>),
                         OffArr("STRING", <<1, 1, 1, 1>>, <<0, 1, 1, 1, 1>>, <<65>>, <<>>)}}

FloatColumns ==
    {Col(Schema("DECFLOAT", "STRUCT", 0, 0, <<"exponent", "significand">>,
                <<Leaf("FIXED", "INT16", 0), Leaf("BINARY", "BINARY", 0)>>),
         Struct(<<Nil, 1, 1>>, <<IntArr("INT16", <<0, -3, 4>>),
                                 OffArr("BINARY", <<Nil, 1, 1>>, <<0, 0, 2, 2 + n>>, <<1, 2, 3, 4, 5, 6>>, <<>>)>>),
         <<None, <<"float", -3, <<1, 2>>>>,
           IF n > MaxSignificand THEN Failed ELSE <<"float", 4, SubSeq(<<3, 4, 5, 6>>, 1, n)>>>>) :
        n \in {0, 2, 3, 4}}
      \cup {Odd(Schema("DECFLOAT", "STRUCT", 0, 0, <<"exponent", "mantissa">>,
                       <<Leaf("FIXED", "INT16", 0), Leaf("BINARY", "BINARY", 0)>>),
                Struct(<<Nil>>, <<IntArr("INT16", <<0>>), OffArr("BINARY", <<Nil>>, <<0, 0>>, <<>>, <<>>)>>))}

MCColumns ==
    FixedColumns \cup PlainColumns \cup TimeColumns \cup InstantColumns \cup TwoFieldColumns
      \cup ZonedColumns \cup StringColumns \cup ListColumns \cup MapColumns \cup ObjectColumns
      \cup VectorColumns \cup FloatColumns
=============================================================================
