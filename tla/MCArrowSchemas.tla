--------------------------- MODULE MCArrowSchemas ---------------------------
(* The schema calls of ArrowSchemaUse for TLC. *)
EXTENDS ArrowSchemaUse

Request(call, type, n, scale, unit, zone) ==
    [call |-> call, type |-> type, n |-> n, scale |-> scale, unit |-> unit, zone |-> zone]

MCRequests ==
    {Request("type", t, 0, 0, "", Null) : t \in DOMAIN Templates \cup {"UNINITIALIZED", "DECIMAL128"}}
      \cup {Request("struct", "STRUCT", n, 0, "", Null) : n \in {0, 2}}
      \cup {Request("fixed", t, n, 0, "", Null) :
              t \in {"FIXED_SIZE_BINARY", "FIXED_SIZE_LIST", "INT32"}, n \in {0, 2}}
      \cup {Request("decimal", t, 9, -2, "", Null) : t \in DecimalTypes \cup {"INT32"}}
      \cup {Request("time", t, 0, 0, u, Null) : t \in {"TIME32", "TIME64", "DURATION"},
                                                u \in {"SECOND", "MICRO"}}
      \cup {Request("time", t, 0, 0, u, z) : t \in {"TIMESTAMP"}, u \in DOMAIN TimeUnits, z \in {Null, <<"UTC">>}}
      \cup {Request("time", "DURATION", 0, 0, "MILLI", <<"UTC">>),
             Request("time", "TIMESTAMP", 0, 0, "MICRO", <<LongZone>>), Request("time", "TIME32", 0, 0, "none", Null)}
      \cup {Request("union", t, n, 0, "", Null) : t \in UnionTypes, n \in {0, 1, 2, 128}}

MCAgain == {q \in MCRequests : q.type \in {"MAP", "INT8", "UNINITIALIZED"}}
MCBelow == {Request("type", t, 0, 0, "", Null) : t \in {"INT32", "MAP", "UNINITIALIZED"}}
             \cup {Request(c, "SPARSE_UNION", 1, 0, "", Null) : c \in {"union", "ids"}}

MCFormats ==
    {[format |-> f, type |-> "REFUSED"] : f \in
        {Plain(<<>>), Plain(<<"x">>), Plain(<<"i", "i">>), Plain(<<"+", "x">>), Plain(<<"t", "t", "x">>),
         Plain(<<"t", "s", "s">>), Format(<<"d">>, TRUE, <<9, 2, 64>>, ""), Format(<<"d">>, TRUE, <<9>>, ""),
         Format(<<"w">>, TRUE, <<0>>, ""), Format(<<"w">>, TRUE, <<>>, ""), Format(<<"w">>, TRUE, <<2>>, "x"),
         Format(<<"+", "u", "s">>, TRUE, <<0, 128>>, ""), Format(<<"+", "u", "s">>, TRUE, <<0>>, "x")}}
      \cup {[format |-> Format(<<"+", "u", "d">>, TRUE, ids, ""), type |-> "DENSE_UNION"] :
              ids \in {<<5, 0>>, <<3, 3>>, <<0>>, <<5>>}}
      \cup {[format |-> Plain(<<"+", "m">>), type |-> "MAP"], [format |-> Plain(<<"l">>), type |-> "INT64"]}

MCKeys == {"k", "ARROW:extension:name"}
=============================================================================
