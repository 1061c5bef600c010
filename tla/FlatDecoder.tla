----------------------------- MODULE FlatDecoder -----------------------------
(***************************************************************************)
(* nanoarrow's decoder of the two headers it supports, over the value the  *)
(* accessors read (FlatBuffers!ReadRoot).  A step returns OK with what it  *)
(* set, an errno, or NULL where the code follows a pointer that an         *)
(* optional field or a union without value left null.                      *)
(***************************************************************************)
EXTENDS FlatBuffers

Ok(x) == <<"OK", x>>
EINVAL == <<"EINVAL">>
ENOTSUP == <<"ENOTSUP">>
NULL == <<"NULL">>

(* The first four bytes are all a switch over a small number looks at. *)
Value(scalar) ==
    LET b == scalar[2] IN
    IF Len(b) = 1 THEN b[1] ELSE Number(SubSeq(b, 1, IF Len(b) = 2 THEN 2 ELSE 4))

(* strlen: a name ends at its first zero. *)
CString(s) ==
    LET zeros == {i \in DOMAIN s : s[i] = 0} IN
    IF zeros = {} THEN s ELSE SubSeq(s, 1, Min(zeros) - 1)

Elements(v) == IF v = None THEN << >> ELSE v[2]

(* The _is_known_value functions of the enumerations. *)
Feature_is_known_value(x) == x \in 0..2
UnionMode_is_known_value(x) == x \in 0..1
Precision_is_known_value(x) == x \in 0..2
DateUnit_is_known_value(x) == x \in 0..1
TimeUnit_is_known_value(x) == x \in 0..3
IntervalUnit_is_known_value(x) == x \in 0..2
Endianness_is_known_value(x) == x \in 0..1
CompressionType_is_known_value(x) == x \in 0..1

-----------------------------------------------------------------------------
(* The setters of a type: t is the table behind the union's value.         *)

SetTypeInt(t) ==
    LET width == Value(t.bitWidth) IN
    IF width \notin {8, 16, 32, 64} THEN EINVAL
    ELSE Ok(<<IF Value(t.is_signed) # 0 THEN "INT" ELSE "UINT", width>>)

SetTypeFloatingPoint(t) ==
    LET precision == Value(t.precision) IN
    IF precision \notin 0..2 THEN EINVAL
    ELSE Ok(<< <<"HALF_FLOAT", "FLOAT", "DOUBLE">>[precision + 1] >>)

(* ArrowSchemaSetTypeDecimal refuses a precision that is not positive. *)
SetTypeDecimal(t) ==
    IF Value(t.bitWidth) \notin {128, 256} \/ Value(t.precision) = 0
    THEN EINVAL
    ELSE Ok(<<"DECIMAL", Value(t.bitWidth), Value(t.precision), Value(t.scale)>>)

(* ArrowSchemaSetTypeFixedSize refuses a size that is not positive. *)
SetTypeFixedSizeBinary(t) ==
    IF Value(t.byteWidth) = 0 THEN EINVAL
    ELSE Ok(<<"FIXED_SIZE_BINARY", Value(t.byteWidth)>>)

SetTypeDate(t) ==
    LET unit == Value(t.unit) IN
    IF unit \notin 0..1 THEN EINVAL
    ELSE Ok(<< <<"DATE32", "DATE64">>[unit + 1] >>)

(* The plausible slip: the width alone decides. *)
SetTypeTimeByWidth(t) ==
    IF Value(t.bitWidth) \notin {32, 64} THEN EINVAL
    ELSE Ok(<<"TIME", Value(t.bitWidth)>>)

SetTypeTime(t) ==
    LET unit == Value(t.unit)
        width == Value(t.bitWidth)
    IN  IF (unit \in 0..1 /\ width = 32) \/ (unit \in 2..3 /\ width = 64)
        THEN Ok(<<"TIME", width, unit>>) ELSE EINVAL

(* ArrowSchemaSetTypeDateTime refuses an unknown unit. *)
SetTypeTimestamp(t) ==
    IF Value(t.unit) \notin 0..3 THEN EINVAL
    ELSE Ok(<<"TIMESTAMP", Value(t.unit), CString(Elements(t.timezone))>>)

SetTypeDuration(t) ==
    IF Value(t.unit) \notin 0..3 THEN EINVAL
    ELSE Ok(<<"DURATION", Value(t.unit)>>)

SetTypeInterval(t) ==
    LET unit == Value(t.unit) IN
    IF unit \notin 0..2 THEN EINVAL
    ELSE Ok(<< <<"INTERVAL_MONTHS", "INTERVAL_DAY_TIME",
                 "INTERVAL_MONTH_DAY_NANO">>[unit + 1] >>)

SetTypeFixedSizeList(t) == Ok(<<"+w", Value(t.listSize)>>)

SetTypeMap(t) == Ok(<<"+m", Value(t.keysSorted) # 0>>)

(* Without type ids the children are numbered from 0. *)
SetTypeUnion(t, n_children) ==
    LET mode == Value(t.mode)
        ids == IF t.typeIds = None THEN [i \in 1..n_children |-> i - 1]
               ELSE [i \in DOMAIN t.typeIds[2] |-> Number(t.typeIds[2][i])]
    IN  IF n_children > 127 \/ mode \notin 0..1 \/ Len(ids) # n_children
        THEN EINVAL
        ELSE Ok(<< <<"+us", "+ud">>[mode + 1], ids>>)

(* These types are known by their code alone. *)
SimpleTypes ==
    {"Null", "Bool", "Binary", "LargeBinary", "Utf8", "LargeUtf8", "Struct_",
     "List", "LargeList"}

SetType(type, n_children) ==
    LET code == type[2]
        N == IF code \in DOMAIN Type_members THEN Type_members[code] ELSE "NONE"
        t == type[3][3]
    IN  IF N \in {"NONE", "RunEndEncoded"} THEN EINVAL
        ELSE IF N \in SimpleTypes THEN Ok(<<N>>)
        ELSE IF type[3] = None THEN NULL
        ELSE CASE N = "Int" -> SetTypeInt(t)
               [] N = "FloatingPoint" -> SetTypeFloatingPoint(t)
               [] N = "Decimal" -> SetTypeDecimal(t)
               [] N = "FixedSizeBinary" -> SetTypeFixedSizeBinary(t)
               [] N = "Date" -> SetTypeDate(t)
               [] N = "Time" -> SetTypeTime(t)
               [] N = "Timestamp" -> SetTypeTimestamp(t)
               [] N = "Duration" -> SetTypeDuration(t)
               [] N = "Interval" -> SetTypeInterval(t)
               [] N = "FixedSizeList" -> SetTypeFixedSizeList(t)
               [] N = "Map" -> SetTypeMap(t)
               [] N = "Union" -> SetTypeUnion(t, n_children)

(* Keys and values are optional in the flatbuffer and strlen'ed here. *)
SetMetadata(kvs) ==
    IF \E i \in DOMAIN kvs : None \in {kvs[i][3].key, kvs[i][3].value} THEN NULL
    ELSE Ok([i \in DOMAIN kvs |-> <<CString(kvs[i][3].key[2]),
                                    CString(kvs[i][3].value[2])>>])

(* The first result of a sequence that is not OK, or OK of them all. *)
All(results) ==
    LET failed == {i \in DOMAIN results : results[i][1] # "OK"} IN
    IF failed # {} THEN results[Min(failed)]
    ELSE Ok([i \in DOMAIN results |-> results[i][2]])

RECURSIVE SetChildren(_)
SetField(field) ==
    LET f == field[3]
        children == Elements(f.children)
        parts == All(<<SetType(f.type, Len(children)), SetChildren(children),
                       SetMetadata(Elements(f.custom_metadata))>>)
    IN  IF f.dictionary # None THEN ENOTSUP
        ELSE IF parts[1] # "OK" THEN parts
        ELSE Ok([name |-> CString(Elements(f.name)), format |-> parts[2][1],
                 nullable |-> Value(f.nullable) # 0,
                 children |-> parts[2][2], metadata |-> parts[2][3]])

SetChildren(fields_) == All([i \in DOMAIN fields_ |-> SetField(fields_[i])])

DecodeSchemaHeader(t) ==
    LET features == [i \in DOMAIN Elements(t.features) |->
                        Number(SubSeq(t.features[2][i], 1, 4))]
    IN  IF Value(t.endianness) \notin 0..1 THEN EINVAL
        ELSE IF Range(features) \subseteq {1, 2}
        THEN Ok(<<Value(t.endianness), Range(features)>>) ELSE EINVAL

(* ArrowIpcDecoderDecodeSchema: the root is a struct of the fields. *)
DecodeSchema(t) ==
    LET parts == All(<<DecodeSchemaHeader(t), SetChildren(Elements(t.fields)),
                       SetMetadata(Elements(t.custom_metadata))>>)
    IN  parts

(* n_fields and n_buffers count the root struct of the schema as well. *)
DecodeRecordBatchHeader(t, n_fields, n_buffers) ==
    IF \/ Len(Elements(t.nodes)) + 1 # n_fields
       \/ Len(Elements(t.buffers)) + 1 # n_buffers
    THEN EINVAL
    ELSE IF t.compression = None THEN Ok("NONE")
    ELSE LET codec == Value(t.compression[3].codec) IN
         IF codec \notin 0..1 THEN EINVAL
         ELSE Ok(<<"LZ4_FRAME", "ZSTD">>[codec + 1])

=============================================================================
