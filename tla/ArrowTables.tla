----------------------------- MODULE ArrowTables -----------------------------
(***************************************************************************)
(* The tables of the Arrow metadata as flatcc generated them: three        *)
(* independent pieces of code per table that have to agree.                *)
(*                                                                         *)
(*   T_reader        the accessors, a record from field to descriptor;     *)
(*   T_verify_table  the checks of the verifier, in its order;             *)
(*   T_create        the order in which _create adds the fields (_clone    *)
(*                   picks them in that order too), with the identifiers,  *)
(*                   sizes, alignments and defaults of the _add macros.    *)
(*                                                                         *)
(* Of a table vector, a union or a table field only the name of the table  *)
(* or union is kept: FlatBuffers and FlatBuilder interpret the             *)
(* descriptors.  A field of a union has the identifier of its value; the   *)
(* type is the field before it.                                            *)
(***************************************************************************)
EXTENDS Integers, Sequences, TLC

-----------------------------------------------------------------------------
(* Accessors: the macros __flatbuffers_define_..._field.                   *)

Descriptor(kind, id, size, align, of, default) ==
    [kind |-> kind, id |-> id, size |-> size, align |-> align, of |-> of,
     default |-> default]

Scalar(id, size, default) == Descriptor("scalar", id, size, size, "", default)
Struct(id, size, align) == Descriptor("struct", id, size, align, "", 0)
String(id) == Descriptor("string", id, 4, 4, "", 0)
Vector(id, size, align) == Descriptor("vector", id, size, align, "", 0)
Table(id, of) == Descriptor("table", id, 4, 4, of, 0)
TableVector(id, of) == Descriptor("tables", id, 4, 4, of, 0)
Union(id, of) == Descriptor("union", id, 4, 4, of, 0)

Null_reader == << >>
Struct__reader == << >>
List_reader == << >>
LargeList_reader == << >>
FixedSizeList_reader == [listSize |-> Scalar(0, 4, 0)]
Map_reader == [keysSorted |-> Scalar(0, 1, 0)]
Union_reader == [mode |-> Scalar(0, 2, 0), typeIds |-> Vector(1, 4, 4)]
Int_reader == [bitWidth |-> Scalar(0, 4, 0), is_signed |-> Scalar(1, 1, 0)]
FloatingPoint_reader == [precision |-> Scalar(0, 2, 0)]
Utf8_reader == << >>
Binary_reader == << >>
LargeUtf8_reader == << >>
LargeBinary_reader == << >>
FixedSizeBinary_reader == [byteWidth |-> Scalar(0, 4, 0)]
Bool_reader == << >>
RunEndEncoded_reader == << >>
Decimal_reader ==
    [precision |-> Scalar(0, 4, 0), scale |-> Scalar(1, 4, 0),
     bitWidth |-> Scalar(2, 4, 128)]
Date_reader == [unit |-> Scalar(0, 2, 1)]
Time_reader == [unit |-> Scalar(0, 2, 1), bitWidth |-> Scalar(1, 4, 32)]
Timestamp_reader == [unit |-> Scalar(0, 2, 0), timezone |-> String(1)]
Interval_reader == [unit |-> Scalar(0, 2, 0)]
Duration_reader == [unit |-> Scalar(0, 2, 1)]
KeyValue_reader == [key |-> String(0), value |-> String(1)]
DictionaryEncoding_reader ==
    [id |-> Scalar(0, 8, 0), indexType |-> Table(1, "Int"),
     isOrdered |-> Scalar(2, 1, 0), dictionaryKind |-> Scalar(3, 2, 0)]
Field_reader ==
    [name |-> String(0), nullable |-> Scalar(1, 1, 0),
     type |-> Union(3, "Type"), dictionary |-> Table(4, "DictionaryEncoding"),
     children |-> TableVector(5, "Field"),
     custom_metadata |-> TableVector(6, "KeyValue")]
Schema_reader ==
    [endianness |-> Scalar(0, 2, 0), fields |-> TableVector(1, "Field"),
     custom_metadata |-> TableVector(2, "KeyValue"),
     features |-> Vector(3, 8, 8)]
Footer_reader ==
    [version |-> Scalar(0, 2, 0), schema |-> Table(1, "Schema"),
     dictionaries |-> Vector(2, 24, 8), recordBatches |-> Vector(3, 24, 8),
     custom_metadata |-> TableVector(4, "KeyValue")]
TensorDim_reader == [size |-> Scalar(0, 8, 0), name |-> String(1)]
Tensor_reader ==
    [type |-> Union(1, "Type"), shape |-> TableVector(2, "TensorDim"),
     strides |-> Vector(3, 8, 8), data |-> Struct(4, 16, 8)]
SparseTensorIndexCOO_reader ==
    [indicesType |-> Table(0, "Int"), indicesStrides |-> Vector(1, 8, 8),
     indicesBuffer |-> Struct(2, 16, 8), isCanonical |-> Scalar(3, 1, 0)]
SparseMatrixIndexCSX_reader ==
    [compressedAxis |-> Scalar(0, 2, 0), indptrType |-> Table(1, "Int"),
     indptrBuffer |-> Struct(2, 16, 8), indicesType |-> Table(3, "Int"),
     indicesBuffer |-> Struct(4, 16, 8)]
SparseTensorIndexCSF_reader ==
    [indptrType |-> Table(0, "Int"), indptrBuffers |-> Vector(1, 16, 8),
     indicesType |-> Table(2, "Int"), indicesBuffers |-> Vector(3, 16, 8),
     axisOrder |-> Vector(4, 4, 4)]
SparseTensor_reader ==
    [type |-> Union(1, "Type"), shape |-> TableVector(2, "TensorDim"),
     non_zero_length |-> Scalar(3, 8, 0),
     sparseIndex |-> Union(5, "SparseTensorIndex"), data |-> Struct(6, 16, 8)]
BodyCompression_reader ==
    [codec |-> Scalar(0, 1, 0), method |-> Scalar(1, 1, 0)]
RecordBatch_reader ==
    [length |-> Scalar(0, 8, 0), nodes |-> Vector(1, 16, 8),
     buffers |-> Vector(2, 16, 8), compression |-> Table(3, "BodyCompression")]
DictionaryBatch_reader ==
    [id |-> Scalar(0, 8, 0), data |-> Table(1, "RecordBatch"),
     isDelta |-> Scalar(2, 1, 0)]
Message_reader ==
    [version |-> Scalar(0, 2, 0), header |-> Union(2, "MessageHeader"),
     bodyLength |-> Scalar(3, 8, 0),
     custom_metadata |-> TableVector(4, "KeyValue")]

reader ==
    [Null |-> Null_reader, Struct_ |-> Struct__reader, List |-> List_reader,
     LargeList |-> LargeList_reader, FixedSizeList |-> FixedSizeList_reader,
     Map |-> Map_reader, Union |-> Union_reader, Int |-> Int_reader,
     FloatingPoint |-> FloatingPoint_reader, Utf8 |-> Utf8_reader,
     Binary |-> Binary_reader, LargeUtf8 |-> LargeUtf8_reader,
     LargeBinary |-> LargeBinary_reader,
     FixedSizeBinary |-> FixedSizeBinary_reader, Bool |-> Bool_reader,
     RunEndEncoded |-> RunEndEncoded_reader, Decimal |-> Decimal_reader,
     Date |-> Date_reader, Time |-> Time_reader, Timestamp |-> Timestamp_reader,
     Interval |-> Interval_reader, Duration |-> Duration_reader,
     KeyValue |-> KeyValue_reader,
     DictionaryEncoding |-> DictionaryEncoding_reader, Field |-> Field_reader,
     Schema |-> Schema_reader, Footer |-> Footer_reader,
     TensorDim |-> TensorDim_reader, Tensor |-> Tensor_reader,
     SparseTensorIndexCOO |-> SparseTensorIndexCOO_reader,
     SparseMatrixIndexCSX |-> SparseMatrixIndexCSX_reader,
     SparseTensorIndexCSF |-> SparseTensorIndexCSF_reader,
     SparseTensor |-> SparseTensor_reader,
     BodyCompression |-> BodyCompression_reader,
     RecordBatch |-> RecordBatch_reader,
     DictionaryBatch |-> DictionaryBatch_reader, Message |-> Message_reader]

-----------------------------------------------------------------------------
(* Verifiers: the calls of flatcc_verify_..._field.                        *)

Check(kind, id, required, size, align, of) ==
    [kind |-> kind, id |-> id, required |-> required, size |-> size,
     align |-> align, of |-> of]

VerifyField(id, size, align) == Check("field", id, FALSE, size, align, "")
VerifyString(id, required) == Check("string", id, required, 1, 1, "")
VerifyVector(id, required, size, align) ==
    Check("vector", id, required, size, align, "")
VerifyTable(id, required, of) == Check("table", id, required, 4, 4, of)
VerifyTableVector(id, required, of) == Check("tables", id, required, 4, 4, of)
VerifyUnion(id, required, of) == Check("union", id, required, 4, 4, of)

Null_verify_table == << >>
Struct__verify_table == << >>
List_verify_table == << >>
LargeList_verify_table == << >>
FixedSizeList_verify_table == <<VerifyField(0, 4, 4)>>
Map_verify_table == <<VerifyField(0, 1, 1)>>
Union_verify_table == <<VerifyField(0, 2, 2), VerifyVector(1, FALSE, 4, 4)>>
Int_verify_table == <<VerifyField(0, 4, 4), VerifyField(1, 1, 1)>>
FloatingPoint_verify_table == <<VerifyField(0, 2, 2)>>
Utf8_verify_table == << >>
Binary_verify_table == << >>
LargeUtf8_verify_table == << >>
LargeBinary_verify_table == << >>
FixedSizeBinary_verify_table == <<VerifyField(0, 4, 4)>>
Bool_verify_table == << >>
RunEndEncoded_verify_table == << >>
Decimal_verify_table ==
    <<VerifyField(0, 4, 4), VerifyField(1, 4, 4), VerifyField(2, 4, 4)>>
Date_verify_table == <<VerifyField(0, 2, 2)>>
Time_verify_table == <<VerifyField(0, 2, 2), VerifyField(1, 4, 4)>>
Timestamp_verify_table == <<VerifyField(0, 2, 2), VerifyString(1, FALSE)>>
Interval_verify_table == <<VerifyField(0, 2, 2)>>
Duration_verify_table == <<VerifyField(0, 2, 2)>>
KeyValue_verify_table == <<VerifyString(0, FALSE), VerifyString(1, FALSE)>>
DictionaryEncoding_verify_table ==
    <<VerifyField(0, 8, 8), VerifyTable(1, FALSE, "Int"), VerifyField(2, 1, 1),
      VerifyField(3, 2, 2)>>
Field_verify_table ==
    <<VerifyString(0, FALSE), VerifyField(1, 1, 1),
      VerifyUnion(3, FALSE, "Type"),
      VerifyTable(4, FALSE, "DictionaryEncoding"),
      VerifyTableVector(5, FALSE, "Field"),
      VerifyTableVector(6, FALSE, "KeyValue")>>
Schema_verify_table ==
    <<VerifyField(0, 2, 2), VerifyTableVector(1, FALSE, "Field"),
      VerifyTableVector(2, FALSE, "KeyValue"), VerifyVector(3, FALSE, 8, 8)>>
Footer_verify_table ==
    <<VerifyField(0, 2, 2), VerifyTable(1, FALSE, "Schema"),
      VerifyVector(2, FALSE, 24, 8), VerifyVector(3, FALSE, 24, 8),
      VerifyTableVector(4, FALSE, "KeyValue")>>
TensorDim_verify_table == <<VerifyField(0, 8, 8), VerifyString(1, FALSE)>>
Tensor_verify_table ==
    <<VerifyUnion(1, TRUE, "Type"), VerifyTableVector(2, TRUE, "TensorDim"),
      VerifyVector(3, FALSE, 8, 8), VerifyField(4, 16, 8)>>
SparseTensorIndexCOO_verify_table ==
    <<VerifyTable(0, TRUE, "Int"), VerifyVector(1, FALSE, 8, 8),
      VerifyField(2, 16, 8), VerifyField(3, 1, 1)>>
SparseMatrixIndexCSX_verify_table ==
    <<VerifyField(0, 2, 2), VerifyTable(1, TRUE, "Int"), VerifyField(2, 16, 8),
      VerifyTable(3, TRUE, "Int"), VerifyField(4, 16, 8)>>
SparseTensorIndexCSF_verify_table ==
    <<VerifyTable(0, TRUE, "Int"), VerifyVector(1, TRUE, 16, 8),
      VerifyTable(2, TRUE, "Int"), VerifyVector(3, TRUE, 16, 8),
      VerifyVector(4, TRUE, 4, 4)>>
SparseTensor_verify_table ==
    <<VerifyUnion(1, TRUE, "Type"), VerifyTableVector(2, TRUE, "TensorDim"),
      VerifyField(3, 8, 8), VerifyUnion(5, TRUE, "SparseTensorIndex"),
      VerifyField(6, 16, 8)>>
BodyCompression_verify_table == <<VerifyField(0, 1, 1), VerifyField(1, 1, 1)>>
RecordBatch_verify_table ==
    <<VerifyField(0, 8, 8), VerifyVector(1, FALSE, 16, 8),
      VerifyVector(2, FALSE, 16, 8), VerifyTable(3, FALSE, "BodyCompression")>>
DictionaryBatch_verify_table ==
    <<VerifyField(0, 8, 8), VerifyTable(1, FALSE, "RecordBatch"),
      VerifyField(2, 1, 1)>>
Message_verify_table ==
    <<VerifyField(0, 2, 2), VerifyUnion(2, FALSE, "MessageHeader"),
      VerifyField(3, 8, 8), VerifyTableVector(4, FALSE, "KeyValue")>>

verifier ==
    [Null |-> Null_verify_table, Struct_ |-> Struct__verify_table,
     List |-> List_verify_table, LargeList |-> LargeList_verify_table,
     FixedSizeList |-> FixedSizeList_verify_table, Map |-> Map_verify_table,
     Union |-> Union_verify_table, Int |-> Int_verify_table,
     FloatingPoint |-> FloatingPoint_verify_table, Utf8 |-> Utf8_verify_table,
     Binary |-> Binary_verify_table, LargeUtf8 |-> LargeUtf8_verify_table,
     LargeBinary |-> LargeBinary_verify_table,
     FixedSizeBinary |-> FixedSizeBinary_verify_table,
     Bool |-> Bool_verify_table, RunEndEncoded |-> RunEndEncoded_verify_table,
     Decimal |-> Decimal_verify_table, Date |-> Date_verify_table,
     Time |-> Time_verify_table, Timestamp |-> Timestamp_verify_table,
     Interval |-> Interval_verify_table, Duration |-> Duration_verify_table,
     KeyValue |-> KeyValue_verify_table,
     DictionaryEncoding |-> DictionaryEncoding_verify_table,
     Field |-> Field_verify_table, Schema |-> Schema_verify_table,
     Footer |-> Footer_verify_table, TensorDim |-> TensorDim_verify_table,
     Tensor |-> Tensor_verify_table,
     SparseTensorIndexCOO |-> SparseTensorIndexCOO_verify_table,
     SparseMatrixIndexCSX |-> SparseMatrixIndexCSX_verify_table,
     SparseTensorIndexCSF |-> SparseTensorIndexCSF_verify_table,
     SparseTensor |-> SparseTensor_verify_table,
     BodyCompression |-> BodyCompression_verify_table,
     RecordBatch |-> RecordBatch_verify_table,
     DictionaryBatch |-> DictionaryBatch_verify_table,
     Message |-> Message_verify_table]

-----------------------------------------------------------------------------
(* Builders: the calls of _add, _add_value and _add_type in _create.       *)

Addition(kind, name, id, size, align, default) ==
    [kind |-> kind, name |-> name, id |-> id, size |-> size,
     align |-> align, default |-> default]

Add(name, id, size, align, default) ==
    Addition("scalar", name, id, size, align, default)
AddStruct(name, id, size, align) ==
    Addition("struct", name, id, size, align, 0)
AddRef(name, id) == Addition("ref", name, id, 4, 4, 0)
AddValue(name, id) == Addition("value", name, id, 4, 4, 0)
AddType(name, id) == Addition("type", name, id, 1, 1, 0)

Null_create == << >>
Struct__create == << >>
List_create == << >>
LargeList_create == << >>
FixedSizeList_create == <<Add("listSize", 0, 4, 4, 0)>>
Map_create == <<Add("keysSorted", 0, 1, 1, 0)>>
Union_create == <<AddRef("typeIds", 1), Add("mode", 0, 2, 2, 0)>>
Int_create == <<Add("bitWidth", 0, 4, 4, 0), Add("is_signed", 1, 1, 1, 0)>>
FloatingPoint_create == <<Add("precision", 0, 2, 2, 0)>>
Utf8_create == << >>
Binary_create == << >>
LargeUtf8_create == << >>
LargeBinary_create == << >>
FixedSizeBinary_create == <<Add("byteWidth", 0, 4, 4, 0)>>
Bool_create == << >>
RunEndEncoded_create == << >>
Decimal_create ==
    <<Add("precision", 0, 4, 4, 0), Add("scale", 1, 4, 4, 0),
      Add("bitWidth", 2, 4, 4, 128)>>
Date_create == <<Add("unit", 0, 2, 2, 1)>>
Time_create == <<Add("bitWidth", 1, 4, 4, 32), Add("unit", 0, 2, 2, 1)>>
Timestamp_create == <<AddRef("timezone", 1), Add("unit", 0, 2, 2, 0)>>
Interval_create == <<Add("unit", 0, 2, 2, 0)>>
Duration_create == <<Add("unit", 0, 2, 2, 1)>>
KeyValue_create == <<AddRef("key", 0), AddRef("value", 1)>>
DictionaryEncoding_create ==
    <<Add("id", 0, 8, 8, 0), AddRef("indexType", 1),
      Add("dictionaryKind", 3, 2, 2, 0), Add("isOrdered", 2, 1, 1, 0)>>
Field_create ==
    <<AddRef("name", 0), AddValue("type", 3), AddRef("dictionary", 4),
      AddRef("children", 5), AddRef("custom_metadata", 6),
      Add("nullable", 1, 1, 1, 0), AddType("type", 2)>>
Schema_create ==
    <<AddRef("fields", 1), AddRef("custom_metadata", 2), AddRef("features", 3),
      Add("endianness", 0, 2, 2, 0)>>
Footer_create ==
    <<AddRef("schema", 1), AddRef("dictionaries", 2),
      AddRef("recordBatches", 3), AddRef("custom_metadata", 4),
      Add("version", 0, 2, 2, 0)>>
TensorDim_create == <<Add("size", 0, 8, 8, 0), AddRef("name", 1)>>
Tensor_create ==
    <<AddStruct("data", 4, 16, 8), AddValue("type", 1), AddRef("shape", 2),
      AddRef("strides", 3), AddType("type", 0)>>
SparseTensorIndexCOO_create ==
    <<AddStruct("indicesBuffer", 2, 16, 8), AddRef("indicesType", 0),
      AddRef("indicesStrides", 1), Add("isCanonical", 3, 1, 1, 0)>>
SparseMatrixIndexCSX_create ==
    <<AddStruct("indptrBuffer", 2, 16, 8), AddStruct("indicesBuffer", 4, 16, 8),
      AddRef("indptrType", 1), AddRef("indicesType", 3),
      Add("compressedAxis", 0, 2, 2, 0)>>
SparseTensorIndexCSF_create ==
    <<AddRef("indptrType", 0), AddRef("indptrBuffers", 1),
      AddRef("indicesType", 2), AddRef("indicesBuffers", 3),
      AddRef("axisOrder", 4)>>
SparseTensor_create ==
    <<Add("non_zero_length", 3, 8, 8, 0), AddStruct("data", 6, 16, 8),
      AddValue("type", 1), AddRef("shape", 2), AddValue("sparseIndex", 5),
      AddType("type", 0), AddType("sparseIndex", 4)>>
BodyCompression_create ==
    <<Add("codec", 0, 1, 1, 0), Add("method", 1, 1, 1, 0)>>
RecordBatch_create ==
    <<Add("length", 0, 8, 8, 0), AddRef("nodes", 1), AddRef("buffers", 2),
      AddRef("compression", 3)>>
DictionaryBatch_create ==
    <<Add("id", 0, 8, 8, 0), AddRef("data", 1), Add("isDelta", 2, 1, 1, 0)>>
Message_create ==
    <<Add("bodyLength", 3, 8, 8, 0), AddValue("header", 2),
      AddRef("custom_metadata", 4), Add("version", 0, 2, 2, 0),
      AddType("header", 1)>>

builder ==
    [Null |-> Null_create, Struct_ |-> Struct__create, List |-> List_create,
     LargeList |-> LargeList_create, FixedSizeList |-> FixedSizeList_create,
     Map |-> Map_create, Union |-> Union_create, Int |-> Int_create,
     FloatingPoint |-> FloatingPoint_create, Utf8 |-> Utf8_create,
     Binary |-> Binary_create, LargeUtf8 |-> LargeUtf8_create,
     LargeBinary |-> LargeBinary_create,
     FixedSizeBinary |-> FixedSizeBinary_create, Bool |-> Bool_create,
     RunEndEncoded |-> RunEndEncoded_create, Decimal |-> Decimal_create,
     Date |-> Date_create, Time |-> Time_create, Timestamp |-> Timestamp_create,
     Interval |-> Interval_create, Duration |-> Duration_create,
     KeyValue |-> KeyValue_create,
     DictionaryEncoding |-> DictionaryEncoding_create, Field |-> Field_create,
     Schema |-> Schema_create, Footer |-> Footer_create,
     TensorDim |-> TensorDim_create, Tensor |-> Tensor_create,
     SparseTensorIndexCOO |-> SparseTensorIndexCOO_create,
     SparseMatrixIndexCSX |-> SparseMatrixIndexCSX_create,
     SparseTensorIndexCSF |-> SparseTensorIndexCSF_create,
     SparseTensor |-> SparseTensor_create,
     BodyCompression |-> BodyCompression_create,
     RecordBatch |-> RecordBatch_create,
     DictionaryBatch |-> DictionaryBatch_create, Message |-> Message_create]

-----------------------------------------------------------------------------
(* The parameters of the N_create functions: v0, v1, ... by the number of  *)
(* the field they are for. A union has one, numbered as its value.         *)

TypeFormals ==
    [Null |-> <<>>, Struct_ |-> <<>>, List |-> <<>>, LargeList |-> <<>>,
     FixedSizeList |-> <<0>>, Map |-> <<0>>, Union |-> <<0, 1>>, Int |-> <<0, 1>>,
     FloatingPoint |-> <<0>>, Utf8 |-> <<>>, Binary |-> <<>>, LargeUtf8 |-> <<>>,
     LargeBinary |-> <<>>, FixedSizeBinary |-> <<0>>]
SchemaFormals ==
    [Bool |-> <<>>, RunEndEncoded |-> <<>>, Decimal |-> <<0, 1, 2>>, Date |-> <<0>>,
     Time |-> <<0, 1>>, Timestamp |-> <<0, 1>>, Interval |-> <<0>>, Duration |-> <<0>>,
     KeyValue |-> <<0, 1>>, DictionaryEncoding |-> <<0, 1, 2, 3>>,
     Field |-> <<0, 1, 3, 4, 5, 6>>, Schema |-> <<0, 1, 2, 3>>]
FileFormals == [Footer |-> <<0, 1, 2, 3, 4>>]
TensorFormals == [TensorDim |-> <<0, 1>>, Tensor |-> <<1, 2, 3, 4>>]
SparseTensorFormals ==
    [SparseTensorIndexCOO |-> <<0, 1, 2, 3>>, SparseMatrixIndexCSX |-> <<0, 1, 2, 3, 4>>,
     SparseTensorIndexCSF |-> <<0, 1, 2, 3, 4>>, SparseTensor |-> <<1, 2, 3, 5, 6>>]
MessageFormals ==
    [BodyCompression |-> <<0, 1>>, RecordBatch |-> <<0, 1, 2, 3>>,
     DictionaryBatch |-> <<0, 1, 2>>, Message |-> <<0, 2, 3, 4>>]
formal_args ==
    TypeFormals @@ SchemaFormals @@ FileFormals @@ TensorFormals
        @@ SparseTensorFormals @@ MessageFormals

-----------------------------------------------------------------------------
(* The number of fields __flatbuffers_build_table reserves, and the        *)
(* required ones that _end looks for.                                      *)

TypeFields ==
    [Null |-> 0, Struct_ |-> 0, List |-> 0, LargeList |-> 0,
     FixedSizeList |-> 1, Map |-> 1, Union |-> 2, Int |-> 2,
     FloatingPoint |-> 1, Utf8 |-> 0, Binary |-> 0, LargeUtf8 |-> 0,
     LargeBinary |-> 0, FixedSizeBinary |-> 1]
SchemaFields ==
    [Bool |-> 0, RunEndEncoded |-> 0, Decimal |-> 3, Date |-> 1, Time |-> 2,
     Timestamp |-> 2, Interval |-> 1, Duration |-> 1, KeyValue |-> 2,
     DictionaryEncoding |-> 4, Field |-> 7, Schema |-> 4]
FileFields == [Footer |-> 5]
TensorFields == [TensorDim |-> 2, Tensor |-> 5]
SparseTensorFields ==
    [SparseTensorIndexCOO |-> 4, SparseMatrixIndexCSX |-> 5,
     SparseTensorIndexCSF |-> 5, SparseTensor |-> 7]
MessageFields ==
    [BodyCompression |-> 2, RecordBatch |-> 4, DictionaryBatch |-> 3,
     Message |-> 5]
fields ==
    TypeFields @@ SchemaFields @@ FileFields @@ TensorFields
        @@ SparseTensorFields @@ MessageFields

required ==
    [Tensor |-> <<1, 2, 4>>, SparseTensorIndexCOO |-> <<0, 2>>,
     SparseMatrixIndexCSX |-> <<1, 2, 3, 4>>,
     SparseTensorIndexCSF |-> <<0, 1, 2, 3, 4>>,
     SparseTensor |-> <<1, 2, 5, 6>>]

-----------------------------------------------------------------------------
(* Unions: the members in the order of their type codes, from 1.           *)

Type_members ==
    <<"Null", "Int", "FloatingPoint", "Binary", "Utf8", "Bool", "Decimal",
      "Date", "Time", "Timestamp", "Interval", "List", "Struct_", "Union",
      "FixedSizeBinary", "FixedSizeList", "Map", "Duration", "LargeBinary",
      "LargeUtf8", "LargeList", "RunEndEncoded">>
MessageHeader_members ==
    <<"Schema", "DictionaryBatch", "RecordBatch", "Tensor", "SparseTensor">>
SparseTensorIndex_members ==
    <<"SparseTensorIndexCOO", "SparseMatrixIndexCSX", "SparseTensorIndexCSF">>

members ==
    [Type |-> Type_members, MessageHeader |-> MessageHeader_members,
     SparseTensorIndex |-> SparseTensorIndex_members]

=============================================================================
