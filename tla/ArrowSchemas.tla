---------------------------- MODULE ArrowSchemas ----------------------------
(* Schemas of nanoarrow.c: setting types, copying, releasing, parsing a format    *)
(* and validating it, key/value metadata, and the array views and arrays built    *)
(* from a schema. A pointer that may be NULL is a sequence of at most one thing.  *)
(* A schema is "live" while its release callback is set. A format string is its   *)
(* letters, whether a colon follows, the numbers of a comma-separated list after  *)
(* it and the text after those. "m" is the allocator: how many more allocations   *)
(* succeed, whether one failed, and the blocks of each kind that are allocated.   *)
EXTENDS ArrowArrays, SequencesExt

EEXIST == "eexist"
ERANGE == "erange"
Null == <<>>

Memory(fuel) == [fuel |-> fuel, failed |-> FALSE, schema |-> 0, view |-> 0, array |-> 0, meta |-> 0]
Malloc(m, kind) == IF m.fuel = 0 THEN [m EXCEPT !.failed = TRUE]
                   ELSE [m EXCEPT !.fuel = @ - 1, ![kind] = @ + 1]
Freed(m, kind, n) == [m EXCEPT ![kind] = @ - n]

\* An operation returns its code, what it made of x, and the allocator.
Done(rc, x, m) == [rc |-> rc, x |-> x, m |-> m]
AndThen(r, Step(_, _)) == IF r.rc = OK THEN Step(r.x, r.m) ELSE r
Fold(n, first, Step(_, _)) ==
    LET Upto[i \in 0..n] == IF i = 0 THEN first ELSE Step(i, Upto[i - 1]) IN Upto[n]

-----------------------------------------------------------------------------
(* Metadata: the pairs of a serialized key/value list, in order *)

\* What the reader yields: nothing when there is no metadata.
MetadataRead(md) == IF md = Null THEN <<>> ELSE md[1]

PairBytes(p) == 8 + Len(p[1]) + Len(p[2])
ArrowMetadataSizeOf(md) ==
    IF md = Null THEN 0 ELSE Fold(Len(md[1]), 4, LAMBDA i, sum : sum + PairBytes(md[1][i]))

\* The pairs that so many bytes of a list hold.
FirstBytes(md, bytes) ==
    LET Size[i \in 0..Len(md[1])] == IF i = 0 THEN 4 ELSE Size[i - 1] + PairBytes(md[1][i])
    IN  <<SubSeq(md[1], 1, Cardinality({i \in DOMAIN md[1] : Size[i] <= bytes}))>>

\* The value of the first pair with the key.
ArrowMetadataGetValue(md, key) ==
    LET i == SelectInSeq(MetadataRead(md), LAMBDA p : p[1] = key)
    IN  IF i = 0 THEN Null ELSE <<md[1][i][2]>>
ArrowMetadataHasKey(md, key) == ArrowMetadataGetValue(md, key) # Null

\* A builder's buffer: its pairs and its capacity in bytes, 0 while its data is NULL. To grow is
\* to reallocate; when that fails the pointer to what there was is lost.
EmptyBuffer == [pairs |-> <<>>, capacity |-> 0]
BufferText(b) == IF b.capacity = 0 THEN Null ELSE <<b.pairs>>
Reserve(b, size, extra, m) ==
    LET held == BoolInt(b.capacity > 0)
    IN  IF size + extra <= b.capacity THEN Done(OK, b, m)
        ELSE IF m.fuel = 0 THEN Done(ENOMEM, EmptyBuffer, Malloc(m, "meta"))
        ELSE Done(OK, [b EXCEPT !.capacity = GrowByFactor(@, size + extra)],
                  Malloc(Freed(m, "meta", held), "meta"))
ArrowBufferFree(b, m) == Freed(m, "meta", BoolInt(b.capacity > 0))

ArrowMetadataBuilderInit(md, m) ==
    AndThen(Reserve(EmptyBuffer, 0, ArrowMetadataSizeOf(md), m),
            LAMBDA b, mm : Done(OK, [b EXCEPT !.pairs = MetadataRead(md)], mm))

\* The count of pairs comes first, in 4 bytes of its own. No value appends nothing.
ArrowMetadataBuilderAppend(b, key, value, m) ==
    LET counted == IF b.capacity = 0 THEN Reserve(b, 0, 4, m) ELSE Done(OK, b, m)
        pair == <<key, value[1]>>
        Sized(x, mm) == Reserve(x, ArrowMetadataSizeOf(<<x.pairs>>), PairBytes(pair), mm)
    IN  IF value = Null THEN Done(OK, b, m)
        ELSE AndThen(AndThen(counted, Sized),
                     LAMBDA x, mm : Done(OK, [x EXCEPT !.pairs = Append(@, pair)], mm))

\* The value that pair i has once key is set: the first pair with the key takes the new value,
\* later ones get none.
ValueAfterSet(pairs, i, key, value) ==
    IF pairs[i][1] # key THEN <<pairs[i][2]>>
    ELSE IF \E j \in 1..(i - 1) : pairs[j][1] = key THEN Null ELSE value

\* A key that is there is set by building a new buffer that replaces the old one. Removing a key
\* is setting it to no value.
ArrowMetadataBuilderSet(b, key, value, m) ==
    LET Copy(i, r) == AndThen(r, LAMBDA x, mm : ArrowMetadataBuilderAppend(x, b.pairs[i][1],
                                                    ValueAfterSet(b.pairs, i, key, value), mm))
        r == Fold(Len(b.pairs), ArrowMetadataBuilderInit(Null, m), Copy)
    IN  IF ~ArrowMetadataHasKey(BufferText(b), key) THEN ArrowMetadataBuilderAppend(b, key, value, m)
        ELSE IF r.rc # OK THEN Done(r.rc, b, ArrowBufferFree(r.x, r.m))
        ELSE Done(OK, r.x, ArrowBufferFree(b, r.m))

-----------------------------------------------------------------------------
(* Schemas *)

ArrowSchemaInit ==
    [live |-> TRUE, format |-> Null, name |-> Null, metadata |-> Null, nullable |-> TRUE,
     children |-> <<>>, dictionary |-> Null]
\* Allocated, with nothing but the release callback set, to NULL.
Unreleased == [ArrowSchemaInit EXCEPT !.live = FALSE]

\* Frees what a schema holds: its texts, its children and its dictionary, each after its own
\* release callback unless that is NULL already.
RECURSIVE ArrowSchemaRelease(_, _)
ArrowSchemaRelease(s, m) ==
    LET Struct(p, mm) ==
            IF p = Null THEN mm
            ELSE Freed(IF p[1].live THEN ArrowSchemaRelease(p[1], mm) ELSE mm, "schema", 1)
        texts == Freed(m, "schema", Len(s.format) + Len(s.name) + Len(s.metadata))
        below == Fold(Len(s.children), texts, LAMBDA i, mm : Struct(s.children[i], mm))
    IN  Struct(s.dictionary, Freed(below, "schema", BoolInt(s.children # <<>>)))

\* SetFormat, SetName and SetMetadata free the old text before they allocate the new one.
SetText(s, field, text, m) ==
    LET freed == Freed(m, "schema", Len(s[field]))
    IN  IF text = Null THEN Done(OK, [s EXCEPT ![field] = Null], freed)
        ELSE IF m.fuel = 0 THEN Done(ENOMEM, [s EXCEPT ![field] = Null], Malloc(freed, "schema"))
        ELSE Done(OK, [s EXCEPT ![field] = text], Malloc(freed, "schema"))
ArrowSchemaSetFormat(s, format, m) == SetText(s, "format", format, m)
ArrowSchemaSetName(s, name, m) == SetText(s, "name", name, m)
ArrowSchemaSetMetadata(s, md, m) ==
    SetText(s, "metadata", IF md = Null THEN Null ELSE FirstBytes(md, ArrowMetadataSizeOf(md)), m)

\* The array of children and each child; the count is set before the children are allocated.
ArrowSchemaAllocateChildren(s, n, m) ==
    LET array == Malloc(m, "schema")
        got == IF array.fuel < n THEN array.fuel ELSE n
        children == [i \in 1..n |-> IF i <= got THEN <<Unreleased>> ELSE Null]
    IN  IF s.children # <<>> THEN Done(EEXIST, s, m)
        ELSE IF n <= 0 THEN Done(OK, s, m)
        ELSE IF m.fuel = 0 THEN Done(ENOMEM, s, array)
        ELSE Done(IF got = n THEN OK ELSE ENOMEM, [s EXCEPT !.children = children],
                  [array EXCEPT !.fuel = @ - got, !.schema = @ + got, !.failed = @ \/ got < n])

ArrowSchemaAllocateDictionary(s, m) ==
    IF s.dictionary # Null THEN Done(EEXIST, s, m)
    ELSE Done(IF m.fuel = 0 THEN ENOMEM ELSE OK,
              [s EXCEPT !.dictionary = IF m.fuel = 0 THEN Null ELSE <<Unreleased>>], Malloc(m, "schema"))

\* An operation on child i, or on the dictionary, of a schema.
OnChild(s, i, m, Op(_, _)) ==
    LET r == Op(s.children[i][1], m) IN Done(r.rc, [s EXCEPT !.children[i] = <<r.x>>], r.m)
OnDictionary(s, m, Op(_, _)) ==
    LET r == Op(s.dictionary[1], m) IN Done(r.rc, [s EXCEPT !.dictionary = <<r.x>>], r.m)
InitChildren(s) == [s EXCEPT !.children = [i \in DOMAIN s.children |-> <<ArrowSchemaInit>>]]
NotNullable(s, m) == Done(OK, [s EXCEPT !.nullable = FALSE], m)

-----------------------------------------------------------------------------
(* Formats *)

Format(letters, colon, numbers, text) ==
    [letters |-> letters, colon |-> colon, numbers |-> numbers, text |-> text]
Plain(letters) == Format(letters, FALSE, <<>>, "")

Templates ==
    [NA |-> <<"n">>, BOOL |-> <<"b">>, UINT8 |-> <<"C">>, INT8 |-> <<"c">>, UINT16 |-> <<"S">>,
     INT16 |-> <<"s">>, UINT32 |-> <<"I">>, INT32 |-> <<"i">>, UINT64 |-> <<"L">>, INT64 |-> <<"l">>,
     HALF_FLOAT |-> <<"e">>, FLOAT |-> <<"f">>, DOUBLE |-> <<"g">>, STRING |-> <<"u">>,
     LARGE_STRING |-> <<"U">>, BINARY |-> <<"z">>, LARGE_BINARY |-> <<"Z">>,
     DATE32 |-> <<"t", "d", "D">>, DATE64 |-> <<"t", "d", "m">>,
     INTERVAL_MONTHS |-> <<"t", "i", "M">>, INTERVAL_DAY_TIME |-> <<"t", "i", "D">>,
     INTERVAL_MONTH_DAY_NANO |-> <<"t", "i", "n">>, LIST |-> <<"+", "l">>,
     LARGE_LIST |-> <<"+", "L">>, STRUCT |-> <<"+", "s">>, MAP |-> <<"+", "m">>]
ArrowSchemaFormatTemplate(type) == IF type \in DOMAIN Templates THEN <<Plain(Templates[type])>> ELSE Null

TimeUnits == [SECOND |-> "s", MILLI |-> "m", MICRO |-> "u", NANO |-> "n"]
ArrowTimeUnitFormatString(unit) == IF unit \in DOMAIN TimeUnits THEN <<TimeUnits[unit]>> ELSE Null

RECURSIVE ArrowSchemaSetType(_, _, _)
ArrowSchemaInitFromType(type, m) ==
    LET r == ArrowSchemaSetType(ArrowSchemaInit, type, m)
    IN  IF r.rc = OK THEN r ELSE Done(r.rc, Unreleased, ArrowSchemaRelease(r.x, r.m))

\* One child named "item"; or, for a map, the struct "entries" of a key, which cannot be null,
\* and a value.
ArrowSchemaInitChildrenIfNeeded(s, type, m) ==
    LET Named(x, i, name, mm) == OnChild(x, i, mm, LAMBDA c, mc : ArrowSchemaSetName(c, <<name>>, mc))
        Item(x, mm) == Named(InitChildren(x), 1, "item", mm)
        KeyAndValue(e, me) ==
            AndThen(AndThen(AndThen(ArrowSchemaAllocateChildren(e, 2, me),
                                    LAMBDA x, mm : Named(InitChildren(x), 1, "key", mm)),
                            LAMBDA x, mm : OnChild(x, 1, mm, NotNullable)),
                    LAMBDA x, mm : Named(x, 2, "value", mm))
        Entries(x, mm) == OnChild(x, 1, mm, LAMBDA c, mc : ArrowSchemaInitFromType("STRUCT", mc))
        one == ArrowSchemaAllocateChildren(s, 1, m)
    IN  CASE type \in {"LIST", "LARGE_LIST", "FIXED_SIZE_LIST"} -> AndThen(one, Item)
          [] type = "MAP" ->
                AndThen(AndThen(AndThen(AndThen(one, Entries), LAMBDA x, mm : Named(x, 1, "entries", mm)),
                                LAMBDA x, mm : OnChild(x, 1, mm, NotNullable)),
                        LAMBDA x, mm : OnChild(x, 1, mm, KeyAndValue))
          [] OTHER -> Done(OK, s, m)

ArrowSchemaSetType(s, type, m) ==
    LET template == ArrowSchemaFormatTemplate(type)
    IN  IF template = Null /\ type # "UNINITIALIZED" THEN Done(EINVAL, s, m)
        ELSE AndThen(ArrowSchemaSetFormat(s, template, m),
                     LAMBDA x, mm : ArrowSchemaInitChildrenIfNeeded(x, type, mm))

\* Children for a struct or a union, all initialised once all are allocated.
WithChildren(r, n) ==
    LET sized == AndThen(r, LAMBDA x, mm : ArrowSchemaAllocateChildren(x, n, mm))
    IN  AndThen(sized, LAMBDA x, mm : Done(OK, IF n = 0 THEN x ELSE InitChildren(x), mm))

ArrowSchemaSetTypeStruct(s, n, m) == WithChildren(ArrowSchemaSetType(s, "STRUCT", m), n)

ArrowSchemaSetTypeFixedSize(s, type, size, m) ==
    LET letters == IF type = "FIXED_SIZE_LIST" THEN <<"+", "w">> ELSE <<"w">>
    IN  IF size <= 0 \/ type \notin {"FIXED_SIZE_BINARY", "FIXED_SIZE_LIST"} THEN Done(EINVAL, s, m)
        ELSE AndThen(ArrowSchemaSetFormat(s, <<Format(letters, TRUE, <<size>>, "")>>, m),
                     LAMBDA x, mm : ArrowSchemaInitChildrenIfNeeded(x, type, mm))

SetTypeDecimalNarrow(s, type, precision, scale, m) ==
    IF precision <= 0 \/ type \notin DecimalTypes THEN Done(EINVAL, s, m)
    ELSE ArrowSchemaSetFormat(s, <<Format(<<"d">>, TRUE, <<precision, scale>>, "")>>, m)
ArrowSchemaSetTypeDecimal(s, type, precision, scale, m) ==
    LET width == IF type = "DECIMAL256" THEN <<256>> ELSE <<>>
    IN  IF precision <= 0 \/ type \notin DecimalTypes THEN Done(EINVAL, s, m)
        ELSE ArrowSchemaSetFormat(s, <<Format(<<"d">>, TRUE, <<precision, scale>> \o width, "")>>, m)

\* A time zone that does not fit the buffer of 128 bytes a format is written in.
LongZone == "a very long time zone"

\* A time zone is for timestamps only. Nothing ties the width of a time type to the unit.
ArrowSchemaSetTypeDateTime(s, type, unit, timezone, m) ==
    LET letter == ArrowTimeUnitFormatString(unit)
        zone == IF timezone = Null THEN "" ELSE timezone[1]
        format == CASE type \in {"TIME32", "TIME64"} -> Plain(<<"t", "t">> \o letter)
                    [] type = "DURATION" -> Plain(<<"t", "D">> \o letter)
                    [] OTHER -> Format(<<"t", "s">> \o letter, TRUE, <<>>, zone)
    IN  IF letter = Null \/ type \notin {"TIME32", "TIME64", "TIMESTAMP", "DURATION"}
              \/ (type # "TIMESTAMP" /\ timezone # Null)
        THEN Done(EINVAL, s, m)
        ELSE IF zone = LongZone THEN Done(ERANGE, s, m)
        ELSE ArrowSchemaSetFormat(s, <<format>>, m)

ArrowSchemaSetTypeUnion(s, type, n, m) ==
    LET letters == <<"+", "u", IF type = "DENSE_UNION" THEN "d" ELSE "s">>
        ids == [i \in 1..n |-> i - 1]
    IN  IF n \notin 0..127 \/ type \notin UnionTypes THEN Done(EINVAL, s, m)
        ELSE WithChildren(ArrowSchemaSetFormat(s, <<Format(letters, TRUE, ids, "")>>, m), n)

\* The copy is released when any part of it cannot be made.
RECURSIVE ArrowSchemaDeepCopy(_, _)
DeepCopyUnreleased(s, m) ==
    LET Copied(x, mm) == AndThen(ArrowSchemaSetFormat(x, s.format, mm),
            LAMBDA y, my : ArrowSchemaSetName([y EXCEPT !.nullable = s.nullable], s.name, my))
        Labelled(x, mm) == ArrowSchemaSetMetadata(x, s.metadata, mm)
        Children(x, mm) ==
            LET OfChild(i, r) == AndThen(r, LAMBDA y, my : OnChild(y, i, my,
                                   LAMBDA c, mc : ArrowSchemaDeepCopy(s.children[i][1], mc)))
            IN  Fold(Len(s.children), ArrowSchemaAllocateChildren(x, Len(s.children), mm), OfChild)
        Dictionary(x, mm) ==
            IF s.dictionary = Null THEN Done(OK, x, mm)
            ELSE AndThen(ArrowSchemaAllocateDictionary(x, mm), LAMBDA y, my : OnDictionary(y, my,
                            LAMBDA c, mc : ArrowSchemaDeepCopy(s.dictionary[1], mc)))
    IN  AndThen(AndThen(AndThen(Copied(ArrowSchemaInit, m), Labelled), Children), Dictionary)
ArrowSchemaDeepCopy(s, m) ==
    LET r == DeepCopyUnreleased(s, m)
    IN  IF r.rc = OK THEN r ELSE Done(r.rc, Unreleased, ArrowSchemaRelease(r.x, r.m))
=============================================================================
