---------------------------- MODULE ArrowConvert ----------------------------
(* What the connector makes of a column of a record batch: it is validated when  *)
(* it is decoded, viewed, and then either turned into Python objects row by row   *)
(* (getConverterFromSchema and the converters) or rebuilt as a column that        *)
(* to_pandas understands (CArrowTableIterator::convertIfNeeded). The decimal      *)
(* scales keep their meaning with "Base" for ten, and 64 bits end at Int64Max.    *)
(*                                                                              *)
(* A value, in the data or in Python, is a tagged tuple: an instant, a time or a  *)
(* span counts nanoseconds, a number counts units of Base^-MaxScale.             *)
EXTENDS ArrowViews

CONSTANTS
    Columns,    \* columns: a schema, an array, and the rows it stands for when it is well formed
    Base,       \* ten
    MaxScale,   \* the largest number of digits after the point
    MaxSignificand, \* bytes of the significand of a decimal float, sixteen
    Int64Max

ASSUME ConvertAssumption == Base \in Nat \ {0, 1} /\ MaxScale \in Nat /\ MaxScale >= 9

VARIABLES
    given,      \* the column as it came, and whether it is well formed
    column,     \* the schema and array it has now
    numpy, decimal, force,  \* use_numpy, number_to_decimal, force_microsecond_precision
    mem,        \* buffer numbers the allocator has memory for
    view,       \* the view the converters read
    pc,
    rows,       \* the Python objects, one per row
    raised      \* "no", "python": a Python error is pending, "thrown": a C++ exception is

vars == <<given, column, numpy, decimal, force, mem, view, pc, rows, raised>>

-----------------------------------------------------------------------------
(* Arithmetic of C, and time.cpp *)

powTenSB4(k) == Base^k

\* Division and remainder of C truncate.
Quot(a, b) == IF a >= 0 THEN a \div b ELSE -((-a) \div b)
Rem(a, b) == a - b * Quot(a, b)
Abs(a) == IF a < 0 THEN -a ELSE a

\* A result of 64 bits; one that does not fit wraps.
Int64(a) == ((a + Int64Max + 1) % (2 * Int64Max + 2)) - Int64Max - 1

getHourFromSeconds(t, scale) == Quot(Quot(t, powTenSB4(scale)), 3600)
getMinuteFromSeconds(t, scale) == Quot(Rem(Quot(t, powTenSB4(scale)), 3600), 60)
getSecondFromSeconds(t, scale) == Rem(Quot(t, powTenSB4(scale)), 60)
getMicrosecondFromSeconds(t, scale) ==
    LET fraction == Rem(t, powTenSB4(scale))
    IN  IF scale > 6 THEN Quot(fraction, powTenSB4(scale - 6)) ELSE fraction * powTenSB4(6 - scale)

TimeSpecTruncates(units, scale) ==
    CASE scale = 0 -> [seconds |-> units, microseconds |-> 0]
      [] scale = 6 -> [seconds |-> 0, microseconds |-> units]
      [] scale > 6 -> [seconds |-> 0, microseconds |-> Quot(units, powTenSB4(scale - 6))]
      [] OTHER -> [seconds |-> Quot(units, powTenSB4(scale)),
                   microseconds |-> Rem(units, powTenSB4(scale)) * powTenSB4(6 - scale)]
\* Beyond six digits the division rounds down, also below zero.
TimeSpec(units, scale) ==
    LET divider == powTenSB4(scale - 6)
        fractions == Abs(Rem(units, powTenSB4(scale)))
        microseconds == fractions * powTenSB4(6 - scale)
    IN  CASE scale = 0 -> [seconds |-> units, microseconds |-> 0]
          [] scale = 6 -> [seconds |-> 0, microseconds |-> units]
          [] scale > 6 -> [seconds |-> 0,
                           microseconds |-> Quot(IF units < 0 THEN units - (divider - 1) ELSE units, divider)]
          [] OTHER -> [seconds |-> Quot(units, powTenSB4(scale)),
                       microseconds |-> IF units < 0 THEN -microseconds ELSE microseconds]

-----------------------------------------------------------------------------
(* Row by row *)

None == <<"none">>
Stray == <<"stray">>    \* made from memory outside the column
Failed == <<"failed">>  \* a Python error instead of an object

\* The converter a schema gets; "null" with a Python error when there is none for it.
NumberConverter(s) ==
    CASE s.type \in IntTypes -> IF s.scale > 0 THEN "DecimalFromInt" ELSE "Int"
      [] s.type = "DECIMAL128" -> "DecimalFromDecimal"
      [] OTHER -> "null"
ScalarConverter(s) ==
    CASE s.sf \in {"ANY", "CHAR", "TEXT", "VARIANT"} -> "String"
      [] s.sf = "BOOLEAN" -> "Boolean"
      [] s.sf = "REAL" -> "Float"
      [] s.sf = "DATE" -> "Date"
      [] s.sf = "BINARY" -> "Binary"
      [] s.sf = "TIME" -> IF s.type \in {"INT32", "INT64"} THEN "Time" ELSE "null"
InstantConverter(s) ==
    CASE s.sf # "TIMESTAMP_TZ" /\ s.type = "INT64" -> "OneField"
      [] s.sf # "TIMESTAMP_TZ" /\ s.type = "STRUCT" -> "TwoField"
      [] s.sf = "TIMESTAMP_TZ" /\ s.byteLength = 8 -> "TwoFieldTZ"
      [] s.sf = "TIMESTAMP_TZ" /\ s.byteLength = 16 -> "ThreeFieldTZ"
      [] OTHER -> "null"
StructuredConverter(s) ==
    CASE s.sf \in {"ARRAY", "OBJECT"} /\ s.type = "STRING" -> "String"
      [] s.sf = "ARRAY" /\ s.type = "LIST" -> "Array"
      [] s.sf = "MAP" -> "Map"
      [] s.sf = "OBJECT" /\ s.type = "STRUCT" -> "Object"
      [] s.sf = "VECTOR" -> "FixedSizeList"
      [] s.sf = "DECFLOAT" -> "DecFloat"
      [] s.sf = "INTERVAL_YEAR_MONTH" -> "IntervalYearMonth"
      [] s.sf = "INTERVAL_DAY_TIME" /\ s.type = "INT64" -> "IntervalDayTimeInt"
      [] s.sf = "INTERVAL_DAY_TIME" /\ s.type = "DECIMAL128" -> "IntervalDayTimeDecimal"
      [] OTHER -> "null"
getConverterFromSchema(s) ==
    CASE s.sf = "FIXED" -> NumberConverter(s)
      [] s.sf \in {"ANY", "CHAR", "TEXT", "VARIANT", "BOOLEAN", "REAL", "DATE", "BINARY", "TIME"} ->
            ScalarConverter(s)
      [] s.sf \in {"TIMESTAMP_NTZ", "TIMESTAMP_LTZ", "TIMESTAMP_TZ"} -> InstantConverter(s)
      [] OTHER -> StructuredConverter(s)

\* Does the constructor of a converter, or of one below it, set a Python error?
TimeStampFails(conv, n) ==
    (conv \in {"TwoField", "TwoFieldTZ"} /\ n # 2) \/ (conv = "ThreeFieldTZ" /\ n # 3)
DecFloatFails(s) ==
    Len(s.children) # 2 \/ {s.names[i] : i \in DOMAIN s.children} # {"exponent", "significand"}

RECURSIVE ConverterFails(_)
AnyFails(children) == \E i \in DOMAIN children : ConverterFails(children[i])
ArrayFails(s) == Len(s.children) # 1 \/ AnyFails(s.children)
MapFails(s) ==
    Len(s.children) # 1 \/ Len(s.children[1].children) # 2 \/ AnyFails(s.children[1].children)
ObjectFails(s) == AnyFails(s.children)
ConverterFails(s) ==
    LET conv == getConverterFromSchema(s)
    IN  \/ conv = "null"
        \/ TimeStampFails(conv, Len(s.children))
        \/ conv = "DecFloat" /\ DecFloatFails(s)
        \/ conv = "Array" /\ ArrayFails(s)
        \/ conv = "Map" /\ MapFails(s)
        \/ conv = "Object" /\ ObjectFails(s)

\* The child array of a name.
Child(s, v, name) == v.children[CHOOSE i \in DOMAIN s.names : s.names[i] = name]

\* A value made from one cell, from two, or from bytes.
Tagged(tag, x, Of(_)) == IF x = Unset THEN Stray ELSE <<tag, Of(x)>>
Same(x) == x
Bytes(tag, bs) == IF \E i \in DOMAIN bs : bs[i] = Unset THEN Stray ELSE <<tag, bs>>

\* The point of a number of so many digits after it.
Number(x, scale) == x * powTenSB4(MaxScale - scale)
\* What Python adds up from seconds and microseconds.
FromSpec(ts) == (ts.seconds * powTenSB4(6) + ts.microseconds) * powTenSB4(3)
FromTime(t, scale) ==
    (((getHourFromSeconds(t, scale) * 60 + getMinuteFromSeconds(t, scale)) * 60
        + getSecondFromSeconds(t, scale)) * powTenSB4(6) + getMicrosecondFromSeconds(t, scale)) * powTenSB4(3)
TwoFields(epoch, fraction, useNumpy) ==
    IF useNumpy THEN epoch * powTenSB4(9) + fraction
    ELSE FromSpec([seconds |-> epoch, microseconds |-> Quot(fraction, powTenSB4(3))])

\* The elements of a list or map: up to the next offset, or the end of the child for the last row.
Slice(v, i) ==
    [start |-> Cell(v.b[2], i),
     end |-> IF i + 1 < v.length THEN Cell(v.b[2], i + 1) ELSE v.children[1].length]

\* The elements between the bounds of a slice.
Elements(slice, Of(_)) ==
    IF Unset \in {slice.start, slice.end} \/ slice.start < 0 \/ slice.start > slice.end THEN Stray
    ELSE <<"list", [k \in 1..(slice.end - slice.start) |-> Of(slice.start + k - 1)]>>
Sub(s, v, name, i) == GetIntUnsafe(Child(s, v, name), i)

\* The converters, for one row that is not null.
IntConverter(s, v, i) == Tagged("number", GetIntUnsafe(v, i), LAMBDA x : Number(x, s.scale))
DecimalFromIntConverter(s, v, i) == Tagged("number", GetIntUnsafe(v, i), LAMBDA x : Number(x, s.scale))
DecimalFromDecimalConverter(s, v, i) ==
    Tagged("number", GetDecimalUnsafe(v, i)[1], LAMBDA x : Number(x, s.scale))
StringConverter(v, i) == Bytes("text", GetStringUnsafe(v, i))
BinaryConverter(v, i) == Bytes("bytes", GetStringUnsafe(v, i))
BooleanConverter(v, i) == Tagged("bool", GetIntUnsafe(v, i), LAMBDA x : x # 0)
FloatConverter(v, i) == Tagged("number", GetDoubleUnsafe(v, i), Same)
DateConverter(v, i) == Tagged("day", GetIntUnsafe(v, i), Same)
TimeConverter(s, v, i) == Tagged("time", GetIntUnsafe(v, i), LAMBDA x : FromTime(x, s.scale))
OneFieldTimeStampConverter(s, v, i, useNumpy) ==
    Tagged("instant", GetIntUnsafe(v, i), LAMBDA x :
        IF useNumpy /\ s.sf = "TIMESTAMP_NTZ" THEN x * powTenSB4(9 - s.scale)
        ELSE FromSpec(TimeSpec(x, s.scale)))
TwoFieldTimeStampConverter(s, v, i, useNumpy) ==
    IF Sub(s, v, "fraction", i) = Unset THEN Stray
    ELSE Tagged("instant", Sub(s, v, "epoch", i), LAMBDA x :
            TwoFields(x, Sub(s, v, "fraction", i), useNumpy /\ s.sf = "TIMESTAMP_NTZ"))
TwoFieldTimeStampTZConverter(s, v, i) ==
    LET epoch == Sub(s, v, "epoch", i)
        zone == Sub(s, v, "timezone", i)
    IN  IF Unset \in {epoch, zone} THEN Stray
        ELSE <<"zoned", FromSpec(TimeSpec(epoch, s.scale)), zone>>
ThreeFieldTimeStampTZConverter(s, v, i) ==
    LET epoch == Sub(s, v, "epoch", i)
        fraction == Sub(s, v, "fraction", i)
        zone == Sub(s, v, "timezone", i)
    IN  IF Unset \in {epoch, fraction, zone} THEN Stray
        ELSE <<"zoned", TwoFields(epoch, fraction, FALSE), zone>>
FixedSizeListConverter(v, i) ==
    LET size == v.children[1].length \div v.length
    IN  IF Len(v.children) # 1 THEN Failed
        ELSE IF v.children[1].type \notin IntTypes \cup FloatTypes \cup {"HALF_FLOAT"} THEN Failed
        ELSE <<"list", [k \in 1..size |->
                Tagged("number", GetIntUnsafe(v.children[1], i * size + k - 1), Same)]>>
DecFloatConverter(s, v, i) ==
    LET significand == GetStringUnsafe(Child(s, v, "significand"), i)
        exponent == Sub(s, v, "exponent", i)
    IN  IF Len(significand) > MaxSignificand THEN Failed
        ELSE IF exponent = Unset \/ Bytes("float", significand) = Stray THEN Stray
        ELSE <<"float", exponent, significand>>
IntervalYearMonthConverter(v, i) == Tagged("months", GetIntUnsafe(v, i), Same)
IntervalDayTimeConverterInt(v, i) == Tagged("span", GetIntUnsafe(v, i), Same)
IntervalDayTimeConverterDecimal(v, i) == Tagged("span", GetDecimalUnsafe(v, i)[1], Same)

\* Every converter, for one row.
RECURSIVE toPyObject(_, _, _, _)
ArrayConverter(s, v, i, useNumpy) ==
    Elements(Slice(v, i), LAMBDA k : toPyObject(s.children[1], v.children[1], k, useNumpy))
MapConverter(s, v, i, useNumpy) ==
    LET Entry(j, k) == toPyObject(s.children[1].children[j], v.children[1].children[j], k, useNumpy)
    IN  Elements(Slice(v, i), LAMBDA k : <<"list", [j \in 1..2 |-> Entry(j, k)]>>)
ObjectConverter(s, v, i, useNumpy) ==
    <<"list", [j \in DOMAIN s.children |-> toPyObject(s.children[j], v.children[j], i, useNumpy)]>>
toPyObject(s, v, i, useNumpy) ==
    LET conv == getConverterFromSchema(s)
        unknown == v.type # "NA" /\ ~v.b[1].null /\ ArrowBitGet(v.b[1], i) = Unset
    IN  IF unknown THEN Stray
        ELSE IF ArrowArrayViewIsNull(v, i) THEN None
        ELSE CASE conv = "Int" -> IntConverter(s, v, i)
               [] conv = "DecimalFromInt" -> DecimalFromIntConverter(s, v, i)
               [] conv = "DecimalFromDecimal" -> DecimalFromDecimalConverter(s, v, i)
               [] conv = "String" -> StringConverter(v, i)
               [] conv = "Binary" -> BinaryConverter(v, i)
               [] conv = "Boolean" -> BooleanConverter(v, i)
               [] conv = "Float" -> FloatConverter(v, i)
               [] conv = "Date" -> DateConverter(v, i)
               [] conv = "Time" -> TimeConverter(s, v, i)
               [] conv = "OneField" -> OneFieldTimeStampConverter(s, v, i, useNumpy)
               [] conv = "TwoField" -> TwoFieldTimeStampConverter(s, v, i, useNumpy)
               [] conv = "TwoFieldTZ" -> TwoFieldTimeStampTZConverter(s, v, i)
               [] conv = "ThreeFieldTZ" -> ThreeFieldTimeStampTZConverter(s, v, i)
               [] conv = "Array" -> ArrayConverter(s, v, i, useNumpy)
               [] conv = "Map" -> MapConverter(s, v, i, useNumpy)
               [] conv = "Object" -> ObjectConverter(s, v, i, useNumpy)
               [] conv = "FixedSizeList" -> FixedSizeListConverter(v, i)
               [] conv = "DecFloat" -> DecFloatConverter(s, v, i)
               [] conv = "IntervalYearMonth" -> IntervalYearMonthConverter(v, i)
               [] conv = "IntervalDayTimeInt" -> IntervalDayTimeConverterInt(v, i)
               [] conv = "IntervalDayTimeDecimal" -> IntervalDayTimeConverterDecimal(v, i)

-----------------------------------------------------------------------------
(* As a column *)

\* The storage of a type.
Storage(type) ==
    CASE type \in {"TIMESTAMP", "DURATION", "TIME64"} -> "INT64"
      [] type = "TIME32" -> "INT32"
      [] OTHER -> type

\* A column of another type with the same nulls: built row by row, it takes the place of the old
\* schema and array only when all of it worked.
Rebuilt(s, a, v, type, unit, Put(_, _)) ==
    LET new == ArrowArrayInitFromType(Storage(type), 0, <<>>, TRUE)
        Row(x, i) == IF ArrowArrayViewIsNull(v, i) THEN ArrowArrayAppendNull(x, 1, mem) ELSE Put(x, i)
        Upto[i \in 0..v.length] ==
            IF i = 0 THEN ArrowArrayStartAppending(new, mem)
            ELSE Then(Upto[i - 1], LAMBDA x : Row(x, i - 1))
        Replaced(done) ==
            IF done.rc # OK THEN [s |-> s, a |-> a, raised |-> "python"]
            ELSE [s |-> [s EXCEPT !.type = type, !.unit = unit, !.names = <<>>, !.children = <<>>],
                  a |-> done.a, raised |-> "no"]
    IN  Replaced(Then(Upto[v.length], LAMBDA x : ArrowArrayFinishBuilding(x, "default", mem)))

\* A number as its decimal digits, the highest first.
Digits(n) ==
    LET width == CHOOSE w \in 1..24 : powTenSB4(w) > n /\ (w = 1 \/ powTenSB4(w - 1) <= n)
    IN  [k \in 1..width |-> (n \div powTenSB4(width - k)) % Base]

\* From nine digits on the value goes through a string: zeros in front until a digit stands before
\* the point, the point, and the sign.
convertScaledFixedNumberToDouble(scale, x) ==
    LET digits == Digits(Abs(x))
        zeros == IF Len(digits) <= scale THEN scale - Len(digits) + 1 ELSE 0
        str == [k \in 1..zeros |-> 0] \o digits
        point == Len(str) - scale
        Parsed[k \in 0..Len(str)] ==
            IF k = 0 THEN 0 ELSE Parsed[k - 1] + str[k] * powTenSB4(MaxScale + point - k)
    IN  IF scale < 9 THEN Number(x, scale)
        ELSE IF x < 0 THEN -Parsed[Len(str)] ELSE Parsed[Len(str)]

\* The two words of a 128-bit decimal.
DecimalOf(x) == <<x, IF x < 0 THEN -1 ELSE 0>>

convertScaledFixedNumberColumn(s, a, v) ==
    IF decimal
    THEN Rebuilt(s, a, v, "DECIMAL128", s.scale, LAMBDA x, i :
            ArrowArrayAppendDecimal(x, DecimalOf(GetIntUnsafe(v, i)), mem))
    ELSE Rebuilt(s, a, v, "DOUBLE", 0, LAMBDA x, i :
            ArrowArrayAppendDouble(x, convertScaledFixedNumberToDouble(s.scale, GetIntUnsafe(v, i)), mem))

\* Only the low word of the decimal is kept.
convertIntervalDayTimeColumn(s, a, v) ==
    Rebuilt(s, a, v, "DURATION", 9, LAMBDA x, i :
        ArrowArrayAppendInt(x, GetDecimalUnsafe(v, i)[1], mem))

\* The unit for a scale: whole seconds, three or six digits.
UnitOf(scale) == IF scale = 0 THEN 0 ELSE IF scale <= 3 THEN 3 ELSE 6

convertTimeColumn(s, a, v) ==
    LET unit == UnitOf(s.scale)
        Scaled(t) == IF s.scale <= 6 THEN Int64(t * powTenSB4(unit - s.scale))
                     ELSE Quot(t, powTenSB4(s.scale - 6))
    IN  Rebuilt(s, a, v, IF unit = 6 THEN "TIME64" ELSE "TIME32", unit, LAMBDA x, i :
            ArrowArrayAppendInt(x, Scaled(GetIntUnsafe(v, i)), mem))

\* The rows whose seconds do not fit 64 bits as nanoseconds, and the verdict at the first of them:
\* microseconds hold it, or digits would be lost.
EpochTooFarAbove(epoch) == epoch > Quot(Int64Max, powTenSB4(9))
EpochTooFar(epoch) ==
    epoch > Quot(Int64Max, powTenSB4(9)) \/ epoch < Quot(-Int64Max - 1, powTenSB4(9))
checkNanosecondTimestampOverflowAndDownscale(v, epochs, fractions) ==
    LET far == {i \in 0..(v.length - 1) :
                    ~ArrowArrayViewIsNull(v, i) /\ EpochTooFar(GetIntUnsafe(epochs, i))}
        first == CHOOSE i \in far : \A j \in far : i <= j
    IN  CASE far = {} -> "fits"
          [] far # {} /\ Rem(GetIntUnsafe(fractions, first), powTenSB4(3)) = 0 -> "downscale"
          [] OTHER -> "overflow"

\* Seconds and nanoseconds as one number of 64 bits.
Together(epoch, fraction, micro) ==
    IF micro THEN Int64(epoch * powTenSB4(6) + Quot(fraction, powTenSB4(3)))
    ELSE Int64(epoch * powTenSB4(9) + fraction)

\* A number of more than six digits in one word becomes nanoseconds, also where the unit is
\* microseconds.
Nanoseconds(value, scale) == Int64(value * powTenSB4(9 - scale))

Thrown(s, a) == [s |-> s, a |-> a, raised |-> "thrown"]

convertTimestampColumn(s, a, v) ==
    LET struct == s.type = "STRUCT"
        epochs == Child(s, v, "epoch")
        fractions == Child(s, v, "fraction")
        verdict == IF ~force /\ s.scale > 6 /\ struct
                   THEN checkNanosecondTimestampOverflowAndDownscale(v, epochs, fractions) ELSE "fits"
        micro == force \/ verdict = "downscale"
        unit == IF s.scale <= 6 THEN UnitOf(s.scale) ELSE IF micro THEN 6 ELSE 9
        Of(i) == CASE s.scale <= 6 -> Int64(GetIntUnsafe(v, i) * powTenSB4(unit - s.scale))
                   [] s.scale > 6 /\ struct -> Together(GetIntUnsafe(epochs, i), GetIntUnsafe(fractions, i), micro)
                   [] OTHER -> Nanoseconds(GetIntUnsafe(v, i), s.scale)
    IN  IF verdict = "overflow" THEN Thrown(s, a)
        ELSE Rebuilt(s, a, v, "TIMESTAMP", unit, LAMBDA x, i : ArrowArrayAppendInt(x, Of(i), mem))

convertTimestampTZColumn(s, a, v) ==
    LET epochs == Child(s, v, "epoch")
        fractions == Child(s, v, "fraction")
        verdict == IF ~force /\ s.scale > 6 /\ s.byteLength = 16
                   THEN checkNanosecondTimestampOverflowAndDownscale(v, epochs, fractions) ELSE "fits"
        micro == force \/ verdict = "downscale"
        unit == IF s.scale <= 6 THEN UnitOf(s.scale) ELSE IF micro THEN 6 ELSE 9
        One(epoch) == CASE s.scale <= 6 -> Int64(epoch * powTenSB4(unit - s.scale))
                        [] s.scale > 6 /\ micro -> Int64(epoch * powTenSB4(6))
                        [] OTHER -> Int64(epoch * powTenSB4(9 - s.scale))
        Two(epoch, fraction) ==
            CASE s.scale = 0 -> epoch
              [] s.scale \in 1..3 -> Int64(epoch * powTenSB4(3 - s.scale) + Quot(fraction, powTenSB4(6)))
              [] OTHER -> Together(epoch, fraction, s.scale <= 6 \/ micro)
        Put(x, i) ==
            CASE s.byteLength = 8 -> ArrowArrayAppendInt(x, One(GetIntUnsafe(epochs, i)), mem)
              [] s.byteLength = 16 ->
                    ArrowArrayAppendInt(x, Two(GetIntUnsafe(epochs, i), GetIntUnsafe(fractions, i)), mem)
              [] OTHER -> Result(EINVAL, x)
    IN  IF verdict = "overflow" THEN Thrown(s, a) ELSE Rebuilt(s, a, v, "TIMESTAMP", unit, Put)

Kept(s, a) == [s |-> s, a |-> a, raised |-> "no"]
Refused(s, a) == [s |-> s, a |-> a, raised |-> "python"]

\* The columns that are rebuilt whole, and the error for a type that is not known.
convertPlain(s, a, v) ==
    CASE s.sf = "FIXED" -> IF s.scale > 0 /\ s.type # "DECIMAL128"
                           THEN convertScaledFixedNumberColumn(s, a, v) ELSE Kept(s, a)
      [] s.sf = "INTERVAL_DAY_TIME" -> convertIntervalDayTimeColumn(s, a, v)
      [] s.sf = "TIME" -> convertTimeColumn(s, a, v)
      [] s.sf \in {"TIMESTAMP_NTZ", "TIMESTAMP_LTZ"} -> convertTimestampColumn(s, a, v)
      [] s.sf = "TIMESTAMP_TZ" -> convertTimestampTZColumn(s, a, v)
      [] OTHER -> Refused(s, a)

\* A column, and the columns below one of a structured type. A Python error in one child does not
\* keep the next one from being converted, a C++ exception does.
RECURSIVE convertIfNeeded(_, _, _)
convertIfNeeded(s, a, v) ==
    LET All(t, b, w) ==
            LET Upto[i \in 0..Len(t.children)] ==
                    IF i = 0 THEN Kept(t, b)
                    ELSE LET r == Upto[i - 1]
                             c == convertIfNeeded(t.children[i], b.children[i], w.children[i])
                         IN  IF r.raised = "thrown" THEN r
                             ELSE [s |-> [r.s EXCEPT !.children[i] = c.s],
                                   a |-> [r.a EXCEPT !.children[i] = c.a],
                                   raised |-> IF c.raised = "no" THEN r.raised ELSE c.raised]
            IN  Upto[Len(t.children)]
        Entries == LET r == All(s.children[1], a.children[1], v.children[1])
                   IN  [s |-> [s EXCEPT !.children[1] = r.s], a |-> [a EXCEPT !.children[1] = r.a],
                        raised |-> r.raised]
    IN  CASE s.sf \in {"ANY", "BINARY", "BOOLEAN", "CHAR", "DATE", "REAL", "TEXT", "INTERVAL_YEAR_MONTH",
                       "VARIANT", "VECTOR"} -> Kept(s, a)
          [] s.sf \in {"ARRAY", "OBJECT"} /\ s.type = "STRING" -> Kept(s, a)
          [] s.sf = "ARRAY" /\ s.type = "LIST" /\ Len(s.children) = 1 -> All(s, a, v)
          [] s.sf = "MAP" /\ Len(s.children) = 1 /\ Len(s.children[1].children) = 2 -> Entries
          [] s.sf = "OBJECT" /\ s.type = "STRUCT" -> All(s, a, v)
          [] OTHER -> convertPlain(s, a, v)
-----------------------------------------------------------------------------
(* The life of a column *)

AllMem == {0, 1, 2}

Init ==
    /\ given \in Columns
    /\ column = [s |-> given.s, a |-> given.a]
    /\ numpy \in BOOLEAN /\ decimal \in BOOLEAN /\ force \in BOOLEAN
    /\ mem \in {AllMem, {}}
    /\ view = <<>>
    /\ pc = "decoded"
    /\ rows = <<>>
    /\ raised = "no"

options == <<given, numpy, decimal, force, mem>>

\* The decoder validates in full what the message says.
Decode ==
    /\ pc = "decoded"
    /\ pc' = IF ArrowArrayViewValidate(ArrowArrayViewInitFromArray(column.a), "full").rc = OK
             THEN "valid" ELSE "refused"
    /\ UNCHANGED <<options, column, view, rows, raised>>

\* The iterator makes its own view of the array, from its pointers.
SetArray ==
    LET r == ArrowArrayViewSetArray(column.a)
    IN  /\ pc = "valid"
        /\ pc' = IF r.rc = OK THEN "viewed" ELSE "refused"
        /\ view' = r.v
        /\ UNCHANGED <<options, column, rows, raised>>

initColumnConverters ==
    /\ pc = "viewed"
    /\ ~decimal /\ ~force /\ mem = AllMem
    /\ pc' = IF ConverterFails(column.s) THEN "error" ELSE "rows"
    /\ raised' = IF ConverterFails(column.s) THEN "python" ELSE "no"
    /\ UNCHANGED <<options, column, view, rows>>

\* An object that is, or holds, a failure.
RECURSIVE Holds(_, _)
Holds(x, bad) ==
    \/ x = bad
    \/ x[1] = "list" /\ \E k \in DOMAIN x[2] : Holds(x[2][k], bad)

RowIs(x) ==
    /\ rows' = Append(rows, x)
    /\ pc' = IF Holds(x, Failed) THEN "error" ELSE "rows"
    /\ raised' = IF Holds(x, Failed) THEN "python" ELSE raised
    /\ UNCHANGED <<options, column, view>>
createRowPyObject ==
    /\ pc = "rows" /\ Len(rows) < view.length
    /\ RowIs(toPyObject(column.s, view, Len(rows), numpy))

ReconstructedWith(r) ==
    /\ column' = [s |-> r.s, a |-> r.a]
    /\ raised' = r.raised
    /\ pc' = "table"
    /\ UNCHANGED <<options, view, rows>>
reconstructRecordBatches ==
    /\ pc = "viewed"
    /\ ~numpy
    /\ ReconstructedWith(convertIfNeeded(column.s, column.a, view))

Next == Decode \/ SetArray \/ initColumnConverters \/ createRowPyObject \/ reconstructRecordBatches

Spec == Init /\ [][Next]_vars

-----------------------------------------------------------------------------
(* Properties *)

TypeOK ==
    /\ pc \in {"decoded", "valid", "refused", "viewed", "rows", "table", "error"}
    /\ raised \in {"no", "python", "thrown"}
    /\ Len(rows) <= given.a.length
    /\ \A i \in DOMAIN rows : rows[i][1] \in
          {"none", "stray", "failed", "number", "text", "bytes", "bool", "day", "time", "instant", "zoned",
           "list", "float", "months", "span"}

\* Whatever offsets, lengths and bitmaps a message holds, a column that passed the validation of
\* the decoder and of the view is read inside its buffers by every converter: elements of lists and
\* maps, bytes of strings, children of structs.
NoStrayRead == \A i \in DOMAIN rows : ~Holds(rows[i], Stray)

Floor(n, unit) == n - (n % powTenSB4(9 - unit))

\* A value as a Python object has it: instants and times end at the microsecond, below zero too,
\* and only numpy keeps nanoseconds.
RECURSIVE Shown(_)
Shown(x) ==
    CASE x[1] = "list" -> <<"list", [k \in DOMAIN x[2] |-> Shown(x[2][k])]>>
      [] x[1] = "instant" ->
            <<"instant", IF numpy /\ given.s.sf = "TIMESTAMP_NTZ" THEN x[2] ELSE Floor(x[2], 6)>>
      [] x[1] = "time" -> <<"time", Floor(x[2], 6)>>
      [] x[1] = "zoned" -> <<"zoned", Floor(x[2], 6), x[3]>>
      [] OTHER -> x

\* The rows of a well formed column, in order, are the values it stands for, whichever of the
\* storage forms of its type it came in.
RowsRight ==
    given.formed => \A i \in DOMAIN rows : rows[i] = Shown(given.rows[i])

RECURSIVE Matches(_, _)
Matches(s, a) ==
    /\ Storage(s.type) = a.type
    /\ Len(s.children) = Len(a.children)
    /\ \A i \in DOMAIN s.children : Matches(s.children[i], a.children[i])

\* Whatever fails while a table is rebuilt, allocation, an unknown type or an overflow, schema and
\* array of every column still describe each other: consumers of the table read memory by them.
SchemaMatchesArray == pc # "decoded" => Matches(column.s, column.a)

\* The value a reader of the rebuilt column finds.
RECURSIVE TableValue(_, _, _)
TableValue(s, v, i) ==
    LET int == GetIntUnsafe(v, i)
        from == Cell(v.b[2], i)
        Span(t, w) == [k \in 1..(Cell(v.b[2], i + 1) - from) |-> TableValue(t, w, from + k - 1)]
    IN  IF ArrowArrayViewIsNull(v, i) THEN None
        ELSE CASE s.type = "TIMESTAMP" -> <<"instant", int * powTenSB4(9 - s.unit)>>
               [] s.type \in {"TIME32", "TIME64"} -> <<"time", int * powTenSB4(9 - s.unit)>>
               [] s.type = "DURATION" -> <<"span", int>>
               [] s.type = "DOUBLE" -> <<"number", int>>
               [] s.type = "DECIMAL128" /\ s.sf = "FIXED" ->
                    <<"number", Number(GetDecimalUnsafe(v, i)[1], s.scale)>>
               [] s.type = "LIST" -> <<"list", Span(s.children[1], v.children[1])>>
               [] s.type = "MAP" -> <<"list", Span([s.children[1] EXCEPT !.sf = "OBJECT"], v.children[1])>>
               [] s.type = "STRUCT" ->
                    <<"list", [j \in DOMAIN s.children |-> TableValue(s.children[j], v.children[j], i)]>>
               [] OTHER -> toPyObject(s, v, i, FALSE)

\* Instants of more than six digits that became microseconds: when that is forced, or when one of
\* them does not fit as nanoseconds. The digits after the sixth are lost then, in every row.
Downscaled == column.s.type = "TIMESTAMP" /\ given.s.scale > 6 /\ column.s.unit = 6
OutOfRange(x) == x[1] \in {"instant", "zoned"} /\ EpochTooFar(x[2] \div powTenSB4(9))
DownscaledForCause == Downscaled => force \/ \E i \in DOMAIN given.rows : OutOfRange(given.rows[i])

\* What it should find: instants in UTC, exact unless they became microseconds, and times of day,
\* exact up to six digits.
InTable(x) ==
    CASE x[1] \in {"instant", "zoned"} -> <<"instant", IF Downscaled THEN Floor(x[2], 6) ELSE x[2]>>
      [] x[1] = "time" -> <<"time", Floor(x[2], 6)>>
      [] OTHER -> x
RowInTable(i) == TableValue(column.s, ArrowArrayViewSetArray(column.a).v, i - 1) = InTable(given.rows[i])
RightInTable == \A i \in 1..given.a.length : RowInTable(i)

\* The columns the code converts wrongly: instants stored in one number of more than six digits
\* when microseconds are forced (CArrowTableIterator.cpp:896, :1048); instants with a zone in three
\* fields of one to three digits (:1064); spans stored in 64 bits (:576).
ForcedInOneField(s) == force /\ s.scale > 6 /\ (s.type = "INT64" \/ s.byteLength = 8)
ZonedOfMilliseconds(s) == s.sf = "TIMESTAMP_TZ" /\ s.byteLength = 16 /\ s.scale \in 1..3
SpanOf64Bits(s) == s.sf = "INTERVAL_DAY_TIME" /\ s.type = "INT64"
Misread(s) == ForcedInOneField(s) \/ ZonedOfMilliseconds(s) \/ SpanOf64Bits(s)
\* The instants that wrap around: the last second of the range, with a fraction past its end (:713).
PastTheEnd(x) == x[1] \in {"instant", "zoned"} /\ x[2] > Int64Max

Table == pc = "table" /\ raised = "no" /\ given.formed

\* A rebuilt table has the rows of the column, with its nulls, in the unit its schema says, also
\* below lists, maps and objects, and instants lose digits only when microseconds are forced or some
\* instant does not fit as nanoseconds. Left out are the three kinds of columns of Misread, which the
\* code converts to other values, and single rows past the end of a column of nanoseconds.
TableRight ==
    Table => /\ DownscaledForCause
             /\ Misread(given.s) \/ \A i \in DOMAIN given.rows :
                    RowInTable(i) \/ (column.s.unit = 9 /\ PastTheEnd(given.rows[i]))

\* What the code does not keep, each refuted by a column of the run. Forcing microseconds: "all
\* timestamp columns are converted to microsecond precision".
ForcedMicroseconds == Table /\ ForcedInOneField(given.s) => RightInTable
\* An instant with a zone in three fields of one to three digits is that instant.
ZonedMilliseconds == Table /\ ZonedOfMilliseconds(given.s) => RightInTable
\* A span stored in 64 bits is that span.
SpansOf64Bits == Table /\ SpanOf64Bits(given.s) => RightInTable
\* No instant changes because it does not fit: it is refused, or the column has microseconds.
NoSilentOverflow ==
    Table /\ column.s.type = "TIMESTAMP" /\ column.s.unit = 9
      => \A i \in DOMAIN given.rows : ~PastTheEnd(given.rows[i])
\* "@throws std::overflow_error if overflow is detected but downscaling would lose precision".
DownscaleExact ==
    Table /\ Downscaled /\ ~force
      => \A i \in DOMAIN given.rows : given.rows[i] # None => given.rows[i][2] = Floor(given.rows[i][2], 6)

\* Converting reads only memory the column has.
ReadsInside == TypeOK /\ NoStrayRead

\* A rebuilt table is described by its schema, after a failure too, and has the column's values, but
\* for the columns and rows that TableRight names.
TableSound == SchemaMatchesArray /\ TableRight
=============================================================================
