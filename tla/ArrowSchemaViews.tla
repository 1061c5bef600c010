-------------------------- MODULE ArrowSchemaViews --------------------------
(* What nanoarrow.c reads from a schema: the format parsed and validated into a    *)
(* schema view, the tree of array views with room for the buffers of an array, and *)
(* the empty array built from it. A read through a NULL or uninitialised pointer    *)
(* gives the code UNDEFINED.                                                       *)
EXTENDS ArrowSchemas

UNDEFINED == "undefined"

-----------------------------------------------------------------------------
(* Parsing a format *)

Letter(f, i) == IF i <= Len(f.letters) THEN f.letters[i] ELSE ""
Nothing(f) == ~f.colon /\ f.numbers = <<>> /\ f.text = ""

\* A parsed format: the code, the type and how it is stored, whether all of it was read, and the
\* parameters of the types that have some.
Parsed(type, storage, whole) ==
    [rc |-> OK, type |-> type, storage |-> storage, whole |-> whole, fixed |-> 0, precision |-> 0,
     scale |-> 0, unit |-> "SECOND", zone |-> "", ids |-> <<>>]
Refused == [Parsed("UNINITIALIZED", "UNINITIALIZED", FALSE) EXCEPT !.rc = EINVAL]
SetPrimitive(type, f, n) == Parsed(type, type, Len(f.letters) = n /\ Nothing(f))

PrimitiveLetters ==
    [n |-> "NA", b |-> "BOOL", c |-> "INT8", C |-> "UINT8", s |-> "INT16", S |-> "UINT16",
     i |-> "INT32", I |-> "UINT32", l |-> "INT64", L |-> "UINT64", e |-> "HALF_FLOAT",
     f |-> "FLOAT", g |-> "DOUBLE"]
BytesLetters == [z |-> "BINARY", u |-> "STRING", Z |-> "LARGE_BINARY", U |-> "LARGE_STRING"]

\* d:precision,scale and perhaps the width.
ParseDecimal(f) ==
    LET width == IF Len(f.numbers) = 2 THEN 128 ELSE f.numbers[3]
        type == IF width = 128 THEN "DECIMAL128" ELSE "DECIMAL256"
    IN  IF Len(f.letters) # 1 \/ ~f.colon \/ Len(f.numbers) < 2 \/ width \notin {128, 256} THEN Refused
        ELSE [Parsed(type, type, Len(f.numbers) <= 3 /\ f.text = "")
                 EXCEPT !.precision = f.numbers[1], !.scale = f.numbers[2]]

\* The width of a fixed-size type follows a colon; what is not a number reads as 0.
ParseFixedSize(f, n, type) ==
    IF Len(f.letters) # n \/ ~f.colon \/ (f.numbers = <<>> /\ f.text = "") THEN Refused
    ELSE [Parsed(type, type, Len(f.numbers) = 1 /\ f.text = "")
             EXCEPT !.fixed = IF f.numbers = <<>> THEN 0 ELSE f.numbers[1]]

\* How many type ids a list has, -1 when one is not a number from 0 to 127.
ParseUnionTypeIds(f) ==
    IF f.text # "" \/ (\E i \in DOMAIN f.numbers : f.numbers[i] \notin 0..127) THEN -1
    ELSE Len(f.numbers)

ParseUnion(f, nChildren) ==
    LET type == IF Letter(f, 3) = "d" THEN "DENSE_UNION" ELSE "SPARSE_UNION"
    IN  IF Letter(f, 3) \notin {"d", "s"} \/ Len(f.letters) # 3 \/ ~f.colon
             \/ ParseUnionTypeIds(f) # nChildren
        THEN Refused ELSE [Parsed(type, type, TRUE) EXCEPT !.ids = f.numbers]

NestedLetters == [l |-> "LIST", L |-> "LARGE_LIST", s |-> "STRUCT", m |-> "MAP"]
ParseNested(f, nChildren) ==
    CASE Letter(f, 2) \in DOMAIN NestedLetters -> SetPrimitive(NestedLetters[Letter(f, 2)], f, 2)
      [] Letter(f, 2) = "w" -> ParseFixedSize(f, 2, "FIXED_SIZE_LIST")
      [] Letter(f, 2) = "u" -> ParseUnion(f, nChildren)
      [] OTHER -> Refused

ParseDate(f) ==
    CASE Letter(f, 3) = "D" -> [SetPrimitive("INT32", f, 3) EXCEPT !.type = "DATE32"]
      [] Letter(f, 3) = "m" -> [SetPrimitive("INT64", f, 3) EXCEPT !.type = "DATE64"]
      [] OTHER -> Refused

UnitOfLetter == [s |-> "SECOND", m |-> "MILLI", u |-> "MICRO", n |-> "NANO"]
ParseTime(f) ==
    LET short == Letter(f, 3) \in {"s", "m"}
    IN  IF Letter(f, 3) \notin DOMAIN UnitOfLetter THEN Refused
        ELSE [SetPrimitive(IF short THEN "INT32" ELSE "INT64", f, 3)
                 EXCEPT !.type = IF short THEN "TIME32" ELSE "TIME64", !.unit = UnitOfLetter[Letter(f, 3)]]
ParseDuration(f) ==
    IF Letter(f, 3) \notin DOMAIN UnitOfLetter THEN Refused
    ELSE [SetPrimitive("INT64", f, 3) EXCEPT !.type = "DURATION", !.unit = UnitOfLetter[Letter(f, 3)]]

\* Everything after the colon is the time zone.
ParseTimestamp(f) ==
    IF Letter(f, 3) \notin DOMAIN UnitOfLetter \/ Len(f.letters) # 3 \/ ~f.colon THEN Refused
    ELSE [Parsed("TIMESTAMP", "INT64", TRUE) EXCEPT !.unit = UnitOfLetter[Letter(f, 3)], !.zone = f.text]

IntervalLetters == [M |-> "INTERVAL_MONTHS", D |-> "INTERVAL_DAY_TIME", n |-> "INTERVAL_MONTH_DAY_NANO"]
ParseInterval(f) ==
    IF Letter(f, 3) \notin DOMAIN IntervalLetters THEN Refused
    ELSE SetPrimitive(IntervalLetters[Letter(f, 3)], f, 3)

ArrowSchemaViewParse(f, nChildren) ==
    CASE Letter(f, 1) \in DOMAIN PrimitiveLetters -> SetPrimitive(PrimitiveLetters[Letter(f, 1)], f, 1)
      [] Letter(f, 1) \in DOMAIN BytesLetters -> SetPrimitive(BytesLetters[Letter(f, 1)], f, 1)
      [] Letter(f, 1) = "d" -> ParseDecimal(f)
      [] Letter(f, 1) = "w" -> ParseFixedSize(f, 1, "FIXED_SIZE_BINARY")
      [] Letter(f, 1) = "+" -> ParseNested(f, nChildren)
      [] Letter(f, 1) = "t" /\ Letter(f, 2) = "d" -> ParseDate(f)
      [] Letter(f, 1) = "t" /\ Letter(f, 2) = "t" -> ParseTime(f)
      [] Letter(f, 1) = "t" /\ Letter(f, 2) = "s" -> ParseTimestamp(f)
      [] Letter(f, 1) = "t" /\ Letter(f, 2) = "D" -> ParseDuration(f)
      [] Letter(f, 1) = "t" /\ Letter(f, 2) = "i" -> ParseInterval(f)
      [] OTHER -> Refused

-----------------------------------------------------------------------------
(* Validating it *)

Code(valid) == IF valid THEN OK ELSE EINVAL

\* Any number of children when n is -1; all of them present and not released.
ValidateNChildren(s, n) ==
    Code((n = -1 \/ Len(s.children) = n)
           /\ \A i \in DOMAIN s.children : s.children[i] # Null /\ s.children[i][1].live)

\* The struct below a map is inspected without asking whether its format or its own first child
\* is there.
ValidateMap(s) ==
    LET entries == s.children[1][1]
        key == entries.children[1]
    IN  IF ValidateNChildren(s, 1) # OK \/ Len(entries.children) # 2 THEN EINVAL
        ELSE IF entries.format = Null THEN UNDEFINED
        ELSE IF entries.format # <<Plain(<<"+", "s">>)>> \/ entries.nullable THEN EINVAL
        ELSE IF key = Null \/ ~key[1].live THEN UNDEFINED
        ELSE Code(~key[1].nullable)

RECURSIVE ArrowSchemaViewInit(_)
ValidateDictionary(s, storage) ==
    IF storage \notin IntTypes \cup UIntTypes THEN EINVAL
    ELSE ArrowSchemaViewInit(s.dictionary[1]).rc

ArrowSchemaViewValidate(s, type, parsed) ==
    CASE type \in {"LIST", "LARGE_LIST", "FIXED_SIZE_LIST"} -> ValidateNChildren(s, 1)
      [] type \in UnionTypes \cup {"STRUCT"} -> ValidateNChildren(s, -1)
      [] type = "MAP" -> ValidateMap(s)
      [] type = "DICTIONARY" -> ValidateDictionary(s, parsed.storage)
      [] type = "FIXED_SIZE_BINARY" /\ parsed.fixed <= 0 -> EINVAL
      [] OTHER -> ValidateNChildren(s, 0)

\* The storage type is validated first, then the type when it is another one.
ValidatedView(s, view) ==
    LET types == {view.storage, view.type}
        codes == [t \in types |-> ArrowSchemaViewValidate(s, t, view)]
    IN  IF view.rc # OK \/ ~view.whole THEN Refused
        ELSE [view EXCEPT !.rc = IF codes[view.storage] # OK THEN codes[view.storage] ELSE codes[view.type]]
Dictionaried(s, read) == IF s.dictionary = Null THEN read ELSE [read EXCEPT !.type = "DICTIONARY"]
ArrowSchemaViewInit(s) ==
    IF ~s.live \/ s.format = Null THEN Refused
    ELSE ValidatedView(s, Dictionaried(s, ArrowSchemaViewParse(s.format[1], Len(s.children))))

\* The name of the extension type, when the metadata has one.
ExtensionName(s) == ArrowMetadataGetValue(s.metadata, "ARROW:extension:name")

-----------------------------------------------------------------------------
(* Array views. "kids" says whether the array of children is allocated: it is even when there *)
(* are none.                                                                                 *)

ArrowArrayViewInitFromType(type) ==
    [storage |-> type, fixed |-> 0, kids |-> FALSE, children |-> <<>>, dictionary |-> Null, map |-> Null]

RECURSIVE ArrowArrayViewReset(_, _)
ArrowArrayViewReset(v, m) ==
    LET Struct(p, mm) == IF p = Null THEN mm ELSE Freed(ArrowArrayViewReset(p[1], mm), "view", 1)
        below == Fold(Len(v.children), m, LAMBDA i, mm : Struct(v.children[i], mm))
    IN  Freed(Struct(v.dictionary, Freed(below, "view", BoolInt(v.kids))), "view", Len(v.map))

ArrowArrayViewAllocateChildren(v, n, m) ==
    LET array == Malloc(m, "view")
        got == IF array.fuel < n THEN array.fuel ELSE n
        blank == <<ArrowArrayViewInitFromType("UNINITIALIZED")>>
    IN  IF v.kids THEN Done(EINVAL, v, m)
        ELSE IF m.fuel = 0 THEN Done(ENOMEM, v, array)
        ELSE Done(IF got = n THEN OK ELSE ENOMEM,
                  [v EXCEPT !.kids = TRUE, !.children = [i \in 1..n |-> IF i <= got THEN blank ELSE Null]],
                  [array EXCEPT !.fuel = @ - got, !.view = @ + got, !.failed = @ \/ got < n])

ArrowArrayViewAllocateDictionary(v, m) ==
    IF m.fuel = 0 THEN Done(ENOMEM, v, Malloc(m, "view"))
    ELSE Done(OK, [v EXCEPT !.dictionary = <<ArrowArrayViewInitFromType("UNINITIALIZED")>>],
              Malloc(m, "view"))

\* From type ids to the children they stand for; a type id named twice stands for the last one.
UnionTypeIdMapIdentity(ids) == [id \in {ids[i] : i \in DOMAIN ids} |-> id]
UnionTypeIdMap(ids) ==
    [id \in {ids[i] : i \in DOMAIN ids} |->
        (CHOOSE i \in DOMAIN ids : ids[i] = id /\ \A j \in DOMAIN ids : ids[j] = id => j <= i) - 1]

\* Everything is reset when a child or the dictionary fails, but not when the map does.
RECURSIVE ArrowArrayViewInitFromSchema(_, _)
InitBelow(s, v, m) ==
    LET OfChild(i, r) == AndThen(r, LAMBDA x, mm : OnChild(x, i, mm,
                            LAMBDA c, mc : ArrowArrayViewInitFromSchema(s.children[i][1], mc)))
        children == Fold(Len(s.children), ArrowArrayViewAllocateChildren(v, Len(s.children), m), OfChild)
        Dictionary(x, mm) ==
            IF s.dictionary = Null THEN Done(OK, x, mm)
            ELSE AndThen(ArrowArrayViewAllocateDictionary(x, mm), LAMBDA y, my : OnDictionary(y, my,
                            LAMBDA c, mc : ArrowArrayViewInitFromSchema(s.dictionary[1], mc)))
    IN  AndThen(children, Dictionary)
ResetOnFailure(r) ==
    IF r.rc = OK THEN r
    ELSE Done(r.rc, ArrowArrayViewInitFromType("UNINITIALIZED"), ArrowArrayViewReset(r.x, r.m))
InitFromView(s, view, m) ==
    LET blank == [ArrowArrayViewInitFromType(view.storage) EXCEPT !.fixed = view.fixed]
        Mapped(x, mm) ==
            IF x.storage \notin UnionTypes THEN Done(OK, x, mm)
            ELSE IF mm.fuel = 0 THEN Done(ENOMEM, x, Malloc(mm, "view"))
            ELSE Done(OK, [x EXCEPT !.map = <<UnionTypeIdMap(view.ids)>>], Malloc(mm, "view"))
    IN  IF view.rc # OK THEN Done(view.rc, ArrowArrayViewInitFromType("UNINITIALIZED"), m)
        ELSE AndThen(ResetOnFailure(InitBelow(s, blank, m)), Mapped)
ArrowArrayViewInitFromSchema(s, m) == InitFromView(s, ArrowSchemaViewInit(s), m)

-----------------------------------------------------------------------------
(* Arrays. "n" is the count of children, which is set once all of them are allocated. *)

ArrayReleased ==
    [live |-> FALSE, storage |-> "UNINITIALIZED", fixed |-> 0, ids |-> TRUE, n |-> 0, kids |-> FALSE,
     children |-> <<>>, dictionary |-> Null]
ArrayFromType(type, m) ==
    IF m.fuel = 0 THEN Done(ENOMEM, ArrayReleased, Malloc(m, "array"))
    ELSE Done(OK, [ArrayReleased EXCEPT !.live = TRUE, !.storage = type], Malloc(m, "array"))

RECURSIVE ArrayRelease(_, _)
ArrayRelease(a, m) ==
    LET Struct(p, mm) == IF p = Null THEN mm
                         ELSE Freed(IF p[1].live THEN ArrayRelease(p[1], mm) ELSE mm, "array", 1)
        below == Fold(a.n, Freed(m, "array", 1), LAMBDA i, mm : Struct(a.children[i], mm))
    IN  Struct(a.dictionary, Freed(below, "array", BoolInt(a.kids)))

ArrowArrayAllocateChildren(a, n, m) ==
    LET array == Malloc(m, "array")
        got == IF array.fuel < n THEN array.fuel ELSE n
    IN  IF a.kids THEN Done(EINVAL, a, m)
        ELSE IF n = 0 THEN Done(OK, a, m)
        ELSE IF m.fuel = 0 THEN Done(ENOMEM, a, array)
        ELSE Done(IF got = n THEN OK ELSE ENOMEM,
                  [a EXCEPT !.kids = TRUE, !.n = IF got = n THEN n ELSE 0,
                            !.children = [i \in 1..n |-> IF i <= got THEN <<ArrayReleased>> ELSE Null]],
                  [array EXCEPT !.fuel = @ - got, !.array = @ + got, !.failed = @ \/ got < n])

ArrowArrayAllocateDictionary(a, m) ==
    IF m.fuel = 0 THEN Done(ENOMEM, a, Malloc(m, "array"))
    ELSE Done(OK, [a EXCEPT !.dictionary = <<ArrayReleased>>], Malloc(m, "array"))

ReleasedOnFailure(r) ==
    IF r.rc = OK \/ ~r.x.live THEN r ELSE Done(r.rc, ArrayReleased, ArrayRelease(r.x, r.m))

RECURSIVE ArrowArrayInitFromArrayView(_, _)
ArrowArrayInitFromArrayView(v, m) ==
    LET typed == AndThen(ArrayFromType(v.storage, m),
                         LAMBDA x, mm : Done(OK, [x EXCEPT !.fixed = v.fixed], mm))
        OfChild(i, r) == AndThen(r, LAMBDA x, mm : OnChild(x, i, mm,
                            LAMBDA c, mc : ArrowArrayInitFromArrayView(v.children[i][1], mc)))
        children == Fold(Len(v.children),
                         AndThen(typed, LAMBDA x, mm : ArrowArrayAllocateChildren(x, Len(v.children), mm)),
                         OfChild)
        Dictionary(x, mm) ==
            IF v.dictionary = Null THEN Done(OK, x, mm)
            ELSE AndThen(ArrowArrayAllocateDictionary(x, mm), LAMBDA y, my : OnDictionary(y, my,
                            LAMBDA c, mc : ArrowArrayInitFromArrayView(v.dictionary[1], mc)))
    IN  ReleasedOnFailure(AndThen(children, Dictionary))

TypeIdsWillEqualChildIndices(ids, n) == Len(ids) = n /\ \A i \in 1..n : ids[i] = i - 1

\* The view of the schema lives on the stack: it is reset at the end, but not when the array
\* cannot be built. Only the outermost union learns whether its type ids are its child indices.
ArrowArrayInitFromSchema(s, m) ==
    LET ids(x) == x.storage \in UnionTypes
                    => TypeIdsWillEqualChildIndices(s.format[1].numbers, Len(s.children))
        Finished(v, a) == IF a.rc # OK THEN a
                          ELSE Done(OK, [a.x EXCEPT !.ids = ids(v.x)], ArrowArrayViewReset(v.x, a.m))
        Viewed(v) == IF v.rc # OK THEN Done(v.rc, ArrayReleased, v.m)
                     ELSE Finished(v, ArrowArrayInitFromArrayView(v.x, v.m))
    IN  Viewed(ArrowArrayViewInitFromSchema(s, m))
=============================================================================
