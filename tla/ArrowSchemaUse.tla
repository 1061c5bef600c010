--------------------------- MODULE ArrowSchemaUse ---------------------------
(* A caller of nanoarrow's schema functions, with an allocator that runs out: it   *)
(* sets types, names and metadata anywhere in a schema, copies it, views it,       *)
(* builds an array from it and releases what it owns, in any order. It owns what   *)
(* a call that returned NANOARROW_OK gave it, as nanoarrow.h says.                 *)
EXTENDS ArrowSchemaViews

CONSTANTS Requests,    \* the type-setting calls made on the new schema
          Again,       \* the ones made when it has a format already
          Below,       \* the calls made on its children
          Formats,     \* formats a foreign producer sets: the format, its type (or "REFUSED")
          Keys, Values,\* of metadata
          Fuels,       \* how many allocations succeed
          MaxCalls     \* bound on the calls

VARIABLES schema,   \* the schema
          asked,    \* the call that set its type, when nothing below was changed since
          intact,   \* did every call on the schema succeed?
          cleared,  \* did a call take the format of a part below away?
          crashed,  \* was a NULL or uninitialised pointer read?
          copy,     \* a copy the caller owns, and the schema it was made from
          parsed,   \* the schema view, when the schema has not changed since
          view,     \* an array view the caller owns
          array,    \* an array the caller owns
          buffer,   \* a builder of metadata
          want,     \* what the calls on it say each key's value is
          mem,      \* the allocator
          calls
vars == <<schema, asked, intact, cleared, crashed, copy, parsed, view, array, buffer, want, mem, calls>>

Init ==
    /\ schema = ArrowSchemaInit /\ asked = Null /\ intact = TRUE /\ cleared = FALSE /\ crashed = FALSE
    /\ copy = Null /\ parsed = Null /\ view = Null /\ array = Null
    /\ buffer = EmptyBuffer /\ want = [k \in Keys |-> Null]
    /\ mem \in {Memory(fuel) : fuel \in Fuels}
    /\ calls = 0

Call == calls < MaxCalls /\ ~crashed /\ calls' = calls + 1

\* Which function a request calls. A union's type ids are set as the IPC decoder sets them, by
\* writing the format.
Apply(q, s, m) ==
    CASE q.call = "type" -> ArrowSchemaSetType(s, q.type, m)
      [] q.call = "struct" -> ArrowSchemaSetTypeStruct(s, q.n, m)
      [] q.call = "fixed" -> ArrowSchemaSetTypeFixedSize(s, q.type, q.n, m)
      [] q.call = "decimal" -> ArrowSchemaSetTypeDecimal(s, q.type, q.n, q.scale, m)
      [] q.call = "time" -> ArrowSchemaSetTypeDateTime(s, q.type, q.unit, q.zone, m)
      [] q.call = "union" -> ArrowSchemaSetTypeUnion(s, q.type, q.n, m)
      [] q.call = "ids" -> ArrowSchemaSetFormat(s, <<Format(<<"+", "u", "s">>, TRUE, <<q.n>>, "")>>, m)

\* The schema changes and what was read from it is out of date.
Changed(r, what) ==
    /\ UNCHANGED crashed
    /\ schema' = r.x /\ mem' = r.m /\ intact' = (intact /\ r.rc = OK)
    /\ asked' = (IF r.rc = OK THEN what ELSE Null) /\ parsed' = Null

SetRoot ==
    /\ Call /\ schema.live
    /\ \E q \in IF schema.format = Null THEN Requests ELSE Again :
          Changed(Apply(q, schema, mem), <<[q |-> q, fresh |-> schema.children = <<>>]>>)
    /\ UNCHANGED <<cleared, copy, view, array, buffer, want>>

SetFormat ==
    /\ Call /\ schema.live
    /\ \E f \in Formats :
          Changed(ArrowSchemaSetFormat(schema, <<f.format>>, mem),
                  <<[q |-> [call |-> "format", type |-> f.type], fresh |-> schema.children = <<>>]>>)
    /\ UNCHANGED <<cleared, copy, view, array, buffer, want>>

\* Children, and the entries below a map's only child, that are there and not released.
Reachable(s) == {i \in DOMAIN s.children : s.children[i] # Null /\ s.children[i][1].live}
SetBelow ==
    /\ Call /\ schema.live
    /\ \E q \in Below, i \in Reachable(schema) :
       /\ cleared' = (cleared \/ q.type = "UNINITIALIZED")
       /\ \/ Changed(OnChild(schema, i, mem, LAMBDA c, m : Apply(q, c, m)), Null)
          \/ \E j \in Reachable(schema.children[i][1]) :
                Changed(OnChild(schema, i, mem, LAMBDA c, m :
                           OnChild(c, j, m, LAMBDA d, md : Apply(q, d, md))), Null)
    /\ UNCHANGED <<copy, view, array, buffer, want>>

SetDictionary ==
    /\ Call /\ schema.live
    /\ \E type \in {"STRING", "DATE32", "UNINITIALIZED"} :
          Changed(AndThen(ArrowSchemaAllocateDictionary(schema, mem), LAMBDA x, m :
                     OnDictionary(x, m, LAMBDA c, mc : ArrowSchemaInitFromType(type, mc))), asked)
    /\ UNCHANGED <<cleared, copy, view, array, buffer, want>>

SetName ==
    /\ Call /\ schema.live
    /\ \E name \in {Null, <<"a">>} : Changed(ArrowSchemaSetName(schema, name, mem), asked)
    /\ UNCHANGED <<cleared, copy, view, array, buffer, want>>

SetMetadata ==
    /\ Call /\ schema.live
    /\ Changed(ArrowSchemaSetMetadata(schema, BufferText(buffer), mem), asked)
    /\ UNCHANGED <<cleared, copy, view, array, buffer, want>>

\* A copy is made of a schema all of whose parts are initialised.
RECURSIVE Initialised(_)
Initialised(s) ==
    /\ s.live
    /\ \A i \in DOMAIN s.children : s.children[i] # Null /\ Initialised(s.children[i][1])
    /\ s.dictionary # Null => Initialised(s.dictionary[1])
DeepCopy ==
    /\ Call /\ Initialised(schema) /\ copy = Null
    /\ LET r == ArrowSchemaDeepCopy(schema, mem)
       IN  /\ copy' = (IF r.rc = OK THEN <<[made |-> r.x, from |-> schema]>> ELSE Null)
           /\ mem' = r.m
    /\ UNCHANGED <<schema, asked, intact, cleared, crashed, parsed, view, array, buffer, want>>

ReleaseSchema ==
    /\ Call /\ schema.live
    /\ schema' = Unreleased /\ mem' = ArrowSchemaRelease(schema, mem)
    /\ asked' = Null /\ parsed' = Null
    /\ UNCHANGED <<intact, cleared, crashed, copy, view, array, buffer, want>>
ReleaseCopy ==
    /\ Call /\ copy # Null
    /\ copy' = Null /\ mem' = ArrowSchemaRelease(copy[1].made, mem)
    /\ UNCHANGED <<schema, asked, intact, cleared, crashed, parsed, view, array, buffer, want>>

ViewSchema ==
    /\ Call /\ parsed = Null
    /\ parsed' = <<ArrowSchemaViewInit(schema)>> /\ crashed' = (parsed'[1].rc = UNDEFINED)
    /\ UNCHANGED <<schema, asked, intact, cleared, copy, view, array, buffer, want, mem>>

\* A tree that was built is remembered with the schema it is of.
Built(r) == IF r.rc = OK THEN <<[made |-> r.x, from |-> schema]>> ELSE Null
InitView ==
    /\ Call /\ intact /\ view = Null
    /\ LET r == ArrowArrayViewInitFromSchema(schema, mem)
       IN  view' = Built(r) /\ mem' = r.m /\ crashed' = (r.rc = UNDEFINED)
    /\ UNCHANGED <<schema, asked, intact, cleared, copy, parsed, array, buffer, want>>
ResetView ==
    /\ Call /\ view # Null
    /\ view' = Null /\ mem' = ArrowArrayViewReset(view[1].made, mem)
    /\ UNCHANGED <<schema, asked, intact, cleared, crashed, copy, parsed, array, buffer, want>>
InitArray ==
    /\ Call /\ intact /\ array = Null
    /\ LET r == ArrowArrayInitFromSchema(schema, mem)
       IN  array' = Built(r) /\ mem' = r.m /\ crashed' = (r.rc = UNDEFINED)
    /\ UNCHANGED <<schema, asked, intact, cleared, copy, parsed, view, buffer, want>>
ReleaseArray ==
    /\ Call /\ array # Null
    /\ array' = Null /\ mem' = ArrayRelease(array[1].made, mem)
    /\ UNCHANGED <<schema, asked, intact, cleared, crashed, copy, parsed, view, buffer, want>>

\* The builder of metadata. The first value appended for a key is the one that counts.
Metadata(r, wanted) ==
    /\ buffer' = r.x /\ mem' = r.m /\ want' = (IF r.rc = OK THEN wanted ELSE want)
    /\ UNCHANGED <<schema, asked, intact, cleared, crashed, copy, parsed, view, array>>
AppendKey ==
    Call /\ \E k \in Keys, v \in Values :
        Metadata(ArrowMetadataBuilderAppend(buffer, k, <<v>>, mem),
                 IF want[k] = Null THEN [want EXCEPT ![k] = <<v>>] ELSE want)
SetKey ==
    Call /\ \E k \in Keys, v \in Values :
        Metadata(ArrowMetadataBuilderSet(buffer, k, <<v>>, mem), [want EXCEPT ![k] = <<v>>])
RemoveKey ==
    Call /\ \E k \in Keys :
        Metadata(ArrowMetadataBuilderSet(buffer, k, Null, mem), [want EXCEPT ![k] = Null])
\* A builder that goes on from the metadata of the schema.
ContinueMetadata ==
    /\ Call /\ buffer = EmptyBuffer /\ schema.live
    /\ Metadata(ArrowMetadataBuilderInit(schema.metadata, mem),
                [k \in Keys |-> ArrowMetadataGetValue(schema.metadata, k)])

Next ==
    \/ SetRoot \/ SetFormat \/ SetBelow \/ SetDictionary \/ SetName \/ SetMetadata
    \/ DeepCopy \/ ReleaseSchema \/ ReleaseCopy \/ ViewSchema
    \/ InitView \/ ResetView \/ InitArray \/ ReleaseArray
    \/ AppendKey \/ SetKey \/ RemoveKey \/ ContinueMetadata

Spec == Init /\ [][Next]_vars

-----------------------------------------------------------------------------
(* Properties *)

\* Type invariant: the allocator never goes negative and codes are those of the functions.
TypeOK ==
    /\ mem.fuel \in 0..(CHOOSE n \in Fuels : \A k \in Fuels : k <= n)
    /\ \A pool \in {"schema", "view", "array", "meta"} : mem[pool] >= 0
    /\ parsed = Null \/ parsed[1].rc \in {OK, EINVAL, UNDEFINED}
    /\ calls \in 0..MaxCalls /\ {intact, cleared, crashed} \subseteq BOOLEAN

\* The blocks a schema, an array view or an array owns, counted through its pointers.
RECURSIVE SchemaBlocks(_)
SchemaBlocks(s) ==
    LET Struct(p) == IF p = Null THEN 0 ELSE 1 + SchemaBlocks(p[1])
    IN  IF ~s.live THEN 0
        ELSE Len(s.format) + Len(s.name) + Len(s.metadata) + Struct(s.dictionary)
               + Fold(Len(s.children), BoolInt(s.children # <<>>), LAMBDA i, n : n + Struct(s.children[i]))
RECURSIVE TreeBlocks(_)
TreeBlocks(t) ==
    LET Struct(p) == IF p = Null THEN 0 ELSE 1 + TreeBlocks(p[1])
        own == IF "map" \in DOMAIN t THEN Len(t.map) ELSE 1
    IN  own + Struct(t.dictionary)
          + Fold(Len(t.children), BoolInt(t.kids), LAMBDA i, n : n + Struct(t.children[i]))
OwnedBlocks(p, Blocks(_)) == IF p = Null THEN 0 ELSE Blocks(p[1].made)

\* Nothing a schema allocates is lost or freed twice, whichever allocation fails: the blocks in
\* use are those of the schema and of the copy the caller owns (ArrowSchemaRelease, and the
\* releases in ArrowSchemaDeepCopy and ArrowSchemaInitFromType).
SchemaBlocksOwned == mem.schema = SchemaBlocks(schema) + OwnedBlocks(copy, SchemaBlocks)

\* As long as no allocation fails, array views, arrays and metadata builders lose nothing either:
\* not when a schema is refused halfway down (ArrowArrayViewInitFromSchema), and not when the view
\* on the stack of ArrowArrayInitFromSchema has served.
NoLeakWithMemory ==
    ~mem.failed =>
        /\ mem.view = OwnedBlocks(view, TreeBlocks)
        /\ mem.array = OwnedBlocks(array, TreeBlocks)
        /\ mem.meta = BoolInt(buffer.capacity > 0)

\* The same whatever fails. Violated: ArrowArrayInitFromSchema and the type id map leave a view
\* behind, ArrowArrayAllocateChildren its first children, ArrowBufferResize the block it had.
NoLeak == mem.view = OwnedBlocks(view, TreeBlocks) /\ mem.array = OwnedBlocks(array, TreeBlocks)
            /\ mem.meta = BoolInt(buffer.capacity > 0)

\* A deep copy is the schema it was made of, texts, flags, children and dictionary.
CopyFaithful == copy # Null => copy[1].made = copy[1].from

\* The width that a time type gets when it is parsed again follows the unit, not the request.
ParsedType(q) ==
    IF q.call = "time" /\ q.type \in {"TIME32", "TIME64"}
    THEN IF q.unit \in {"SECOND", "MILLI"} THEN "TIME32" ELSE "TIME64"
    ELSE IF q.call = "struct" THEN "STRUCT" ELSE q.type
\* What the caller asked ArrowSchemaSetType* for is what ArrowSchemaViewInit reads from the format,
\* with its parameters, and a format that means nothing is refused.
ParsedAsAsked ==
    asked # Null /\ parsed # Null /\ schema.dictionary = Null =>
        LET q == asked[1].q
            p == parsed[1]
        IN  /\ q.type \in {"REFUSED", "UNINITIALIZED"} => p.rc # OK
            /\ q.type \notin {"REFUSED", "UNINITIALIZED"} /\ q.call # "format" /\ asked[1].fresh => p.rc = OK
            /\ p.rc = OK => p.type = ParsedType(q)
            /\ p.rc = OK /\ q.call = "decimal" => p.precision = q.n /\ p.scale = q.scale
            /\ p.rc = OK /\ q.call = "time" => p.unit = q.unit
            /\ p.rc = OK /\ q.call = "time" /\ q.zone # Null => p.zone = q.zone[1]
            /\ p.rc = OK /\ q.call = "fixed" => p.fixed = q.n

\* The type asked for is the type read. Violated: ArrowSchemaSetTypeDateTime writes the same format
\* for TIME32 and TIME64.
TypeKept ==
    asked # Null /\ parsed # Null /\ schema.dictionary = Null =>
        (parsed[1].rc = OK /\ asked[1].q.call = "time" => parsed[1].type = asked[1].q.type)

\* Viewing a schema, or building an array view or an array from it, reads a NULL or uninitialised
\* pointer in no schema whose calls all succeeded, in whatever order types, formats, children and
\* dictionaries were set, unless one of the calls took the format of a part below away.
ViewDefined == crashed => ~intact \/ cleared
\* The same whatever the calls were, as ArrowSchemaViewValidateNChildren means to have it ("check that
\* they won't segfault if inspected"). Violated: ArrowSchemaViewValidateMap compares the format of the
\* entries, which ArrowSchemaSetType(UNINITIALIZED) and a failed call leave NULL, and goes one level
\* further down.
ViewAlwaysDefined == ~crashed
\* For calls that all succeeded: violated as well, by the former.
ViewIntactDefined == crashed => ~intact

\* A view or an array built from a schema has the schema's shape and storage types all the way
\* down, a union's type ids lead back to its children, and a view built from a dictionary has one.
RECURSIVE Mirrors(_, _)
Mirrors(t, s) ==
    LET p == ArrowSchemaViewInit(s)
    IN  /\ p.rc = OK /\ t.storage = p.storage /\ t.fixed = p.fixed
        /\ Len(t.children) = Len(s.children)
        /\ \A i \in DOMAIN s.children : t.children[i] # Null /\ Mirrors(t.children[i][1], s.children[i][1])
        /\ Len(t.dictionary) = Len(s.dictionary)
        /\ s.dictionary # Null => Mirrors(t.dictionary[1], s.dictionary[1])
        /\ "map" \in DOMAIN t /\ p.storage \in UnionTypes =>
              \A i \in DOMAIN p.ids : (\A j \in DOMAIN p.ids \ {i} : p.ids[j] # p.ids[i])
                                        => t.map # Null /\ t.map[1][p.ids[i]] = i - 1
        /\ "ids" \in DOMAIN t /\ t.ids = FALSE => p.ids # [i \in DOMAIN p.ids |-> i - 1]
MirrorsSchema ==
    /\ view # Null => Mirrors(view[1].made, view[1].from)
    /\ array # Null => Mirrors(array[1].made, array[1].from)

\* A union whose type ids are not its child indices is known as such, so that appending to it is
\* refused. Violated below the top: only ArrowArrayInitFromSchema's own array is told.
RECURSIVE IdsKnown(_, _)
IdsKnown(a, s) ==
    LET p == ArrowSchemaViewInit(s)
    IN  /\ a.storage \in UnionTypes /\ a.ids => p.ids = [i \in DOMAIN p.ids |-> i - 1]
        /\ \A i \in DOMAIN s.children : IdsKnown(a.children[i][1], s.children[i][1])
UnionIdsKnown == array # Null => IdsKnown(array[1].made, array[1].from)

\* Whatever was appended, set and removed, looking a key up gives the value the calls on it leave,
\* and removing it leaves none (ArrowMetadataBuilderSetInternal drops every other pair of the key).
LookupAgrees == ~mem.failed => \A k \in Keys : ArrowMetadataGetValue(BufferText(buffer), k) = want[k]

\* Every block is owned and freed once, whichever allocation fails in a schema and, with memory
\* enough, whichever schema an array view, an array or a builder of metadata refuses.
BlocksOwned == TypeOK /\ SchemaBlocksOwned /\ NoLeakWithMemory

\* What was set is what is read: types with their parameters, pairs of metadata, and no NULL pointer
\* where every call succeeded and none took a format away.
ReadAsSet == ParsedAsAsked /\ ViewDefined /\ LookupAgrees

\* A copy, a view and an array of a schema have the schema's shape all the way down.
ShapeKept == CopyFaithful /\ MirrorsSchema
=============================================================================
