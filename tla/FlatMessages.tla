---------------------------- MODULE FlatMessages ----------------------------
(***************************************************************************)
(* The life of a flatbuffer: it is built by a sequence of builder calls,   *)
(* perhaps abandoned half way and built again with the same builder,       *)
(* finalized, cloned, possibly sorted in place or damaged in one byte on   *)
(* its way, verified and, if the verifier accepts it, read and decoded.    *)
(* A vector of strings, which no table of the metadata has, is built alone. *)
(*                                                                         *)
(* A plan is the value to build and how: in which order (style), with      *)
(* which identifier, block alignment and cache limit.  Calls turns it into *)
(* the calls a program makes; references that wait to be used are kept on  *)
(* the stack refs.                                                         *)
(***************************************************************************)
EXTENDS FlatObjects, FlatDecoder, FlatSearch

CONSTANTS
    Plans,          \* what may be built
    Damages(_)      \* the <<position, byte>> damages tried on a message

(* The verifier is an independent piece of code. *)
V == INSTANCE FlatVerifier

VARIABLES
    plan,           \* the plan of this behaviour
    B,              \* the builder
    todo,           \* builder calls still to make
    refs,           \* references not yet used, the last one first
    phase,          \* where the message is
    again,          \* whether a first attempt was abandoned
    msg,            \* the finished buffer
    verdict,        \* what the verifier said
    copy,           \* the buffer cloned from msg
    decoded         \* what the decoder made of msg

vars == <<plan, B, todo, refs, phase, again, msg, verdict, copy, decoded>>

-----------------------------------------------------------------------------
(* The calls of a program that builds v.                                   *)

Op(name, arg) == [op |-> name, arg |-> arg]

(* Style "nested" opens a container before it builds the parts, style      *)
(* "parts" has the parts ready; "shared" is the latter with the reference  *)
(* of a part used again for an equal one.                                  *)
RECURSIVE Calls(_, _, _)

FieldCalls(rec, d, a, style) ==
    LET v == rec[a.name] IN
    CASE a.kind = "scalar" -> <<Op("add", <<a, v[2]>>)>>
      [] a.kind = "struct" -> IF v = None THEN << >>
                              ELSE <<Op("add_struct", <<a, v[2]>>)>>
      [] a.kind = "ref" -> IF v = None THEN << >>
                           ELSE (IF style = "nested" THEN Calls(v, d, style)
                                 ELSE << >>) \o <<Op("add_ref", <<a>>)>>
      [] a.kind = "value" -> IF v[2] = 0 THEN << >>
                             ELSE (IF style = "nested" THEN Calls(v[3], d, style)
                                   ELSE << >>)
                                  \o <<Op("add_union", <<a, d.of, v[3][2]>>)>>
      [] a.kind = "type" -> << >>

(* The objects a table refers to, in the order of its additions. *)
Parts(N, rec) ==
    LET some == SelectSeq(builder[N], LAMBDA a :
                    \/ a.kind = "ref" /\ rec[a.name] # None
                    \/ a.kind = "value" /\ rec[a.name][2] # 0)
    IN  [i \in DOMAIN some |->
            [of |-> IF some[i].kind = "ref" THEN rec[some[i].name]
                    ELSE rec[some[i].name][3],
             d |-> reader[N][some[i].name]]]
Complete(N, rec) ==
    \A i \in DOMAIN builder[N] :
        LET a == builder[N][i] IN a.kind \in {"ref", "struct"} =>
                                      rec[a.name] # None

(* Ready in reverse, so that the first is on top of the stack. *)
PartCalls(parts, style) ==
    FlattenSeq([i \in DOMAIN parts |->
        LET j == Len(parts) + 1 - i IN
        IF style = "shared" /\ j < Len(parts) /\ parts[j].of = parts[j + 1].of
        THEN <<Op("share", << >>)>>
        ELSE Calls(parts[j].of, parts[j].d, style)])

TableCalls(N, rec, style) ==
    LET adds == FlattenSeq([i \in DOMAIN builder[N] |->
                    FieldCalls(rec, reader[N][builder[N][i].name],
                               builder[N][i], style)])
        framed == <<Op("start_table", <<N>>)>> \o adds
                      \o <<Op("end_table", <<N>>)>>
        parts == Parts(N, rec)
    IN  IF style = "nested" THEN framed
        ELSE PartCalls(parts, style) \o
             (IF Complete(N, rec) THEN <<Op("create_table", <<N, rec>>)>>
              ELSE framed)

Calls(v, d, style) ==
    CASE v[1] = "string" ->
            IF style = "nested"
            THEN <<Op("start_string", << >>), Op("append_string", <<v[2]>>),
                   Op("append_string", <<v[2]>>),
                   Op("truncate_string", <<Len(v[2])>>), Op("end_string", << >>)>>
            ELSE <<Op("create_string", <<v[2]>>)>>
      [] v[1] = "vector" ->
            IF style = "nested"
            THEN <<Op("start_vector", <<d>>), Op("extend_vector", <<1>>),
                   Op("truncate_vector", <<1>>), Op("append_vector", <<v[2]>>)>>
                 \o (IF v[2] = << >> THEN << >>
                     ELSE <<Op("truncate_vector", <<1>>),
                            Op("vector_push", <<Last(v[2])>>)>>)
                 \o <<Op("end_vector", << >>)>>
            ELSE <<Op("create_vector", <<v[2], d>>)>>
      [] v[1] = "tables" ->
            IF style = "nested"
            THEN <<Op("start_offset_vector", << >>)>>
                 \o FlattenSeq([i \in DOMAIN v[2] |->
                        Calls(v[2][i], d, style)
                            \o <<Op("offset_vector_push", << >>)>>])
                 \o <<Op("end_offset_vector", << >>)>>
            ELSE PartCalls([i \in DOMAIN v[2] |-> [of |-> v[2][i], d |-> d]],
                           style)
                 \o <<Op("create_offset_vector", <<Len(v[2])>>)>>
      [] v[1] = "table" -> TableCalls(v[2], v[3], style)

RootCalls(p) ==
    IF p.root[1] = "struct" THEN <<Op("create_struct_root", << >>)>>
    ELSE <<Op("start_buffer", << >>)>> \o Calls(p.root, << >>, p.style)
             \o <<Op("end_buffer", << >>)>>

-----------------------------------------------------------------------------
Configured(p) ==
    [flatcc_builder_init EXCEPT !.vb_flush_limit = p.vb_flush_limit,
                                !.disable_vt_clustering = ~p.clustering]

Init ==
    /\ plan \in Plans
    /\ B = Configured(plan)
    /\ todo = RootCalls(plan)
    /\ refs = << >>
    /\ phase = "building"
    /\ again = FALSE
    /\ msg = << >> /\ verdict = "none" /\ copy = << >> /\ decoded = <<"none">>

(* The next call is op. *)
Called(op) ==
    /\ phase = "building" /\ todo # << >> /\ Head(todo).op = op
    /\ todo' = Tail(todo)
    /\ UNCHANGED <<plan, phase, again, msg, verdict, copy, decoded>>
Arg == Head(todo).arg

(* A call that takes n references off the stack and produces an object, or *)
(* only changes one.                                                       *)
Yields(C, n) ==
    B' = C /\ refs' = <<C.ret>> \o SubSeq(refs, n + 1, Len(refs))
Changes(C, n) == B' = C /\ refs' = SubSeq(refs, n + 1, Len(refs))

StartBuffer ==
    Called("start_buffer") /\
    Changes(flatcc_builder_start_buffer(B, plan.fid, plan.block_align, {}), 0)
EndBuffer ==
    Called("end_buffer") /\ Yields(flatcc_builder_end_buffer(B, refs[1]), 1)

(* N_create_as_root of a struct needs no frame. *)
StructRoot(s) ==
    flatcc_builder_create_buffer(s, plan.fid, 0, s.ret, plan.align, {})
CreateStructRoot ==
    /\ Called("create_struct_root")
    /\ Yields(StructRoot(flatcc_builder_end_struct(
                 flatcc_builder_start_struct(B, plan.root[2], plan.align))), 0)

CreateString ==
    Called("create_string") /\
    Yields(flatcc_builder_create_string(B, Arg[1]), 0)
StartString ==
    Called("start_string") /\ Changes(flatcc_builder_start_string(B), 0)
AppendString ==
    Called("append_string") /\
    Changes(flatcc_builder_append_string(B, Arg[1]), 0)
TruncateString ==
    Called("truncate_string") /\
    Changes(flatcc_builder_truncate_string(B, Arg[1]), 0)
EndString == Called("end_string") /\ Yields(flatcc_builder_end_string(B), 0)

CreateVector ==
    /\ Called("create_vector")
    /\ Yields(flatcc_builder_create_vector(B, FlattenSeq(Arg[1]), Len(Arg[1]),
                                           Arg[2].align, CountMax(Arg[2].size)),
              0)
StartVector ==
    /\ Called("start_vector")
    /\ Changes(flatcc_builder_start_vector(B, Arg[1].size, Arg[1].align,
                                           CountMax(Arg[1].size)), 0)
ExtendVector ==
    Called("extend_vector") /\
    Changes(flatcc_builder_extend_vector(B, Arg[1]), 0)
AppendVector ==
    Called("append_vector") /\
    Changes(flatcc_builder_append_vector(B, Arg[1]), 0)
VectorPush ==
    Called("vector_push") /\ Changes(flatcc_builder_vector_push(B, Arg[1]), 0)
TruncateVector ==
    Called("truncate_vector") /\
    Changes(flatcc_builder_truncate_vector(B, Arg[1]), 0)
EndVector == Called("end_vector") /\ Yields(flatcc_builder_end_vector(B), 0)

CreateOffsetVector ==
    /\ Called("create_offset_vector")
    /\ Yields(flatcc_builder_create_offset_vector(B, SubSeq(refs, 1, Arg[1])),
              Arg[1])
StartOffsetVector ==
    Called("start_offset_vector") /\
    Changes(flatcc_builder_start_offset_vector(B), 0)
OffsetVectorPush ==
    Called("offset_vector_push") /\
    Changes(flatcc_builder_offset_vector_push(B, refs[1]), 1)
EndOffsetVector ==
    Called("end_offset_vector") /\
    Yields(flatcc_builder_end_offset_vector(B), 0)

StartTable == Called("start_table") /\ Changes(N_start(B, Arg[1]), 0)
AddScalar ==
    Called("add") /\ Changes(scalar_field_add(B, Arg[1], Arg[2]), 0)
AddStructField ==
    Called("add_struct") /\ Changes(struct_field_add(B, Arg[1], Arg[2]), 0)
AddReference ==
    Called("add_ref") /\ Changes(ref_field_add(B, Arg[1], refs[1]), 1)
AddUnion ==
    Called("add_union") /\
    Changes(union_field_add(B, Arg[1], union_as(Arg[2], Arg[3], refs[1])), 1)
EndTable == Called("end_table") /\ Yields(N_end(B, Arg[1]), 0)

(* The arguments of N_create: the parts are on the stack. *)
CreateTable ==
    LET N == Arg[1]
        rec == Arg[2]
        used == SelectSeq(builder[N], LAMBDA a :
                    a.kind = "ref" \/ (a.kind = "value" /\ rec[a.name][2] # 0))
        ref(f) == refs[CHOOSE i \in DOMAIN used : used[i].name = f]
        field(id) == (CHOOSE a \in Range(builder[N]) :
                        a.id = id /\ a.kind # "type").name
        given(f) == CASE rec[f][1] \in {"scalar", "struct"} -> rec[f][2]
                      [] rec[f][1] = "union" /\ rec[f][2] = 0 -> NoUnion
                      [] rec[f][1] = "union" /\ rec[f][2] # 0 ->
                            union_as(reader[N][f].of, rec[f][3][2], ref(f))
                      [] OTHER -> ref(f)
        args == [k \in DOMAIN formal_args[N] |-> given(field(formal_args[N][k]))]
    IN  Called("create_table") /\ Yields(N_create(B, N, args), Len(used))

(* An equal part is referred to twice. *)
Share == Called("share") /\ B' = B /\ refs' = <<refs[1]>> \o refs

-----------------------------------------------------------------------------
(* The program gives up and starts over with the same builder. *)
Abandon ==
    /\ phase = "building" /\ ~again /\ plan.abandon
    /\ B' = flatcc_builder_reset(B)
    /\ todo' = RootCalls(plan) /\ refs' = << >> /\ again' = TRUE
    /\ UNCHANGED <<plan, phase, msg, verdict, copy, decoded>>

Finalize ==
    /\ phase = "building" /\ todo = << >>
    /\ msg' = flatcc_builder_finalize_buffer(B)
    /\ phase' = "built"
    /\ UNCHANGED <<plan, B, todo, refs, again, verdict, copy, decoded>>

(* A refmap takes an empty vector for the object that follows it, since it *)
(* knows a vector by the address behind its length: CloneFaithful is false *)
(* of such a source, so the clones here have a refmap only without one.    *)
RECURSIVE HasEmptyVector(_)
HasEmptyVector(v) ==
    CASE v[1] \in {"vector", "tables"} /\ v[2] = << >> -> TRUE
      [] v[1] = "table" -> \E f \in DOMAIN v[3] : HasEmptyVector(v[3][f])
      [] v[1] = "tables" /\ v[2] # << >> ->
            \E i \in DOMAIN v[2] : HasEmptyVector(v[2][i])
      [] v[1] = "union" -> HasEmptyVector(v[3])
      [] OTHER -> FALSE

(* N_clone_as_root into the builder that was reset. *)
CloneRoot(S) == N_clone(S, msg, plan.root[2], read_uoffset(msg, 0))
EndRoot(C) == flatcc_builder_end_buffer(C, C.ret)
Clone ==
    /\ phase = "built" /\ copy = << >> /\ plan.root[1] = "table"
    /\ \E memoized \in IF HasEmptyVector(plan.root) THEN {FALSE} ELSE BOOLEAN :
         LET R == [flatcc_builder_reset(B) EXCEPT !.refmap.set = memoized] IN
         B' = EndRoot(CloneRoot(flatcc_builder_start_buffer(R, plan.fid, 0, {})))
    /\ copy' = flatcc_builder_finalize_buffer(B')
    /\ UNCHANGED <<plan, todo, refs, phase, again, msg, verdict, decoded>>

(* One byte changes before the message is read. *)
Damage ==
    /\ phase = "built" /\ plan.damage /\ verdict = "none" /\ copy = << >>
    /\ \E d \in Damages(msg) :
            msg[d[1]] # d[2] /\ msg' = [msg EXCEPT ![d[1]] = d[2]]
    /\ phase' = "damaged"
    /\ UNCHANGED <<plan, B, todo, refs, again, verdict, copy, decoded>>

(* The vectors of scalars of the root table, or the vector of strings. *)
SortableFields(N) ==
    {f \in DOMAIN reader[N] : reader[N][f].kind = "vector"
                                  /\ reader[N][f].size \in {4, 8}}
StringVector == [p |-> read_uoffset(msg, 0), kind |-> "string", size |-> 4]
Sortable ==
    IF plan.root[1] = "tables" THEN {StringVector}
    ELSE {[p |-> offset_field(msg, read_uoffset(msg, 0),
                              reader[plan.root[2]][f].id),
           kind |-> "scalar", size |-> reader[plan.root[2]][f].size] :
              f \in SortableFields(plan.root[2])}

(* N_vec_sort of a vector that is there. *)
Sort ==
    /\ phase = "built" /\ verdict = "none" /\ copy = << >>
    /\ plan.root[1] # "struct"
    /\ \E d \in Sortable : d.p # 0 /\ msg' = heap_sort(msg, d)
    /\ phase' = "sorted"
    /\ UNCHANGED <<plan, B, todo, refs, again, verdict, copy, decoded>>

Verify ==
    /\ phase # "building" /\ verdict = "none"
    /\ verdict' =
          CASE plan.root[1] = "struct" ->
                V!verify_struct_as_root(msg, plan.fid, Len(plan.root[2]),
                                        plan.align)
            [] plan.root[1] = "table" ->
                V!verify_table_as_root(msg, plan.fid, plan.root[2])
            [] plan.root[1] = "tables" ->
                V!verify_string_vector(msg, Len(msg), 0, read_uoffset(msg, 0))
    /\ UNCHANGED <<plan, B, todo, refs, phase, again, msg, copy, decoded>>

Value_ ==
    CASE plan.root[1] = "struct" ->
            ReadStructRoot(msg, Len(plan.root[2]), plan.align, plan.fid)
      [] plan.root[1] = "table" -> ReadRoot(msg, plan.root[2], plan.fid)
      [] plan.root[1] = "tables" ->
            <<"tables", [i \in 1 .. vec_len(msg, StringVector) |->
                <<"string", vec_at(msg, StringVector, i - 1)>>]>>

(* A header type without a header is passed on as a null pointer. *)
DecodeHeader(header) ==
    \/ header[2] \in {1, 3} /\ header[3] = None /\ decoded' = NULL
    \/ header[2] \in {2, 4, 5} /\ decoded' = ENOTSUP
    \/ header[2] \notin 1..5 /\ decoded' = EINVAL
    \/ header[2] = 1 /\ header[3] # None
        /\ decoded' = DecodeSchema(header[3][3])
    \/ header[2] = 3 /\ header[3] # None
        /\ \E n \in 1..2 :
             decoded' = DecodeRecordBatchHeader(header[3][3], n, n)
Decode ==
    /\ verdict = "ok" /\ decoded = <<"none">>
    /\ plan.root[1] = "table" /\ plan.root[2] = "Message"
    /\ DecodeHeader(Value_[3].header)
    /\ UNCHANGED <<plan, B, todo, refs, phase, again, msg, verdict, copy>>

Next ==
    \/ StartBuffer \/ EndBuffer \/ CreateStructRoot
    \/ CreateString \/ StartString \/ AppendString \/ TruncateString \/ EndString
    \/ CreateVector \/ StartVector \/ ExtendVector \/ AppendVector
    \/ VectorPush \/ TruncateVector \/ EndVector
    \/ CreateOffsetVector \/ StartOffsetVector \/ OffsetVectorPush
    \/ EndOffsetVector
    \/ StartTable \/ AddScalar \/ AddStructField \/ AddReference \/ AddUnion
    \/ EndTable \/ CreateTable \/ Share
    \/ Abandon \/ Finalize \/ Clone \/ Sort \/ Damage \/ Verify \/ Decode

Spec == Init /\ [][Next]_vars

-----------------------------------------------------------------------------
(* Properties.                                                             *)

(* Types: bytes are bytes, a reference on the stack was emitted, and the   *)
(* free space of the emitter's end pages is within a page.                 *)
TypeOK ==
    /\ phase \in {"building", "built", "sorted", "damaged"}
    /\ again \in BOOLEAN
    /\ verdict \in {"none", "ok", "refused", "stray"}
    /\ Range(msg) \union Range(copy) \union Range(B.ds) \subseteq 0 .. Radix - 1
    /\ phase = "building" =>
           \A i \in DOMAIN refs : refs[i] \in B.emit_start .. B.emit_end + 1
    /\ {B.emitter.front_left, B.emitter.back_left} \subseteq 0..PageSize

(* What the builder wrote, the accessors read: alignment, vtables shared   *)
(* between tables, back references, defaults that were left out and pages  *)
(* of the emitter do not show, also after an abandoned attempt with the    *)
(* same builder.                                                           *)
RoundTrip == phase = "built" => Value_ = plan.root

(* No call of the builder fails, and the verifier accepts what the builder *)
(* wrote unless it nests too deep, sorted in place or not: both know the   *)
(* same layout of a table.                                                 *)
BuiltVerifies ==
    /\ phase = "building" => B.ret # Failed
    /\ phase \in {"built", "sorted"} /\ verdict # "none" =>
           (verdict = "ok" <=> Levels(plan.root) < MaxLevels)

(* The verifier stays within the message, whatever byte is damaged, and    *)
(* what it accepted the accessors read without leaving the message and     *)
(* without recursing deeper than the limit.                                *)
AcceptedWhole ==
    /\ verdict # "stray"
    /\ verdict = "ok" =>
           \E v \in {Value_} : Whole(v) /\ Levels(v) < MaxLevels

(* A rearrangement of s in the order the sort's comparison defines. *)
SortedFrom(t, s, d) ==
    /\ Len(t) = Len(s)
    /\ \A e \in Range(s) :
            Cardinality({i \in DOMAIN t : t[i] = e}) =
                Cardinality({i \in DOMAIN s : s[i] = e})
    /\ \A i, j \in DOMAIN t : i < j => ~Less(d, t[j], t[i])

(* heap_sort, whose heap starts at node 1 of a vector that starts at 0,    *)
(* orders the vector, loses and doubles no element although the offsets of *)
(* strings are relative to where they stand, and changes nothing else of   *)
(* the message.                                                            *)
Numbers(v) == [i \in DOMAIN v[2] |-> Number(v[2][i])]
Texts(v) == [i \in DOMAIN v[2] |-> v[2][i][2]]
SortedInPlace ==
    phase = "sorted" =>
        \E v \in {Value_} :
            IF v[1] = "tables"
            THEN SortedFrom(Texts(v), Texts(plan.root), StringVector)
            ELSE \E f \in SortableFields(v[2]) :
                    /\ v[3][f] # None
                    /\ SortedFrom(Numbers(v[3][f]), Numbers(plan.root[3][f]),
                                  [kind |-> "scalar"])
                    /\ \A g \in DOMAIN v[3] \ {f} : v[3][g] = plan.root[3][g]

(* What a program may search in v: vectors of scalars and strings, and the *)
(* scalar and string fields of vectors of structs and tables.  A string    *)
(* field that is absent would be compared through a null pointer.          *)
Field_(v, f) == [i \in DOMAIN v[2] |-> v[2][i][3][f]]
RECURSIVE KeyVectors(_)
KeyVectors(v) ==
    CASE v[1] = "table" -> UNION {KeyVectors(v[3][f]) : f \in DOMAIN v[3]}
      [] v[1] = "union" -> KeyVectors(v[3])
      [] v[1] = "vector" /\ v[2] # << >> ->
            {<<"scalar", [i \in DOMAIN v[2] |->
                            Number(SubSeq(v[2][i], at, at + 3))]>> :
                at \in IF Len(v[2][1]) <= 8 THEN {1} ELSE {1, 9}}
      [] v[1] = "tables" /\ v[2] # << >> /\ v[2][1][1] = "string" ->
            {<<"string", [i \in DOMAIN v[2] |-> v[2][i][2]]>>}
      [] v[1] = "tables" /\ v[2] # << >> /\ v[2][1][1] = "table" ->
            LET N == v[2][1][2]
                present(kind) == {f \in DOMAIN reader[N] :
                    reader[N][f].kind = kind /\ \A i \in DOMAIN v[2] :
                                                   v[2][i][3][f] # None}
            IN  UNION {KeyVectors(v[2][i]) : i \in DOMAIN v[2]}
                \union {<<"scalar", [i \in DOMAIN v[2] |->
                                        Value(Field_(v, f)[i])]>> :
                            f \in present("scalar")}
                \union {<<"string", [i \in DOMAIN v[2] |->
                                        Field_(v, f)[i][2]]>> :
                            f \in present("string")}
      [] OTHER -> {}

(* Every search function gives the first or last of the indices in hits    *)
(* that it was asked to look at; find only on an ordered vector.           *)
Finds(cmp, hits) ==
    LET least(s) == IF s = {} THEN not_found ELSE Min(s)
        most(s) == IF s = {} THEN not_found ELSE Max(s)
    IN  /\ vec_scan(cmp) = least(hits) /\ vec_rscan(cmp) = most(hits)
        /\ \A b, e \in 0 .. Len(cmp) + 1 :
                /\ vec_scan_ex(cmp, b, e) = least(hits \intersect (b .. e - 1))
                /\ vec_rscan_ex(cmp, b, e) = most(hits \intersect (b .. e - 1))
        /\ (\A i, j \in DOMAIN cmp : i < j => cmp[i] <= cmp[j]) =>
                find_by_field(cmp) = least(hits)

(* The searches agree with each other and with equality of the elements,   *)
(* where a string is what C takes it for, up to its first zero, or that    *)
(* and its length; and a sorted vector of strings is ordered for both      *)
(* comparisons, so that find works on what the sort produced.              *)
SearchAgrees ==
    phase \in {"built", "sorted"} /\ verdict = "none" /\ copy = << >> =>
        \A v \in KeyVectors(Value_) :
            LET keys == v[2]
                hits(s) == {i - 1 : i \in s}
            IN  IF v[1] = "scalar"
                THEN \A k \in Range(keys) \union {0, 3} :
                        Finds(Scalars(keys, k),
                              hits({i \in DOMAIN keys : keys[i] = k}))
                ELSE \A k \in Range(keys) \union {<< >>, <<2>>} :
                        LET same == {i \in DOMAIN keys :
                                        CString(keys[i]) = CString(k)}
                            cmp == Strings(keys, k)
                        IN  /\ Finds(cmp, hits(same))
                            /\ Finds(Strings_n(keys, k, Len(k)),
                                     hits({i \in same : Len(keys[i]) = Len(k)}))
                            /\ phase = "sorted" /\ plan.root[1] = "tables" =>
                                  \A i, j \in DOMAIN cmp :
                                      i < j => cmp[i] <= cmp[j]

(* A clone reads like its source although equal references are cloned once *)
(* and the clone's vtables are its own.                                    *)
CloneFaithful ==
    copy # << >> =>
        ReadRoot(copy, plan.root[2], plan.fid) =
            ReadRoot(msg, plan.root[2], plan.fid)

IsSchema(v) ==
    v[1] = "table" /\ v[2] = "Message" /\ v[3].header[2] = 1

(* What the decoder makes of a schema tells it from every other schema:    *)
(* no parameter of a type, name, flag, child or metadata is dropped.       *)
SchemaFaithful ==
    phase = "built" /\ decoded[1] = "OK" /\ IsSchema(plan.root) =>
        \A p \in Plans :
            IsSchema(p.root)
                /\ DecodeSchema(p.root[3].header[3][3]) = decoded
            => p.root[3].header = plan.root[3].header

(* Every enumeration among the fields of a table has a known value. *)
KnownFields(N, t) ==
    CASE N = "Union" -> UnionMode_is_known_value(Value(t.mode))
      [] N = "FloatingPoint" -> Precision_is_known_value(Value(t.precision))
      [] N = "Date" -> DateUnit_is_known_value(Value(t.unit))
      [] N \in {"Time", "Timestamp", "Duration"} ->
            TimeUnit_is_known_value(Value(t.unit))
      [] N = "Interval" -> IntervalUnit_is_known_value(Value(t.unit))
      [] N = "Schema" ->
            /\ Endianness_is_known_value(Value(t.endianness))
            /\ \A i \in DOMAIN Elements(t.features) :
                    Feature_is_known_value(Number(SubSeq(t.features[2][i], 1, 4)))
      [] N = "BodyCompression" -> CompressionType_is_known_value(Value(t.codec))
      [] OTHER -> TRUE
RECURSIVE Known(_)
Known(v) ==
    CASE v[1] = "table" ->
            /\ KnownFields(v[2], v[3])
            /\ \A f \in DOMAIN v[3] : Known(v[3][f])
      [] v[1] = "tables" -> \A i \in DOMAIN v[2] : Known(v[2][i])
      [] v[1] = "union" -> Known(v[3])
      [] OTHER -> TRUE

(* A header that was decoded, damaged or not, holds only values of its     *)
(* enumerations that are known: no setter lets another one through.        *)
UnknownRefused == decoded[1] = "OK" => Known(Value_[3].header)

(* Whatever the builder was used for before, a message that is built reads *)
(* back as it was meant, is accepted unless it nests deeper than the       *)
(* verifier's limit, and a clone of it reads the same.                     *)
BuildFaithful == RoundTrip /\ BuiltVerifies /\ CloneFaithful

(* The verifier and the accessors do not leave a damaged message.  What    *)
(* the decoder makes of it is DecodesWithoutNull, which does not hold.     *)
DamageContained == TypeOK /\ AcceptedWhole

(* The decoder follows no null pointer in a message the verifier accepted. *)
(* Violated: the verifier requires neither a header of a header type, nor  *)
(* the table of a type, nor the key and the value of a pair of metadata,   *)
(* and ArrowIpcDecoderDecodeHeader, the SetType functions and              *)
(* ArrowIpcDecoderSetMetadata ask for none of them either.                 *)
DecodesWithoutNull == decoded # NULL

(* Sorting by key keeps the message, and what is in it can be found.       *)
SortedAndFound == SortedInPlace /\ SearchAgrees

(* A schema that is decoded is the schema that was sent, or is refused.    *)
SchemaDecoded == SchemaFaithful /\ UnknownRefused
=============================================================================
