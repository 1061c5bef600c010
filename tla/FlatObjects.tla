----------------------------- MODULE FlatObjects -----------------------------
(***************************************************************************)
(* The typed layer flatcc generated over the builder: the macros           *)
(* __flatbuffers_build_... of nanoarrow_ipc.c, with which a table is       *)
(* started, filled field by field and ended, created in one call, or       *)
(* cloned from a finished buffer.                                          *)
(***************************************************************************)
EXTENDS FlatBuilder

(* The next call unless this one failed. *)
And(B, next) == IF B.ret = Failed THEN B ELSE next

-----------------------------------------------------------------------------
(* References to unions: the _as_ functions pair the code of a member with *)
(* the reference of its table.                                             *)

NoUnion == <<0, 0>>
CodeOf(of, member) == CHOOSE c \in DOMAIN of : of[c] = member
Type_as(member, ref) ==
    IF member = "NONE" THEN NoUnion ELSE <<CodeOf(Type_members, member), ref>>
MessageHeader_as(member, ref) ==
    IF member = "NONE" THEN NoUnion
    ELSE <<CodeOf(MessageHeader_members, member), ref>>
SparseTensorIndex_as(member, ref) ==
    IF member = "NONE" THEN NoUnion
    ELSE <<CodeOf(SparseTensorIndex_members, member), ref>>
union_as(U, member, ref) ==
    CASE U = "Type" -> Type_as(member, ref)
      [] U = "MessageHeader" -> MessageHeader_as(member, ref)
      [] U = "SparseTensorIndex" -> SparseTensorIndex_as(member, ref)

-----------------------------------------------------------------------------
(* Fields: one _add per kind.  a is the addition of ArrowTables, u a       *)
(* reference to a union.                                                   *)

(* A scalar is skipped when it has its default. *)
scalar_field_add(B, a, bytes) ==
    IF bytes = Bytes(a.default, a.size) THEN Returns(B, Done)
    ELSE flatcc_builder_table_add(B, a.id, bytes, a.align)
struct_field_add(B, a, bytes) ==
    flatcc_builder_table_add(B, a.id, bytes, a.align)
ref_field_add(B, a, ref) ==
    IF ref = 0 THEN Returns(B, Failed)
    ELSE flatcc_builder_table_add_offset(B, a.id, ref)

AddUnionValue(C, a, ref) ==
    And(C, flatcc_builder_table_add_offset(C, a.id, ref))
union_field_add(B, a, u) ==
    IF u[1] = 0 THEN Returns(B, Done)
    ELSE IF u[2] = 0 THEN Returns(B, Failed)
    ELSE AddUnionValue(flatcc_builder_table_add(B, a.id - 1, <<u[1]>>, 1), a, u[2])
union_field_add_type(B, a, type) ==
    IF type = 0 THEN Returns(B, Done)
    ELSE flatcc_builder_table_add(B, a.id, <<type>>, 1)
union_field_add_value(B, a, u) ==
    IF u[1] = 0 THEN Returns(B, Done)
    ELSE flatcc_builder_table_add_offset(B, a.id, u[2])

(* N_start and N_end; the required fields are only asserted. *)
N_start(B, N) == flatcc_builder_start_table(B, fields[N])
N_end(B, N) == flatcc_builder_end_table(B)
Required(N) == IF N \in DOMAIN required THEN required[N] ELSE << >>

EndTableOf(C, N) == And(C, N_end(C, N))

(* N_create: args are the arguments in the order of the formal ones, each  *)
(* the bytes of a value, a reference, or <<type, ref>>. The fields are     *)
(* added in another order, the type of a union from its value's argument.  *)
N_create(B, N, args) ==
    LET v(id) == args[CHOOSE k \in DOMAIN args : formal_args[N][k] = id]
        Added(C, a) ==
            CASE a.kind = "scalar" -> scalar_field_add(C, a, v(a.id))
              [] a.kind = "struct" -> struct_field_add(C, a, v(a.id))
              [] a.kind = "ref" -> ref_field_add(C, a, v(a.id))
              [] a.kind = "value" -> union_field_add_value(C, a, v(a.id))
              [] a.kind = "type" -> union_field_add_type(C, a, v(a.id + 1)[1])
    IN  EndTableOf(FoldLeft(LAMBDA X, a : And(X, Added(X, a)), N_start(B, N),
                            builder[N]), N)

-----------------------------------------------------------------------------
(* Clones: m is the source buffer, whose addresses stand for the pointers. *)
(* A string or vector is known by the address behind its length.           *)

memoize_begin(B, src) ==
    IF B.refmap.set THEN flatcc_refmap_find(B.refmap, src) ELSE 0
memoize_end(B, src) ==
    IF B.ret = Failed \/ ~B.refmap.set THEN B
    ELSE [B EXCEPT !.refmap = flatcc_refmap_insert(@, src, B.ret)]

(* Type_clone, MessageHeader_clone, SparseTensorIndex_clone with their     *)
(* _as_ functions: a type the code does not know becomes NONE.             *)
Type_clone(type) ==
    IF type \in DOMAIN Type_members THEN Type_members[type] ELSE "NONE"
MessageHeader_clone(type) ==
    IF type \in DOMAIN MessageHeader_members
    THEN MessageHeader_members[type] ELSE "NONE"
SparseTensorIndex_clone(type) ==
    IF type \in DOMAIN SparseTensorIndex_members
    THEN SparseTensorIndex_members[type] ELSE "NONE"
union_clone(U, type) ==
    CASE U = "Type" -> Type_clone(type)
      [] U = "MessageHeader" -> MessageHeader_clone(type)
      [] U = "SparseTensorIndex" -> SparseTensorIndex_clone(type)

(* An object that was cloned before is referred to again; otherwise C is   *)
(* the builder with its clone.                                             *)
Unless(B, hit, src, C) == IF hit # 0 THEN Returns(B, hit) ELSE memoize_end(C, src)
Memoized(B, src, C) == Unless(B, memoize_begin(B, src), src, C)

string_clone(B, m, p) ==
    Memoized(B, p + 4,
             flatcc_builder_create_string(B, BytesAt(m, p + 4,
                                                     read_uoffset(m, p))))

vec_clone(B, m, p, d) ==
    LET n == read_uoffset(m, p) IN
    Memoized(B, p + 4,
             flatcc_builder_create_vector(B, BytesAt(m, p + 4, n * d.size), n,
                                          d.align, CountMax(d.size)))

(* What is done with a clone: the last steps of the macros below. *)
PushClone(C) == And(C, flatcc_builder_offset_vector_push(C, C.ret))
EndClones(C) == And(C, flatcc_builder_end_offset_vector(C))
AddClone(C, a) == And(C, ref_field_add(C, a, C.ret))
AddUnionClone(C, a, U, member) == And(C, union_field_add(C, a, union_as(U, member, C.ret)))

RECURSIVE N_clone(_, _, _, _)

offset_vec_clone(B, m, p, N) ==
    LET Pushed(C, q) == PushClone(N_clone(C, m, N, q + read_uoffset(m, q))) IN
    Memoized(B, p + 4,
             EndClones(FoldLeft(LAMBDA X, i : And(X, Pushed(X, p + 4 * i)),
                                flatcc_builder_start_offset_vector(B),
                                [i \in 1 .. read_uoffset(m, p) |-> i])))

(* N_pick: a missing field is skipped; a default that is present is not. *)
PickUnion(B, m, t, d, a, member) ==
    IF member = "NONE" THEN Returns(B, Done)
    ELSE AddUnionClone(N_clone(B, m, member, offset_field(m, t, d.id)),
                       a, d.of, member)
PickReference(B, m, p, d, a) ==
    AddClone(CASE d.kind = "string" -> string_clone(B, m, p)
               [] d.kind = "vector" -> vec_clone(B, m, p, d)
               [] d.kind = "tables" -> offset_vec_clone(B, m, p, d.of)
               [] d.kind = "table" -> N_clone(B, m, d.of, p), a)
N_pick(B, m, t, d, a) ==
    IF d.kind = "union"
    THEN PickUnion(B, m, t, d, a,
                   union_clone(d.of, union_type_field(m, t, d.id - 1)))
    ELSE IF read_vt(m, t, d.id) = 0 THEN Returns(B, Done)
    ELSE IF d.kind \in {"scalar", "struct"}
    THEN flatcc_builder_table_add(B, a.id,
                                  BytesAt(m, t + read_vt(m, t, d.id), d.size),
                                  a.align)
    ELSE PickReference(B, m, offset_field(m, t, d.id), d, a)

N_clone(B, m, N, t) ==
    LET picks == SelectSeq(builder[N], LAMBDA a : a.kind # "type") IN
    Memoized(B, t,
             EndTableOf(FoldLeft(LAMBDA X, a :
                                    And(X, N_pick(X, m, t, reader[N][a.name], a)),
                                 N_start(B, N), picks), N))

=============================================================================
