----------------------------- MODULE FlatBuffers -----------------------------
(***************************************************************************)
(* Reading and verifying a flatbuffer: the accessor macros that flatcc     *)
(* generated into nanoarrow_ipc.c and the verifier of flatcc.c, as         *)
(* operators over a buffer, a sequence of bytes whose first byte has       *)
(* address 0 and is aligned (nanoarrow copies the header of a message to   *)
(* allocated memory and the flatbuffer starts at its eighth byte).         *)
(*                                                                         *)
(* Sizes, alignments and field identifiers are the ones of the code; only  *)
(* the byte is smaller: it has Radix values, so a uoffset_t of four bytes  *)
(* wraps at Radix^4 and a voffset_t at Radix^2.                            *)
(*                                                                         *)
(* An access outside the buffer, or one that is not aligned, is Stray.     *)
(* The accessors check nothing, so every access is guarded here and shows  *)
(* up in the result; the verifier has to refuse before it strays.          *)
(***************************************************************************)
EXTENDS ArrowTables, SequencesExt, FiniteSetsExt

CONSTANTS
    Radix,          \* values of a byte
    MaxLevels       \* FLATCC_VERIFIER_MAX_LEVELS

ASSUME FlatBuffersAssumption == Radix \in 2..64 /\ MaxLevels \in Nat \ {0}

UOffsetRange == Radix ^ 4
VOffsetRange == Radix ^ 2

(* flatbuffers_uoffset_t and soffset_t arithmetic. *)
UOffset(x) == x % UOffsetRange
SOffset(x) == IF x < UOffsetRange \div 2 THEN x ELSE x - UOffsetRange

(* The largest count a vector of elements of that size may have. *)
CountMax(size) == (UOffsetRange - 1) \div size

Stray == -1

(* __flatbuffers_..._read_from_pe and _write_to_pe: little endian. *)
Bytes(v, n) == [i \in 1..n |-> (v \div Radix ^ (IF i > 4 THEN 4 ELSE i - 1)) % Radix]
Number(b) ==
    b[1] + Radix * b[2] + (IF Len(b) = 2 THEN 0
                           ELSE Radix ^ 2 * b[3] + Radix ^ 3 * b[4])

Accessible(m, p, n, align) == p >= 0 /\ p + n <= Len(m) /\ p % align = 0
BytesAt(m, p, n) == SubSeq(m, p + 1, p + n)

read_uoffset(m, p) ==
    IF Accessible(m, p, 4, 4) THEN Number(BytesAt(m, p, 4)) ELSE Stray
read_voffset(m, p) ==
    IF Accessible(m, p, 2, 2) THEN Number(BytesAt(m, p, 2)) ELSE Stray

-----------------------------------------------------------------------------
(* Accessors.                                                              *)

(* __flatbuffers_read_vt: the offset of a field in its table, 0 if the     *)
(* vtable is too short to have it.                                         *)
vt_entry(m, vt, vsize, id) ==
    IF vsize = Stray THEN Stray
    ELSE IF vsize >= 2 * (id + 3) THEN read_voffset(m, vt + 2 * (id + 2)) ELSE 0
vtable_entry(m, t, s, id) ==
    LET vt == t - SOffset(s) IN
    IF s = Stray THEN Stray ELSE vt_entry(m, vt, read_voffset(m, vt), id)
read_vt(m, t, id) == vtable_entry(m, t, read_uoffset(m, t), id)

(* A value of a table as its reader sees it. *)
None == <<"none">>
Lost == <<"stray">>

(* The bytes at offset o of the table, or what is read without a field. *)
inline_field(m, t, o, d, default) ==
    IF o = Stray THEN Lost
    ELSE IF o = 0 THEN default
    ELSE IF Accessible(m, t + o, d.size, d.align)
         THEN <<d.kind, BytesAt(m, t + o, d.size)>> ELSE Lost
scalar_field(m, t, d) ==
    inline_field(m, t, read_vt(m, t, d.id), d,
                 <<"scalar", Bytes(d.default, d.size)>>)
struct_field(m, t, d) == inline_field(m, t, read_vt(m, t, d.id), d, None)

(* Where an offset field points to: 0 if the field is absent. *)
follow(p, u) == IF u = Stray THEN Stray ELSE p + u
offset_at(m, t, o) ==
    IF o \in {0, Stray} THEN o ELSE follow(t + o, read_uoffset(m, t + o))
offset_field(m, t, id) == offset_at(m, t, read_vt(m, t, id))

(* _vec_len, _vec_at for strings, scalars and structs: the elements. *)
elements(m, p, n, size, align) ==
    IF n = Stray \/ n > Len(m) \/ ~Accessible(m, p + 4, n * size, align)
    THEN Lost
    ELSE <<"vector", [i \in 1..n |-> BytesAt(m, p + 4 + (i - 1) * size, size)]>>
vector_at(m, p, size, align) == elements(m, p, read_uoffset(m, p), size, align)

(* A string is read up to its terminator as well. *)
characters(m, p, n) ==
    IF n = Stray \/ n > Len(m) \/ ~Accessible(m, p + 4, n + 1, 1) THEN Lost
    ELSE IF m[p + 4 + n + 1] # 0 THEN Lost
    ELSE <<"string", BytesAt(m, p + 4, n)>>
string_at(m, p) == characters(m, p, read_uoffset(m, p))

type_at(m, t, o) ==
    IF o \in {0, Stray} THEN o
    ELSE IF Accessible(m, t + o, 1, 1) THEN m[t + o + 1] ELSE Stray
union_type_field(m, t, id) == type_at(m, t, read_vt(m, t, id))

RECURSIVE ReadTable(_, _, _)
ReadTables(m, p, n, N) ==
    LET elem(i) == follow(p + 4 * i, read_uoffset(m, p + 4 * i)) IN
    IF n = Stray \/ n > Len(m) THEN Lost
    ELSE IF \E i \in 1..n : elem(i) = Stray THEN Lost
    ELSE <<"tables", [i \in 1..n |-> ReadTable(m, N, elem(i))]>>

(* What the offset field d refers to at p. *)
ReadReference(m, p, d) ==
    CASE p = Stray -> Lost
      [] p = 0 -> None
      [] p > 0 /\ d.kind = "string" -> string_at(m, p)
      [] p > 0 /\ d.kind = "vector" -> vector_at(m, p, d.size, d.align)
      [] p > 0 /\ d.kind = "table" -> ReadTable(m, d.of, p)
      [] p > 0 /\ d.kind = "tables" ->
            ReadTables(m, p, read_uoffset(m, p), d.of)
ReadUnion(m, p, type, U) ==
    IF type = Stray \/ p = Stray THEN Lost
    ELSE IF type = 0 THEN <<"union", 0, None>>
    ELSE IF p = 0 \/ type > Len(members[U]) THEN <<"union", type, None>>
    ELSE <<"union", type, ReadTable(m, members[U][type], p)>>
ReadField(m, t, d) ==
    CASE d.kind = "scalar" -> scalar_field(m, t, d)
      [] d.kind = "struct" -> struct_field(m, t, d)
      [] d.kind = "union" ->
            ReadUnion(m, offset_field(m, t, d.id),
                      union_type_field(m, t, d.id - 1), d.of)
      [] OTHER -> ReadReference(m, offset_field(m, t, d.id), d)

ReadTable(m, N, t) ==
    IF ~Accessible(m, t, 4, 4) THEN Lost
    ELSE <<"table", N, [f \in DOMAIN reader[N] |->
                            ReadField(m, t, reader[N][f])]>>

(* flatbuffers_has_identifier and N_as_root_with_identifier: a zero        *)
(* identifier accepts any buffer.                                          *)
has_identifier(m, fid) == fid = <<0, 0, 0, 0>> \/ BytesAt(m, 4, 4) = fid
ReadRoot(m, N, fid) ==
    IF ~has_identifier(m, fid) THEN None
    ELSE ReadTable(m, N, read_uoffset(m, 0))
ReadStructRoot(m, size, align, fid) ==
    LET p == read_uoffset(m, 0) IN
    IF ~has_identifier(m, fid) THEN None
    ELSE IF Accessible(m, p, size, align) THEN <<"struct", BytesAt(m, p, size)>>
    ELSE Lost

(* No access behind this value was stray. *)
RECURSIVE Whole(_)
Whole(v) ==
    CASE v[1] = "stray" -> FALSE
      [] v[1] = "table" -> \A f \in DOMAIN v[3] : Whole(v[3][f])
      [] v[1] = "tables" -> \A i \in DOMAIN v[2] : Whole(v[2][i])
      [] v[1] = "union" -> Whole(v[3])
      [] OTHER -> TRUE

(* How deep this value nests, in tables and vectors of tables. *)
RECURSIVE Levels(_)
Levels(v) ==
    CASE v[1] = "table" ->
            1 + Max({0} \union {Levels(v[3][f]) : f \in DOMAIN v[3]})
      [] v[1] = "tables" /\ v[2] # << >> ->
            1 + Max({Levels(v[2][i]) : i \in DOMAIN v[2]})
      [] v[1] = "union" -> Levels(v[3])
      [] OTHER -> 0

=============================================================================
