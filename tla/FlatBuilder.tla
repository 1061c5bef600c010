----------------------------- MODULE FlatBuilder -----------------------------
(***************************************************************************)
(* The builder and the emitter of flatcc.c: a flatbuffer is built back to  *)
(* front.  Every object is emitted before the objects that refer to it, at *)
(* the address emit_start counts down to; the vtables of the top buffer    *)
(* are clustered behind address 0, where emit_end counts up.               *)
(*                                                                         *)
(* The builder B is a record.  An operation returns the next B with its    *)
(* result in ret: a reference, Done where the code only reports success,   *)
(* or Failed.  The stack of frames is B.frame; ds, vs and pl hold what the *)
(* code keeps at the top of its three stacks and a frame saves what the    *)
(* enclosing object had there, so allocation of the stacks is left out,    *)
(* as is max_level, whose default is no limit.                             *)
(***************************************************************************)
EXTENDS FlatBuffers

CONSTANT PageSize       \* FLATCC_EMITTER_PAGE_SIZE

ASSUME FlatBuilderAssumption == PageSize \in Nat /\ PageSize > 1

Failed == 0
Done == 1
NoIdentifier == <<0, 0, 0, 0>>

Zeros(n) == [i \in 1..n |-> 0]
get_min_align(a, b) == IF a < b THEN b ELSE a
alignup(x, align) == ((x + align - 1) \div align) * align

-----------------------------------------------------------------------------
(* The emitter: pages is the ring from front to back, spare the number of  *)
(* pages between back and front.  The front page is free below front_left, *)
(* the back page in its last back_left bytes.                              *)

(* What allocated memory holds. *)
Page == [i \in 1..PageSize |-> Radix - 1]

NewEmitter ==
    [pages |-> << >>, spare |-> 0, front_left |-> 0, back_left |-> 0,
     used |-> 0, used_average |-> 0, capacity |-> 0]

FirstPage(E) ==
    [E EXCEPT !.pages = <<Page>>, !.front_left = PageSize \div 2,
              !.back_left = PageSize - PageSize \div 2,
              !.capacity = @ + PageSize]
Allocated(E) ==
    IF E.spare > 0 THEN [E EXCEPT !.spare = @ - 1]
    ELSE [E EXCEPT !.capacity = @ + PageSize]

advance_front(E) ==
    IF E.pages = << >> THEN FirstPage(E)
    ELSE [Allocated(E) EXCEPT !.pages = <<Page>> \o @, !.front_left = PageSize]

advance_back(E) ==
    IF E.pages = << >> THEN FirstPage(E)
    ELSE [Allocated(E) EXCEPT !.pages = @ \o <<Page>>, !.back_left = PageSize]

(* memcpy into page p at offset o. *)
Copied(E, p, o, data) ==
    [E EXCEPT !.pages[p] = SubSeq(@, 1, o) \o data
                               \o SubSeq(@, o + Len(data) + 1, PageSize)]
PushFront(E, data) ==
    [Copied(E, 1, E.front_left - Len(data), data)
        EXCEPT !.front_left = @ - Len(data)]
PushBack(E, data) ==
    [Copied(E, Len(E.pages), PageSize - E.back_left, data)
        EXCEPT !.back_left = @ - Len(data)]

RECURSIVE copy_front(_, _)
copy_front(E, data) ==
    LET k == Min({Len(data), E.front_left}) IN
    IF data = << >> THEN E
    ELSE IF k = 0 THEN copy_front(advance_front(E), data)
    ELSE copy_front(PushFront(E, SubSeq(data, Len(data) - k + 1, Len(data))),
                    SubSeq(data, 1, Len(data) - k))

RECURSIVE copy_back(_, _)
copy_back(E, data) ==
    LET k == Min({Len(data), E.back_left}) IN
    IF data = << >> THEN E
    ELSE IF k = 0 THEN copy_back(advance_back(E), data)
    ELSE copy_back(PushBack(E, SubSeq(data, 1, k)),
                   SubSeq(data, k + 1, Len(data)))

(* The pieces of an iovec that does not fit are copied one by one, the     *)
(* last one first at the front.                                            *)
EmitFront(F, iov, data) ==
    IF Len(data) <= F.front_left THEN PushFront(F, data)
    ELSE FoldRight(LAMBDA piece, G : copy_front(G, piece), iov, F)
EmitBack(F, iov, data) ==
    IF Len(data) <= F.back_left THEN PushBack(F, data)
    ELSE FoldLeft(LAMBDA G, piece : copy_back(G, piece), F, iov)
Emitted(E, iov, data, offset) ==
    LET F == [E EXCEPT !.used = @ + Len(data)] IN
    IF offset < 0 THEN EmitFront(F, iov, data) ELSE EmitBack(F, iov, data)
flatcc_emitter(E, iov, offset) == Emitted(E, iov, FlattenSeq(iov), offset)

(* Pages beyond twice the average use are freed. *)
flatcc_emitter_reset(E) ==
    LET old == IF E.used_average = 0 THEN E.used ELSE E.used_average
        average == (old * 3) \div 4 + E.used \div 4
        others == E.spare + Len(E.pages) - 1
        excess == {n \in 0..others :
                      average * 2 >= E.capacity - n * PageSize \/ n = others}
    IN  IF E.pages = << >> THEN E
        ELSE [E EXCEPT !.pages = <<Head(@)>>,
                       !.front_left = PageSize \div 2,
                       !.back_left = PageSize - PageSize \div 2,
                       !.used_average = average, !.used = 0,
                       !.spare = others - Min(excess),
                       !.capacity = @ - PageSize * Min(excess)]

flatcc_emitter_copy_buffer(E, size) ==
    LET n == Len(E.pages) IN
    IF size < E.used \/ n = 0 THEN << >>
    ELSE IF n = 1 THEN SubSeq(E.pages[1], E.front_left + 1,
                              E.front_left + E.used)
    ELSE SubSeq(E.pages[1], E.front_left + 1, PageSize)
            \o FlattenSeq(SubSeq(E.pages, 2, n - 1))
            \o SubSeq(E.pages[n], 1, PageSize - E.back_left)

-----------------------------------------------------------------------------
(* The refmap: what a source object was cloned to.  A hash table with open *)
(* addressing in which source 0 marks a free bucket; the table is << >>    *)
(* before the first insertion and set says whether the builder has one.    *)

NoRefmap == [set |-> FALSE, table |-> << >>, count |-> 0]
MinBuckets == 8
Buckets(n) == [j \in 1..n |-> [src |-> 0, ref |-> 0]]

(* FLATCC_REFMAP_LOAD_FACTOR, in 256ths. *)
above_load_factor(count, buckets) == count >= (buckets * 179) \div 256

(* The bucket where linear probing ends; the hash is some function of src. *)
Probe(T, src) ==
    LET j(i) == ((src + i) % Len(T)) + 1 IN
    j(Min({i \in 0 .. Len(T) - 1 : T[j(i)].src \in {0, src}}))

StoreAt(R, j, src, ref) ==
    [R EXCEPT !.table[j] = [src |-> src, ref |-> ref],
              !.count = IF R.table[j].src = 0 THEN @ + 1 ELSE @]
Store(R, src, ref) == StoreAt(R, Probe(R.table, src), src, ref)

flatcc_refmap_resize(R, count) ==
    LET n == get_min_align(count, R.count)
        buckets == Min({b \in {MinBuckets * 2 ^ k : k \in 0..6} :
                            ~above_load_factor(n, b)})
        old == SelectSeq(R.table, LAMBDA item : item.src # 0)
    IN  IF Len(R.table) = buckets THEN R
        ELSE FoldLeft(LAMBDA S, item : Store(S, item.src, item.ref),
                      [R EXCEPT !.table = Buckets(buckets), !.count = 0], old)

flatcc_refmap_insert(R, src, ref) ==
    IF src = 0 THEN R
    ELSE Store(IF above_load_factor(R.count, Len(R.table))
               THEN flatcc_refmap_resize(R, R.count * 2) ELSE R, src, ref)

flatcc_refmap_find(R, src) ==
    IF R.count = 0 THEN 0
    ELSE LET item == R.table[Probe(R.table, src)]
         IN  IF item.src = src THEN item.ref ELSE 0

flatcc_refmap_reset(R) ==
    IF R.count = 0 THEN R
    ELSE [R EXCEPT !.table = Buckets(Len(@)), !.count = 0]

-----------------------------------------------------------------------------
(* The builder.                                                            *)

flatcc_builder_init ==
    [emitter |-> NewEmitter, emit_start |-> 0, emit_end |-> 0,
     min_align |-> 0, align |-> 0, block_align |-> 0,
     ds |-> << >>, vs |-> << >>, pl |-> << >>, id_end |-> 0, frame |-> << >>,
     nest_id |-> 0, nest_count |-> 0, buffer_mark |-> 0, buffer_flags |-> {},
     identifier |-> NoIdentifier, vd |-> {}, vb_end |-> 0,
     vb_flush_limit |-> 0, disable_vt_clustering |-> FALSE,
     refmap |-> NoRefmap, ret |-> Done]

(* The plausible slip: the vtables of the last buffer stay cached. *)
flatcc_builder_reset_keeps_cache(B) ==
    [B EXCEPT !.min_align = 0, !.emit_start = 0, !.emit_end = 0,
              !.frame = << >>, !.ds = << >>, !.vs = << >>, !.pl = << >>,
              !.nest_count = 0, !.nest_id = 0,
              !.emitter = flatcc_emitter_reset(@), !.refmap = flatcc_refmap_reset(@),
              !.ret = Done]

(* custom_reset with neither defaults nor smaller buffers: align, id_end,  *)
(* block_align, buffer_mark, buffer_flags and identifier survive.          *)
flatcc_builder_reset(B) ==
    [B EXCEPT !.vd = {}, !.vb_end = 0, !.min_align = 0,
              !.emit_start = 0, !.emit_end = 0, !.frame = << >>,
              !.ds = << >>, !.vs = << >>, !.pl = << >>,
              !.nest_count = 0, !.nest_id = 0,
              !.emitter = flatcc_emitter_reset(@), !.refmap = flatcc_refmap_reset(@),
              !.ret = Done]

Returns(B, x) == [B EXCEPT !.ret = x]
set_min_align(B, align) == [B EXCEPT !.min_align = get_min_align(@, align)]
is_top_buffer(B) == B.nest_id = 0

(* A frame holds what its object saved and its container. *)
enter_frame(B, align, type) ==
    [B EXCEPT
        !.frame = Append(@, [type |-> type, ds |-> B.ds, align |-> B.align,
                             vs |-> B.vs, pl |-> B.pl, id_end |-> B.id_end,
                             elem_size |-> 0, count |-> 0, max_count |-> 0,
                             block_align |-> B.block_align,
                             flags |-> B.buffer_flags,
                             mark |-> B.buffer_mark, nest_id |-> B.nest_id,
                             identifier |-> B.identifier]),
        !.align = align, !.ds = << >>, !.ret = Done]
Top(B) == Last(B.frame)

exit_frame(B) ==
    [set_min_align(B, B.align)
        EXCEPT !.ds = Top(B).ds, !.align = Top(B).align, !.frame = Front(@)]

(* An operation that failed leaves its frame open. *)
ExitUnlessFailed(B) == IF B.ret = Failed THEN B ELSE exit_frame(B)

(* & (align - 1) of a two's complement number is the remainder. *)
front_pad(B, size, align) == (B.emit_start - size) % align
back_pad(B, align) == B.emit_end % align

EmitAt(B, iov, ref) ==
    IF ref = B.emit_start THEN Returns(B, Failed)
    ELSE [B EXCEPT !.emitter = flatcc_emitter(@, iov, ref),
                   !.emit_start = ref, !.ret = ref]
emit_front(B, iov) ==
    EmitAt(B, iov, B.emit_start - Len(FlattenSeq(iov)))

(* Back references are one higher, for 0 is one of them. *)
emit_back(B, iov) ==
    LET len == Len(FlattenSeq(iov)) IN
    [B EXCEPT !.emitter = flatcc_emitter(@, iov, B.emit_end),
              !.emit_end = @ + len, !.ret = B.emit_end + 1]

-----------------------------------------------------------------------------
(* Buffers.                                                                *)

BlockAlign(B, block_align) ==
    IF block_align # 0 THEN block_align
    ELSE IF B.block_align # 0 THEN B.block_align ELSE 1

align_to_block(B, block_align, nested) ==
    LET end_pad == back_pad(B, BlockAlign(B, block_align)) IN
    IF nested \/ end_pad = 0 THEN B ELSE emit_back(B, <<Zeros(end_pad)>>)

(* The header of a buffer: its size, the root's offset, the identifier. *)
EmitHeader(C, fid, ref, flags, pad) ==
    LET base == C.emit_start - (4 + Len(fid) + pad)
        end == IF "is_nested" \in flags THEN C.buffer_mark ELSE C.emit_end
    IN  emit_front(C, (IF flags # {} THEN <<Bytes(UOffset(end - base), 4)>>
                       ELSE << >>)
                       \o <<Bytes(UOffset(ref - base), 4), fid, Zeros(pad)>>)

AddHeader(C, fid, ref, a, flags) ==
    EmitHeader(C, fid, ref, flags,
               front_pad(C, 4 + Len(fid) + (IF "with_size" \in flags
                                            THEN 4 ELSE 0), a))

flatcc_builder_create_buffer(B, id, block_align, ref, align, flags) ==
    LET a == get_min_align(get_min_align(align, 4), BlockAlign(B, block_align)) IN
    AddHeader(set_min_align(align_to_block(B, block_align,
                                           "is_nested" \in flags), a),
              IF id = NoIdentifier THEN << >> ELSE id, ref, a, flags)

flatcc_builder_start_buffer(B, id, block_align, flags) ==
    [enter_frame(B, B.min_align, "buffer")
        EXCEPT !.min_align = 1, !.block_align = block_align,
               !.buffer_flags = flags, !.buffer_mark = B.emit_start,
               !.nest_id = B.nest_count, !.nest_count = @ + 1,
               !.identifier = id]

(* The frame's block_align is not restored. *)
LeaveBuffer(D, f) ==
    IF D.ret = Failed THEN D
    ELSE exit_frame([D EXCEPT !.buffer_mark = f.mark, !.nest_id = f.nest_id,
                              !.identifier = f.identifier,
                              !.buffer_flags = f.flags])
flatcc_builder_end_buffer(B, root) ==
    LET C == set_min_align(B, B.block_align)
        flags == (B.buffer_flags \intersect {"with_size"})
                    \union (IF is_top_buffer(B) THEN {} ELSE {"is_nested"})
    IN  LeaveBuffer(flatcc_builder_create_buffer(C, B.identifier, B.block_align,
                                                 root, C.min_align, flags),
                    Top(B))

-----------------------------------------------------------------------------
(* Structs, strings and vectors.                                           *)

flatcc_builder_create_struct(B, data, align) ==
    LET C == set_min_align(B, align) IN
    emit_front(C, <<data, Zeros(front_pad(C, Len(data), align))>>)

flatcc_builder_start_struct(B, data, align) ==
    [enter_frame(B, align, "struct") EXCEPT !.ds = data]
flatcc_builder_end_struct(B) ==
    ExitUnlessFailed(flatcc_builder_create_struct(B, B.ds, B.align))

(* Strings are not counted in min_align. *)
flatcc_builder_create_string(B, s) ==
    LET pad == front_pad(B, Len(s) + 1, 4) + 1 IN
    IF Len(s) > CountMax(1) THEN Returns(B, Failed)
    ELSE emit_front(B, <<Bytes(Len(s), 4), s, Zeros(pad)>>)

flatcc_builder_start_string(B) == enter_frame(B, 1, "string")
flatcc_builder_end_string(B) ==
    ExitUnlessFailed(flatcc_builder_create_string(B, B.ds))

vector_count_add(B, count, max) ==
    LET i == Len(B.frame) IN
    IF Top(B).count + count > max THEN Returns(B, Failed)
    ELSE [B EXCEPT !.frame[i].count = @ + count, !.ret = Done]
Push(B, data) ==
    IF B.ret = Failed THEN B ELSE [B EXCEPT !.ds = @ \o data, !.ret = Done]
Truncate(B, count, size) ==
    LET i == Len(B.frame) IN
    IF Top(B).count < count THEN Returns(B, Failed)
    ELSE [B EXCEPT !.frame[i].count = @ - count,
                   !.ds = SubSeq(@, 1, Len(@) - count * size), !.ret = Done]

flatcc_builder_append_string(B, s) ==
    Push(vector_count_add(B, Len(s), CountMax(1)), s)
flatcc_builder_truncate_string(B, len) == Truncate(B, len, 1)

flatcc_builder_create_vector(B, data, count, align, max) ==
    LET a == get_min_align(align, 4)
        C == set_min_align(B, a)
    IN  IF count > max THEN Returns(B, Failed)
        ELSE emit_front(C, <<Bytes(count, 4), data,
                             Zeros(front_pad(C, Len(data), a))>>)

VectorOf(C, elem_size, max) ==
    LET i == Len(C.frame) IN
    [C EXCEPT !.frame[i].elem_size = elem_size, !.frame[i].max_count = max]
flatcc_builder_start_vector(B, elem_size, align, max) ==
    VectorOf(enter_frame(B, get_min_align(align, 4), "vector"), elem_size, max)
flatcc_builder_append_vector(B, elems) ==
    Push(vector_count_add(B, Len(elems), Top(B).max_count), FlattenSeq(elems))
flatcc_builder_extend_vector(B, count) ==
    Push(vector_count_add(B, count, Top(B).max_count),
         Zeros(count * Top(B).elem_size))

(* One more than the others let in. *)
flatcc_builder_vector_push(B, elem) ==
    LET i == Len(B.frame) IN
    IF Top(B).count > Top(B).max_count THEN Returns(B, Failed)
    ELSE Push([B EXCEPT !.frame[i].count = @ + 1, !.ret = Done], elem)
flatcc_builder_truncate_vector(B, count) == Truncate(B, count, Top(B).elem_size)
flatcc_builder_end_vector(B) ==
    ExitUnlessFailed(flatcc_builder_create_vector(B, B.ds, Top(B).count, B.align,
                                                  Top(B).max_count))

(* References become offsets from where they are stored; a null one is     *)
(* only asserted against.                                                  *)
EmitOffsets(C, vec, pad) ==
    LET base == C.emit_start - (4 + 4 * Len(vec) + pad)
        offsets == [i \in DOMAIN vec |-> IF vec[i] = 0 THEN Zeros(4)
                                       ELSE Bytes(UOffset(vec[i] - base - 4 * i), 4)]
    IN  IF Len(vec) > CountMax(4) THEN Returns(C, Failed)
        ELSE emit_front(C, <<Bytes(Len(vec), 4), FlattenSeq(offsets),
                             Zeros(pad)>>)
create_offset_vector_direct(B, vec) ==
    EmitOffsets(set_min_align(B, 4), vec, front_pad(B, 4 * Len(vec), 4))

(* The references on ds. *)
Refs(B) ==
    [i \in 1 .. Len(B.ds) \div 4 |-> SOffset(Number(BytesAt(B.ds, 4 * i - 4, 4)))]

flatcc_builder_start_offset_vector(B) ==
    VectorOf(enter_frame(B, 4, "offset_vector"), 4, 0)
flatcc_builder_offset_vector_push(B, ref) ==
    LET i == Len(B.frame) IN
    IF Top(B).count = CountMax(4) THEN Returns(B, Failed)
    ELSE Push([B EXCEPT !.frame[i].count = @ + 1, !.ret = Done],
              Bytes(UOffset(ref), 4))
flatcc_builder_append_offset_vector(B, refs) ==
    Push(vector_count_add(B, Len(refs), CountMax(4)),
         FlattenSeq([i \in DOMAIN refs |-> Bytes(UOffset(refs[i]), 4)]))
flatcc_builder_truncate_offset_vector(B, count) == Truncate(B, count, 4)
flatcc_builder_end_offset_vector(B) ==
    ExitUnlessFailed(create_offset_vector_direct(B, Refs(B)))
EndUnlessFailed(C) ==
    IF C.ret = Failed THEN C ELSE flatcc_builder_end_offset_vector(C)
flatcc_builder_create_offset_vector(B, refs) ==
    EndUnlessFailed(flatcc_builder_append_offset_vector(
                        flatcc_builder_start_offset_vector(B), refs))

-----------------------------------------------------------------------------
(* Tables.                                                                 *)

flatcc_builder_start_table(B, count) ==
    [enter_frame(B, 4, "table") EXCEPT !.vs = Zeros(count), !.pl = << >>,
                                       !.id_end = 0]

(* push_ds_field. *)
PushField(B, id, data, align) ==
    LET offset == alignup(Len(B.ds), align) IN
    [B EXCEPT !.ds = @ \o Zeros(offset - Len(@)) \o data,
              !.vs[id + 1] = offset + 4, !.id_end = get_min_align(@, id + 1),
              !.ret = Done]

flatcc_builder_table_add(B, id, data, align) ==
    LET C == [B EXCEPT !.align = get_min_align(@, align)] IN
    IF B.vs[id + 1] # 0 THEN Returns(C, Failed)
    ELSE PushField(C, id, data, align)

flatcc_builder_table_add_offset(B, id, ref) ==
    IF B.vs[id + 1] # 0 THEN Returns(B, Failed)
    ELSE [PushField(B, id, Bytes(UOffset(ref), 4), 4)
            EXCEPT !.pl = Append(@, alignup(Len(B.ds), 4))]

OneHigher(C) == Returns(C, C.ret + 1)
flatcc_builder_create_vtable(B, vt) ==
    LET iov == <<FlattenSeq([i \in DOMAIN vt |-> Bytes(vt[i], 2)])>> IN
    IF is_top_buffer(B) /\ ~B.disable_vt_clustering THEN emit_back(B, iov)
    ELSE OneHigher(emit_front(B, iov))

(* The cache is a hash table of descriptors; the vtables themselves are    *)
(* cached in vb, which is flushed at its limit with all descriptors.       *)
CacheVtable(C, vt, known) ==
    LET end == C.vb_end + 2 * Len(vt)
        new == [vt |-> vt, nest_id |-> C.nest_id, ref |-> C.ret]
    IN  IF known THEN [C EXCEPT !.vd = @ \union {new}]
        ELSE IF C.vb_flush_limit # 0 /\ C.vb_flush_limit < end
             THEN [C EXCEPT !.vd = {}, !.vb_end = 0]
        ELSE [C EXCEPT !.vd = @ \union {new}, !.vb_end = end]
flatcc_builder_create_cached_vtable(B, vt) ==
    LET same == {d \in B.vd : d.vt = vt}
        here == {d \in same : d.nest_id = B.nest_id}
    IN  IF here # {} THEN Returns(B, (CHOOSE d \in here : TRUE).ref)
        ELSE CacheVtable(flatcc_builder_create_vtable(B, vt), vt, same # {})

EmitTable(C, data, pad, base, offsets, vt_ref) ==
    LET at(o) == Bytes(UOffset(Number(BytesAt(data, o, 4)) - base - o - 4), 4)
        patched == [i \in DOMAIN data |->
            IF \E o \in Range(offsets) : i \in o + 1 .. o + 4
            THEN LET o == CHOOSE p \in Range(offsets) : i \in p + 1 .. p + 4
                 IN  at(o)[i - o]
            ELSE data[i]]
    IN  emit_front(C, <<Bytes(UOffset(base - (vt_ref - 1)), 4), patched,
                        Zeros(pad)>>)
flatcc_builder_create_table(B, data, align, offsets, vt_ref) ==
    LET a == get_min_align(align, 4)
        pad == front_pad(B, Len(data), a)
    IN  EmitTable(set_min_align(B, a), data, pad,
                  B.emit_start - (pad + Len(data) + 4), offsets, vt_ref)

(* Only an assertion asks for it. *)
flatcc_builder_check_required(B, ids) ==
    /\ B.id_end >= Len(ids)
    /\ \A i \in DOMAIN ids : B.vs[ids[i] + 1] # 0

LeaveTable(D, f) ==
    IF D.ret = Failed THEN D
    ELSE exit_frame([D EXCEPT !.id_end = f.id_end, !.vs = f.vs, !.pl = f.pl])
WriteTable(C, f) ==
    IF C.ret = Failed THEN C
    ELSE LeaveTable(flatcc_builder_create_table(C, C.ds, C.align, C.pl, C.ret), f)
flatcc_builder_end_table(B) ==
    WriteTable(flatcc_builder_create_cached_vtable(B,
                   <<2 * (B.id_end + 2), Len(B.ds) + 4>>
                       \o SubSeq(B.vs, 1, B.id_end)), Top(B))

flatcc_builder_finalize_buffer(B) ==
    flatcc_emitter_copy_buffer(B.emitter, B.emit_end - B.emit_start)

=============================================================================
