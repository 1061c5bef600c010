---------------------------- MODULE FlatVerifier ----------------------------
(***************************************************************************)
(* The verifier of flatcc.c, interpreting the generated T_verify_table.    *)
(*                                                                         *)
(* A check returns "ok", "refused" (one of the flatcc_verify_error codes,  *)
(* which callers only compare with ok) or "stray" when the verifier itself *)
(* reads outside the buffer.  Offsets are uoffset_t and wrap.              *)
(***************************************************************************)
EXTENDS FlatBuffers

Verify(cond) == IF cond THEN "ok" ELSE "refused"

(* check_result: the next check only if this one passed. *)
Then(check, next) == IF check = "ok" THEN next ELSE check

(* A value that was just read, and what is verified of it. *)
Fetched(v, next) == IF v = Stray THEN "stray" ELSE next

(* The first of n checks of a loop that is not passed. *)
FirstFailed(checks, failed) ==
    IF failed = {} THEN "ok" ELSE checks[Min(failed)]
Every(checks) ==
    FirstFailed(checks, {i \in DOMAIN checks : checks[i] # "ok"})

check_header(end, base, offset) ==
    LET k == UOffset(base + offset) IN
    k > base /\ UOffset(k + 4) <= end /\ k % 4 = 0

check_aligned_header(end, base, offset, align) ==
    LET k == UOffset(base + offset) IN
    k > base /\ UOffset(k + 4) <= end
        /\ UOffset(k + 4) % (IF align < 4 THEN 4 ELSE align) = 0

verify_struct(end, base, offset, size, align) ==
    LET p == UOffset(base + offset) IN
    Verify(/\ offset # 0
           /\ p <= end
           /\ UOffset(p + size) >= p
           /\ UOffset(p + size) <= end
           /\ p % align = 0)

(* The plausible slip: the terminator is looked for one byte too far. *)
StringFitsUnterminated(m, end, k, n) ==
    Fetched(n, Verify(UOffset(end - (k + 4)) >= n))

StringFits(m, end, k, n) ==
    Fetched(n,
    Then(Verify(UOffset(end - (k + 4)) > n),
         IF Accessible(m, k + 4 + n, 1, 1)
         THEN Verify(m[k + 4 + n + 1] = 0) ELSE "stray"))
verify_string(m, end, base, offset) ==
    LET k == UOffset(base + offset) IN
    Then(Verify(check_header(end, base, offset)),
         StringFits(m, end, k, read_uoffset(m, k)))

VectorFits(end, k, n, size) ==
    Fetched(n,
    Then(Verify(n <= CountMax(size)),
         Verify(UOffset(end - (k + 4)) >= n * size)))
verify_vector(m, end, base, offset, size, align) ==
    LET k == UOffset(base + offset) IN
    Then(Verify(check_aligned_header(end, base, offset, align)),
         VectorFits(end, k, read_uoffset(m, k), size))

verify_string_vector(m, end, base, offset) ==
    LET k == UOffset(base + offset) IN
    Then(verify_vector(m, end, base, offset, 4, 4),
         Every([i \in 1 .. read_uoffset(m, k) |->
            Fetched(read_uoffset(m, k + 4 * i),
                    verify_string(m, end, k + 4 * i,
                                  read_uoffset(m, k + 4 * i)))]))

-----------------------------------------------------------------------------
(* A table: td is the descriptor that the generated verifiers are passed.  *)

read_vt_entry(m, td, id) ==
    LET vo == 2 * (id + 2) IN
    IF vo >= td.vsize THEN 0 ELSE read_voffset(m, td.vtable + vo)

FieldFits(td, vte, req, size, align) ==
    Fetched(vte,
        IF vte = 0 THEN Verify(~req)
        ELSE Verify(/\ vte + size <= td.tsize
                    /\ UOffset(td.table + vte) % align = 0))
verify_field(m, td, id, req, size, align) ==
    FieldFits(td, read_vt_entry(m, td, id), req, size, align)

(* base is where the offset is stored, 0 when the field is absent, which   *)
(* passes if it is not required; check_field ends the check there.         *)
get_offset_field(m, td, id, req) ==
    LET vte == read_vt_entry(m, td, id)
        base == UOffset(td.table + vte)
    IN  CASE vte = Stray -> [rc |-> "stray", base |-> 0]
          [] vte = 0 -> [rc |-> Verify(~req), base |-> 0]
          [] OTHER -> [rc |-> Verify(vte + 4 <= td.tsize /\ base % 4 = 0), base |-> base]
check_field(field, next) ==
    IF field.rc = "ok" /\ field.base # 0 THEN next ELSE field.rc

(* The generated union verifiers: an unknown type passes. *)
Type_union_verifier(type) ==
    IF type \in DOMAIN Type_members THEN {Type_members[type]} ELSE {}
SparseTensorIndex_union_verifier(type) ==
    IF type \in DOMAIN SparseTensorIndex_members
    THEN {SparseTensorIndex_members[type]} ELSE {}
MessageHeader_union_verifier(type) ==
    IF type \in DOMAIN MessageHeader_members
    THEN {MessageHeader_members[type]} ELSE {}
union_verifier(U, type) ==
    CASE U = "Type" -> Type_union_verifier(type)
      [] U = "SparseTensorIndex" -> SparseTensorIndex_union_verifier(type)
      [] U = "MessageHeader" -> MessageHeader_union_verifier(type)

RECURSIVE verify_table(_, _, _, _, _, _)

verify_table_vector(m, end, base, offset, ttl, N) ==
    LET k == UOffset(base + offset) IN
    Then(Verify(ttl > 0),
    Then(verify_vector(m, end, base, offset, 4, 4),
         Every([i \in 1 .. read_uoffset(m, k) |->
            Fetched(read_uoffset(m, k + 4 * i),
                    verify_table(m, end, k + 4 * i, read_uoffset(m, k + 4 * i),
                                 ttl - 1, N))])))

(* The value behind the type, both fields being there. *)
verify_union_value(m, td, id, req, U, type) ==
    LET field == get_offset_field(m, td, id, req)
        offset == read_uoffset(m, field.base)
    IN  check_field(field, Fetched(offset,
            IF union_verifier(U, type) = {} THEN "ok"
            ELSE verify_table(m, td.end, field.base, offset, td.ttl,
                              CHOOSE N \in union_verifier(U, type) : TRUE)))
UnionFits(m, td, id, req, U, vte_type, vte_table) ==
    LET type == m[td.table + vte_type + 1] IN
    Fetched(vte_type,
    Fetched(vte_table,
    IF vte_type = 0 THEN Verify(vte_table = 0 /\ ~req)
    ELSE Then(verify_field(m, td, id - 1, FALSE, 1, 1),
         IF ~Accessible(m, td.table + vte_type, 1, 1) THEN "stray"
         ELSE IF type = 0 THEN Verify(vte_table = 0)
         ELSE verify_union_value(m, td, id, req, U, type))))
verify_union_field(m, td, id, req, U) ==
    UnionFits(m, td, id, req, U, read_vt_entry(m, td, id - 1),
              read_vt_entry(m, td, id))

(* One flatcc_verify_..._field call of a generated verifier. *)
VerifyOffset(m, td, c, base, offset) ==
    CASE c.kind = "string" -> verify_string(m, td.end, base, offset)
      [] c.kind = "vector" -> verify_vector(m, td.end, base, offset, c.size, c.align)
      [] c.kind = "table" -> verify_table(m, td.end, base, offset, td.ttl, c.of)
      [] c.kind = "tables" -> verify_table_vector(m, td.end, base, offset, td.ttl, c.of)
VerifyCall(m, td, c) ==
    LET field == get_offset_field(m, td, c.id, c.required)
        offset == read_uoffset(m, field.base)
    IN  CASE c.kind = "field" -> verify_field(m, td, c.id, FALSE, c.size, c.align)
          [] c.kind = "union" -> verify_union_field(m, td, c.id, c.required, c.of)
          [] OTHER -> check_field(field,
                          Fetched(offset, VerifyOffset(m, td, c, field.base, offset)))

(* verify_table: first the table's header, then its vtable's two sizes. *)
VerifyFields(m, td, N) ==
    Then(Verify(UOffset(td.end - td.table) >= td.tsize),
         Every([i \in DOMAIN verifier[N] |-> VerifyCall(m, td, verifier[N][i])]))
VerifyVtable(m, end, ttl, table, vbase, vsize, tsize, N) ==
    Then(Verify(SOffset(vbase) >= 0 /\ vbase % 2 = 0 /\ UOffset(vbase + 2) <= end),
    Fetched(vsize,
    Then(Verify(UOffset(vbase + vsize) <= end /\ vsize % 2 = 0 /\ vsize >= 4),
    Fetched(tsize,
        VerifyFields(m, [end |-> end, ttl |-> ttl, table |-> table,
                         tsize |-> tsize, vtable |-> vbase, vsize |-> vsize],
                     N)))))
VerifyAt(m, end, ttl, table, s, N) ==
    LET vbase == UOffset(table - s) IN
    Fetched(s, VerifyVtable(m, end, ttl, table, vbase, read_voffset(m, vbase),
                            read_voffset(m, vbase + 2), N))
verify_table(m, end, base, offset, ttl, N) ==
    LET table == UOffset(base + offset) IN
    Then(Verify(ttl - 1 # 0 /\ check_header(end, base, offset)),
         VerifyAt(m, end, ttl - 1, table, read_uoffset(m, table), N))

-----------------------------------------------------------------------------
(* Roots.                                                                  *)

(* flatcc_verify_buffer_header: the check for the identifier is skipped    *)
(* for a null identifier, and one of zeroes accepts any buffer.            *)
verify_buffer_header(m, fid) ==
    Verify(/\ Len(m) <= UOffsetRange - 1 - 8
           /\ Len(m) >= 8
           /\ has_identifier(m, fid))

verify_struct_as_root(m, fid, size, align) ==
    Then(verify_buffer_header(m, fid),
         verify_struct(Len(m), 0, read_uoffset(m, 0), size, align))

verify_table_as_root(m, fid, N) ==
    Then(verify_buffer_header(m, fid),
         verify_table(m, Len(m), 0, read_uoffset(m, 0), MaxLevels, N))

=============================================================================
