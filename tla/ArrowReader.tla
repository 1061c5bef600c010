----------------------------- MODULE ArrowReader -----------------------------
(***************************************************************************)
(* Opening a chunk of a result in Arrow format: the IPC stream reader       *)
(* (nanoarrow_ipc.c, hand-written part) driven by the constructor of        *)
(* CArrowIterator, then the rows of CArrowChunkIterator or the table of     *)
(* CArrowTableIterator, and the reference counts of the message bodies      *)
(* that the decoded arrays share.                                           *)
(*                                                                         *)
(* A stream is a sequence of messages, cut after `size` bytes.  Of a        *)
(* message the model keeps its sizes in bytes, what the decoder tests and   *)
(* where its buffers lie in the body; starts gives the offset of each.      *)
(***************************************************************************)
EXTENDS IpcDecoder, FiniteSets, FiniteSetsExt

CONSTANTS
    Streams,     \* the inputs: records [msgs, starts, size, known]
    Fails        \* the allocations that may fail

Prefix == 8      \* kMessageHeaderPrefixSize

\* What ArrowIpcDecoderSetSchema computes for each schema of the inputs, and
\* the walk of a batch that follows it.
Layouts ==
    [root \in {s.msgs[1].root : s \in Streams} |->
        [private |-> SetSchema(root), seen |-> DecodeArrayView(SetSchema(root), -1)]]

\* Bytes of message m: prefix, flatbuffer header and body.
MessageSize(m) == Prefix + m.header + Len(m.body)

\* The messages of an input follow each other from the first byte on, and the
\* input ends at the last of them or before.  A prefix that says that no header
\* follows is one that no header follows, and a schema has no body.
ASSUME StreamsAssumption ==
    \A s \in Streams :
        LET n == Len(s.msgs)
            end(i) == s.starts[i] + MessageSize(s.msgs[i])
        IN /\ n \in Nat \ {0} /\ DOMAIN s.msgs = 1..n
           /\ \A i \in 1..n :
                 /\ s.msgs[i].header \in Nat /\ Len(s.msgs[i].body) \in Nat /\ s.msgs[i].rows \in Nat
                 /\ \A order \in {"little", "big"} :
                       ReadHeaderPrefix(s.msgs[i].prefix, order) = "ENODATA" <=> s.msgs[i].header = 0
           /\ s.msgs[1].type = "schema" => s.msgs[1].body = <<>>
           /\ s.starts[1] = 0 /\ \A i \in 1..n : s.starts[i] \in Nat
           /\ \A i, j \in 1..n : i < j => end(i) <= s.starts[j]
           /\ \A i \in 1..n : i < n => s.starts[i + 1] = end(i)
           /\ s.size \in 0..end(n)

\* The walk is a sequence of buffers.
ASSUME WalkAssumption ==
    \A root \in DOMAIN Layouts :
        Layouts[root].seen \in Seq([node : Nat, buffer : Nat, type : STRING, bits : Nat])

VARIABLES
    stream,      \* the input, constant after Init
    system,      \* system_endianness: the byte order of the machine
    mode,        \* "row" (tuples or dicts) or "table"
    sharing,     \* use_shared_buffers: whether the build has C11 atomics
    pc,          \* the step the constructor or the iterator is at
    rc,          \* the ArrowErrorCode of the last step
    cursor,      \* cursor_bytes of the input buffer
    decoder,     \* ArrowIpcDecoder: [message_type, last_message, codec, endianness]
    private,     \* ArrowIpcDecoderPrivate: what ArrowIpcDecoderSetSchema computed
    seen,        \* the walk of a whole batch over it
    schema,      \* whether out_schema is set
    opened,      \* whether the array stream holds its private data
    body,        \* the body in private_data->body; 0: no memory
    shared,      \* the body of the local ArrowIpcSharedBuffer
    refs,        \* reference_count of each body that is shared
    live,        \* the bodies whose memory is allocated
    scratch,     \* per buffer: the body its scratch ArrowBuffer refers to
    tmp,         \* the array being decoded: NoArray or [msg, rows, bufs]
    arrays,      \* m_ipcArrowArrayVec
    views,       \* length of m_ipcArrowArrayViewVec
    pyerr,       \* whether a Python error is set or was reported
    batchIndex, rowIndex, rowCount,   \* members of CArrowChunkIterator
    rows,        \* the rows returned to Python, as <<batch, row>>
    converted,   \* table: the columns that have a new array, as <<batch, column>>
    dropped,     \* history: an array was released when its building failed
    lost,        \* history: the bodies with a reference that nobody holds
    owner        \* who releases the arrays: "iterator", "pyarrow" or "none"

walk   == <<private, seen>>
reader == <<cursor, decoder, walk, schema, opened, body, shared, scratch, tmp>>
memory == <<refs, live, lost>>
iter   == <<batchIndex, rowIndex, rowCount, rows, converted, owner, dropped>>
input  == <<stream, system, mode, sharing>>
vars   == <<input, pc, rc, reader, memory, arrays, views, pyerr, iter>>

NoArray == [msg |-> 0, rows |-> 0, bufs |-> <<>>]

\* ArrowIpcDecoderResetHeaderInfo: what does not outlive a message.
ResetHeaderInfo(d) == [d EXCEPT !.message_type = "none", !.last_message = 0, !.codec = "none"]

Msgs == stream.msgs
Here == Msgs[decoder.last_message]

Root == Msgs[1].root

\* The first node of the column c of a table with these columns, and the
\* buffers of the column c.
FirstNode(children, c) == FoldLeft(LAMBDA n, f : n + CountFields[f], 0, SubSeq(children, 1, c - 1))
OfColumn(c) ==
    LET first == FirstNode(Root.children, c)
    IN {k \in DOMAIN seen : seen[k].node \in first..(first + CountFields[Root.children[c]] - 1)}

May(point) == point \in Fails

Init ==
    /\ stream \in Streams
    /\ system \in {"little", "big"}
    /\ mode \in {"row", "table"}
    /\ sharing \in BOOLEAN
    /\ pc = "open" /\ rc = "OK"
    /\ cursor = 0 /\ schema = FALSE /\ opened = FALSE
    /\ decoder = [message_type |-> "none", last_message |-> 0, codec |-> "none",
                  endianness |-> "uninitialized"]
    /\ body = 0 /\ shared = 0 /\ tmp = NoArray /\ lost = {}
    /\ refs = [i \in DOMAIN stream.msgs |-> 0] /\ live = {}
    /\ private = [n_fields |-> 0, fields |-> <<>>, n_buffers |-> 0] /\ seen = <<>> /\ scratch = <<>>
    /\ arrays = <<>> /\ views = 0 /\ pyerr = FALSE
    /\ batchIndex = -1 /\ rowIndex = -1 /\ rowCount = 0
    /\ rows = <<>> /\ converted = {} /\ owner = "iterator" /\ dropped = FALSE

-----------------------------------------------------------------------------
(* Reference counts.  A step drops references one after the other; what     *)
(* reaches zero is freed.                                                   *)

CountedEarly(held, taken) ==
    LET n(b) == refs[b] + Cardinality({h \in taken : h[2] = b})
                        - Cardinality({h \in held : h[2] = b})
    IN /\ refs' = [b \in DOMAIN refs |-> n(b)]
       /\ live' = live \ {b \in DOMAIN refs : n(b) <= 1 /\ \E h \in held : h[2] = b}
       /\ UNCHANGED lost

\* ArrowIpcSharedBufferFree for every reference in the set `held` of
\* <<holder, body>> pairs, after the references in `taken` were added.
Counted(held, taken) ==
    LET n(b) == refs[b] + Cardinality({h \in taken : h[2] = b})
                        - Cardinality({h \in held : h[2] = b})
        gone == {h[2] : h \in held} \ {0}
    IN /\ refs' = [b \in DOMAIN refs |-> n(b)]
       /\ live' = live \ {b \in gone : n(b) = 0}
       /\ UNCHANGED lost

Handle == <<"shared", 0, 0>>
ScratchRefs == {<<<<"scratch", 0, k>>, scratch[k]>> : k \in {j \in DOMAIN scratch : scratch[j] # 0}}
RefsOf(a, tag, i) == {<<<<tag, i, k>>, a.bufs[k]>> : k \in {j \in DOMAIN a.bufs : a.bufs[j] # 0}}
ArrayRefs == UNION {RefsOf(arrays[i], "array", i) : i \in DOMAIN arrays}

-----------------------------------------------------------------------------
(* The input stream and the message header.                                 *)

\* ArrowIpcInputStreamBufferRead: the bytes that a read of n at c returns.
BytesRead(c, n) == Min({n, stream.size - c})

\* The message that starts at the cursor.
MessageAt(c) == CHOOSE i \in DOMAIN Msgs : stream.starts[i] = c
AtMessage(c) == \E i \in DOMAIN Msgs : stream.starts[i] = c

\* ArrowIpcDecoderPeekHeader on the prefix of message m.
PeekHeader(m) == ReadHeaderPrefix(m.prefix, system)

VerifyHeaderUnchecked(m, got) == IF m.verified THEN "OK" ELSE "EINVAL"

\* ArrowIpcDecoderVerifyHeader: `got` bytes of the header were read.
VerifyHeader(m, got) ==
    CASE got < m.header -> "ESPIPE"
      [] ~m.verified    -> "EINVAL"
      [] OTHER          -> "OK"

\* ArrowIpcDecoderDecodeSchemaHeader and ...DecodeRecordBatchHeader.  The
\* switch on the metadata version reads a field that was just reset, so it
\* never rejects a version.
DecodeHeader(m) ==
    CASE m.type = "schema" /\ m.endianness = "unknown"  -> "EINVAL"
      [] m.type = "schema" /\ "unknown" \in m.features  -> "EINVAL"
      [] m.type = "batch" /\ ~CountsMatch(private, m.nodes, Len(m.buffers)) -> "EINVAL"
      [] m.type = "batch" /\ m.codec = "unknown"        -> "EINVAL"
      [] OTHER                                          -> "OK"

\* ArrowIpcArrayStreamReaderNextHeader(wanted): its result code, the bytes it
\* consumed and the decoder's state after it.
NextHeader(wanted) ==
    LET got8 == BytesRead(cursor, Prefix)
        i    == IF AtMessage(cursor) THEN MessageAt(cursor) ELSE 0
        m    == Msgs[i]
        got  == BytesRead(cursor + Prefix, m.header)
        verd == VerifyHeader(m, got)
        code == IF m.type = wanted THEN DecodeHeader(m) ELSE "OK"
        none == [code |-> "OK", bytes |-> got8, dec |-> ResetHeaderInfo(decoder)]
    IN CASE got8 = 0      -> [none EXCEPT !.code = "ENODATA"]
         [] got8 \notin {0, Prefix} -> [none EXCEPT !.code = "EINVAL"]
         [] got8 = Prefix /\ PeekHeader(m) # "OK" ->
                [none EXCEPT !.code = PeekHeader(m)]
         [] got8 = Prefix /\ PeekHeader(m) = "OK" /\ verd # "OK" ->
                [none EXCEPT !.code = verd, !.bytes = Prefix + got]
         [] OTHER ->
                [code |-> code, bytes |-> Prefix + got,
                 dec |-> [message_type |-> m.type,
                          last_message |-> i,
                          codec |-> m.codec,
                          endianness |-> decoder.endianness]]

-----------------------------------------------------------------------------
(* The constructor of CArrowIterator.                                       *)

\* ArrowIpcDecoderReset: the array with the scratch buffers is released.
DecoderReset(freed) ==
    LET n(b) == refs[b] - Cardinality({h \in ScratchRefs : h[2] = b})
    IN /\ scratch' = [k \in DOMAIN scratch |-> 0]
       /\ refs' = [b \in DOMAIN refs |-> n(b)]
       /\ live' = live \ (freed \cup {h[2] : h \in {d \in ScratchRefs : n(d[2]) = 0}})
       /\ UNCHANGED lost

\* SF_CHECK_ARROW_RC_AND_RELEASE_ARROW_STREAM on an error, and the
\* stream.release at the end of the constructor:
\* ArrowIpcArrayStreamReaderRelease.
ReleaseStream(next) ==
    /\ pc' = next
    /\ opened' = FALSE /\ schema' = FALSE /\ body' = 0
    /\ DecoderReset({body})
    /\ UNCHANGED <<cursor, decoder, walk, shared, tmp>>

Fail(code) ==
    /\ rc' = code /\ pyerr' = TRUE
    /\ ReleaseStream("failed")
    /\ UNCHANGED <<arrays, views>>

\* ArrowBufferAppend, ArrowIpcInputStreamInitBuffer: an error is set and the
\* constructor returns; there is no stream to release yet.
OpenFails ==
    /\ pc = "open" /\ May("input")
    /\ rc' = "ENOMEM" /\ pyerr' = TRUE /\ pc' = "failed"
    /\ UNCHANGED <<input, reader, memory, arrays, views, iter>>

\* ArrowIpcArrayStreamReaderInit.  When it fails, the macro reads and
\* releases a stream that nobody initialised.
ReaderInit ==
    /\ pc = "open"
    /\ \/ pc' = "schema" /\ opened' = TRUE /\ UNCHANGED <<rc, pyerr>>
       \/ May("reader") /\ pc' = "undefined" /\ rc' = "ENOMEM" /\ pyerr' = TRUE /\ UNCHANGED opened
    /\ UNCHANGED <<input, cursor, decoder, walk, schema, body, shared, scratch, tmp,
                   memory, arrays, views, iter>>

\* ArrowIpcDecoderSetEndianness: the order of the batches to come.
SetEndianness(d, endianness) ==
    IF endianness \in {"uninitialized", "little", "big"} THEN [d EXCEPT !.endianness = endianness] ELSE d

\* ArrowIpcArrayStreamReaderReadSchemaIfNeeded, as GetSchema calls it, and the
\* deep copy of the schema.
ReadSchema ==
    /\ pc = "schema"
    /\ LET h == NextHeader("schema")
           m == Msgs[h.dec.last_message]
           code == CASE h.code # "OK"         -> h.code
                     [] h.dec.message_type # "schema" -> "EINVAL"
                     [] m.features # {}       -> "EINVAL"
                     [] ~m.valid              -> "EINVAL"  \* DecodeSchema, SetSchema
                     [] OTHER                 -> "OK"
       IN \/ /\ code = "OK"
             /\ schema' = TRUE
             /\ private' = Layouts[m.root].private
             /\ seen' = Layouts[m.root].seen
             /\ scratch' = [k \in DOMAIN Layouts[m.root].seen |-> 0]
             /\ cursor' = cursor + h.bytes
             /\ decoder' = SetEndianness(h.dec, m.endianness)
             /\ pc' = "header" /\ rc' = "OK"
             /\ UNCHANGED <<opened, body, shared, tmp, memory, arrays, views, pyerr>>
          \/ code # "OK" /\ Fail(code)
          \/ code = "OK" /\ May("schema") /\ Fail("ENOMEM")
    /\ UNCHANGED <<input, iter>>

\* GetNext up to the test of the message type.  ENODATA ends the loop of the
\* constructor without an error.
ReadBatchHeader ==
    /\ pc = "header"
    /\ LET h == NextHeader("batch")
           code == IF h.code = "OK" /\ h.dec.message_type # "batch" THEN "EINVAL" ELSE h.code
       IN \/ /\ code = "OK"
             /\ cursor' = cursor + h.bytes /\ decoder' = h.dec
             /\ pc' = "body" /\ rc' = "OK"
             /\ UNCHANGED <<walk, schema, opened, body, shared, scratch, tmp, memory, arrays, views, pyerr>>
          \/ /\ code = "ENODATA"
             /\ rc' = "OK"
             /\ ReleaseStream("opened")
             /\ UNCHANGED <<arrays, views, pyerr>>
          \/ code \notin {"OK", "ENODATA"} /\ Fail(code)
          \/ May("header") /\ Fail("ENOMEM")
    /\ UNCHANGED <<input, iter>>

\* ArrowIpcArrayStreamReaderNextBody.  Without sharing the buffer of the
\* first body is used again for the next ones.
ReadBody ==
    /\ pc = "body"
    /\ LET want == Len(Here.body)
           got  == BytesRead(cursor, want)
       IN \/ /\ got = want
             /\ cursor' = cursor + got
             /\ LET new == IF want > 0 /\ body = 0 THEN decoder.last_message ELSE body
                IN body' = new /\ live' = live \cup ({new} \ {0})
             /\ pc' = "decode" /\ rc' = "OK"
             /\ UNCHANGED <<decoder, walk, schema, opened, shared, scratch, tmp, refs, lost, arrays, views, pyerr>>
          \/ got # want /\ Fail("ESPIPE")
          \/ want > 0 /\ body = 0 /\ May("body") /\ Fail("ENOMEM")
    /\ UNCHANGED <<input, iter>>

Swapping == NeedsSwapEndian(decoder.endianness, system)

\* ArrowIpcDecoderMakeBuffer up to the call of the factory: whether it refuses
\* the buffer b.
RefusesBuffer(b) ==
    CASE b.length = 0                                         -> "OK"
      [] b.offset < 0 \/ b.offset + b.length > Len(Here.body) -> "EINVAL"
      [] decoder.codec # "none"                               -> "ENOTSUP"
      [] OTHER                                                -> "OK"

\* The whole of it, for the buffer v of the walk.
MakeBuffer(b, v) ==
    IF RefusesBuffer(b) # "OK" \/ b.length = 0 \/ ~Swapping THEN RefusesBuffer(b) ELSE SwapCode(v)

\* The buffer is copied to swap its bytes.
Copied(b, v) == Swapping /\ b.length # 0 /\ v.type \notin Unswapped

\* ArrowIpcSharedBufferInit, then ArrowIpcDecoderWalkSetArrayView, which ends
\* with `code` at buffer `stop`: each scratch buffer drops what it held and, if
\* the buffer and the body are not empty, ArrowIpcMakeBufferFromShared takes a
\* reference.  A copy drops it again, unless the copy fails.
SetViews(bs, stop, code) ==
    LET held(k)  == k < stop \/ code = "OK"
        takes(k) == sharing /\ body # 0 /\ held(k) /\ bs[k].length # 0 /\ ~Copied(bs[k], seen[k])
        leaks    == sharing /\ body # 0 /\ ~held(stop) /\ RefusesBuffer(bs[stop]) = "OK"
        taken    == {<<<<"scratch", 0, k>>, body>> : k \in {j \in 1..stop : takes(j)}}
                      \cup (IF sharing /\ body # 0 THEN {<<Handle, body>>} ELSE {})
                      \cup (IF leaks THEN {<<<<"lost", 0, stop>>, body>>} ELSE {})
        dropping == {h \in ScratchRefs : h[1][3] <= stop}
        n(b)     == refs[b] + Cardinality({h \in taken : h[2] = b})
                            - Cardinality({h \in dropping : h[2] = b})
    IN /\ scratch' = [k \in DOMAIN scratch |->
                         IF k > stop THEN scratch[k] ELSE IF takes(k) THEN body ELSE 0]
       /\ refs' = [b \in DOMAIN refs |-> n(b)]
       /\ live' = live \ {h[2] : h \in {d \in dropping : n(d[2]) = 0}}
       /\ lost' = IF leaks THEN lost \cup {body} ELSE lost
       /\ shared' = IF sharing THEN body ELSE 0
       /\ body' = IF sharing THEN 0 ELSE body
       /\ rc' = code
       /\ pc' = IF code = "OK" THEN "validate" ELSE "unshare"

\* ArrowIpcDecoderDecodeArray or ...FromShared up to the array view.
SetArrayView ==
    /\ pc = "decode"
    /\ LET bs  == [k \in DOMAIN seen |-> Here.buffers[seen[k].buffer + 1]]
           bad == {k \in DOMAIN bs : MakeBuffer(bs[k], seen[k]) # "OK"}
       IN \/ bad = {} /\ SetViews(bs, Len(seen), "OK")
          \/ bad # {} /\ SetViews(bs, Min(bad), MakeBuffer(bs[Min(bad)], seen[Min(bad)]))
          \/ /\ May("swap")
             /\ \E k \in {j \in DOMAIN bs : Copied(bs[j], seen[j])} :
                   /\ \A j \in 1..k : j \notin bad
                   /\ SetViews(bs, k, "ENOMEM")
    /\ UNCHANGED <<input, cursor, decoder, walk, schema, opened, tmp, arrays, views,
                   pyerr, iter>>

\* ArrowIpcSharedBufferInit has no memory for the reference count.
ShareFails ==
    /\ pc = "decode" /\ sharing /\ body # 0 /\ May("share")
    /\ Fail("ENOMEM")
    /\ UNCHANGED <<input, iter>>

\* The bytes the buffer v of an array shows: those of the body, or their
\* swapped copy.
ViewBytes(bytes, b, v) ==
    LET raw == SubSeq(bytes, b.offset + 1, b.offset + b.length)
    IN IF Copied(b, v) THEN SwapEndian(v, raw) ELSE raw

\* ArrowIpcDecoderWalkGetArray: the scratch buffers that were used move to the
\* new array, the others are copied from the views.
WalkGetArray == [msg |-> decoder.last_message, rows |-> Here.rows, bufs |-> scratch]

\* ArrowArrayViewValidate at level FULL, then ArrowIpcDecoderDecodeArrayInternal:
\* a failure to initialise the new array is returned; a failure after that
\* releases it.
DecodeArray ==
    /\ pc = "validate"
    /\ \/ /\ ~Here.valid
          /\ rc' = "EINVAL" /\ pc' = "unshare"
          /\ UNCHANGED <<scratch, tmp, memory>>
       \/ /\ Here.valid /\ May("array")
          /\ rc' = "ENOMEM" /\ pc' = "unshare"
          /\ UNCHANGED <<scratch, tmp, memory>>
       \/ /\ Here.valid
          /\ tmp' = WalkGetArray
          /\ scratch' = [k \in DOMAIN scratch |-> 0]
          /\ rc' = "OK" /\ pc' = "finish"
          /\ UNCHANGED memory
    /\ UNCHANGED <<input, cursor, decoder, walk, schema, opened, body, shared, arrays,
                   views, pyerr, iter>>

\* ArrowArrayFinishBuilding and the end of ArrowIpcDecoderDecodeArray(FromShared):
\* on failure the array is released, and the code goes on to return OK.
FinishBuilding ==
    /\ pc = "finish"
    /\ \/ UNCHANGED <<tmp, memory, dropped>>
       \/ /\ May("finish")
          /\ tmp' = NoArray /\ dropped' = TRUE
          /\ Counted(RefsOf(tmp, "tmp", 0), {})
    /\ rc' = "OK" /\ pc' = "unshare"
    /\ UNCHANGED <<input, cursor, decoder, walk, schema, opened, body, shared, scratch,
                   arrays, views, pyerr, batchIndex, rowIndex, rowCount, rows, converted, owner>>

\* ArrowIpcSharedBufferReset, after the decoding whatever it returned.
Unshare ==
    /\ pc = "unshare"
    /\ Counted(IF shared = 0 THEN {} ELSE {<<Handle, shared>>}, {})
    /\ shared' = 0
    /\ pc' = "append"
    /\ UNCHANGED <<input, rc, cursor, decoder, walk, schema, opened, body, scratch, tmp,
                   arrays, views, pyerr, iter>>

\* The rest of the loop body: an error ends the constructor, a released array
\* ends the loop, an array is appended and gets a view.
AppendArray ==
    /\ pc = "append"
    /\ \/ rc # "OK" /\ Fail(rc)
       \/ /\ rc = "OK" /\ tmp = NoArray
          /\ ReleaseStream("opened")
          /\ UNCHANGED <<rc, arrays, views, pyerr>>
       \/ /\ rc = "OK" /\ tmp # NoArray
          /\ arrays' = Append(arrays, tmp) /\ tmp' = NoArray
          /\ \/ views' = views + 1 /\ pc' = "header"
                /\ UNCHANGED <<rc, pyerr, cursor, decoder, walk, schema, opened, body, shared, scratch, memory>>
             \/ May("view") /\ pc' = "view" /\ rc' = "ENOMEM"
                /\ UNCHANGED <<views, pyerr, cursor, decoder, walk, schema, opened, body, shared, scratch, memory>>
    /\ UNCHANGED <<input, iter>>

\* ArrowArrayViewInitFromSchema or ArrowArrayViewSetArray failed.
ViewFails ==
    /\ pc = "view"
    /\ Fail(rc)
    /\ UNCHANGED <<input, iter>>

-----------------------------------------------------------------------------
(* The rows: PyArrowRowIterator and CArrowChunkIterator.                    *)

\* checkInitializationStatus found no error; the members of the iterator.
StartRows ==
    /\ pc = "opened" /\ mode = "row"
    /\ pc' = "rows"
    /\ UNCHANGED <<input, rc, reader, memory, arrays, views, pyerr, iter>>

CreateRowUnchecked(b, r) ==
    /\ \/ rows' = Append(rows, <<b, r>>)
       \/ May("row") /\ UNCHANGED rows
    /\ UNCHANGED <<pc, pyerr>>

\* createRowPyObject for row r of batch b; a converter may set an error, which
\* __next__ raises.
CreateRow(b, r) ==
    \/ /\ rows' = Append(rows, <<b, r>>)
       /\ UNCHANGED <<pc, pyerr>>
    \/ /\ May("row")
       /\ pc' = "failed" /\ pyerr' = TRUE
       /\ UNCHANGED rows

\* CArrowChunkIterator::next.  A batch is entered without a test that it has
\* a row.
NextRow ==
    /\ pc = "rows"
    /\ LET r == rowIndex + 1
           b == batchIndex + 1
       IN \/ /\ r < rowCount
             /\ rowIndex' = r
             /\ CreateRow(batchIndex, r)
             /\ UNCHANGED <<batchIndex, rowCount>>
          \/ /\ r >= rowCount /\ b < Len(arrays)
             /\ batchIndex' = b /\ rowIndex' = 0 /\ rowCount' = arrays[b + 1].rows
             /\ IF stream.known
                   THEN CreateRow(b, 0)
                   ELSE pc' = "failed" /\ pyerr' = TRUE /\ UNCHANGED rows  \* initColumnConverters
          \/ /\ r >= rowCount /\ b >= Len(arrays)
             /\ rowIndex' = r /\ batchIndex' = b
             /\ pc' = "exhausted"
             /\ UNCHANGED <<rowCount, rows, pyerr>>
    /\ UNCHANGED <<input, rc, reader, memory, arrays, views, converted, owner,
                   dropped>>

-----------------------------------------------------------------------------
(* The table: PyArrowTableIterator and CArrowTableIterator.                 *)

\* The columns of batch i that convertIfNeeded replaces.
Columns(i) == {c \in DOMAIN Root.children : Root.children[c].converts}

\* One iteration of the loops of reconstructRecordBatches_nanoarrow: the
\* column gets a new array and its old one is released; an error leaves it
\* as it was and the loop goes on; a C++ exception leaves the loop.
ConvertColumn(i, k) ==
    /\ pc \in {"opened", "convert"} /\ mode = "table"
    /\ i \in 1..views /\ k \in Columns(i)
    /\ <<i, k>> \notin converted
    /\ \A j \in 1..i : \A l \in Columns(j) :
          (j < i \/ l < k) => <<j, l>> \in converted
    /\ converted' = converted \cup {<<i, k>>}
    /\ \/ /\ stream.known /\ pc' = "convert"
          /\ arrays' = [arrays EXCEPT ![i].bufs = [b \in DOMAIN @ |-> IF b \in OfColumn(k) THEN 0 ELSE @[b]]]
          /\ Counted({h \in RefsOf(arrays[i], "array", i) : h[1][3] \in OfColumn(k)}, {})
          /\ UNCHANGED pyerr
       \/ /\ ~stream.known \/ May("column")
          /\ pyerr' = TRUE /\ pc' = "convert"
          /\ UNCHANGED <<arrays, memory>>
       \/ /\ May("throw")
          /\ pyerr' = TRUE /\ pc' = "failed"
          /\ UNCHANGED <<arrays, memory>>
    /\ UNCHANGED <<input, rc, reader, views, batchIndex, rowIndex, rowCount, rows, owner,
                   dropped>>

\* pyarrow imports every batch and becomes the owner of its buffers.  With a
\* Python error pending the interpreter may raise it here, or not.
ImportTable ==
    /\ pc \in {"opened", "convert"} /\ mode = "table"
    /\ \A i \in 1..views : \A k \in Columns(i) : <<i, k>> \in converted
    /\ \/ /\ arrays # <<>>
          /\ owner' = "pyarrow" /\ pc' = "imported"
          /\ UNCHANGED pyerr
       \/ /\ arrays = <<>> \/ pyerr
          /\ pyerr' = TRUE /\ pc' = "failed"
          /\ UNCHANGED owner
    /\ UNCHANGED <<input, rc, reader, memory, arrays, views, batchIndex, rowIndex,
                   rowCount, rows, converted, dropped>>

-----------------------------------------------------------------------------
\* __dealloc__: the iterator is deleted, at the latest when Python has no use
\* for it any more, and releases the arrays it still owns.
Delete ==
    /\ pc \in {"failed", "rows", "exhausted", "imported"}
    /\ pc' = "deleted"
    /\ IF owner = "iterator"
         THEN /\ Counted(ArrayRefs, {})
              /\ arrays' = <<>> /\ owner' = "none"
         ELSE UNCHANGED <<memory, arrays, owner>>
    /\ views' = 0
    /\ UNCHANGED <<input, rc, reader, pyerr, batchIndex, rowIndex, rowCount, rows,
                   converted, dropped>>

\* Python drops the table, which outlives the iterator.
ReleaseTable ==
    /\ pc = "deleted" /\ owner = "pyarrow"
    /\ Counted(ArrayRefs, {})
    /\ arrays' = <<>> /\ owner' = "none"
    /\ UNCHANGED <<input, pc, rc, reader, views, pyerr, batchIndex, rowIndex,
                   rowCount, rows, converted, dropped>>

Construct ==
    \/ OpenFails \/ ReaderInit \/ ReadSchema \/ ReadBatchHeader \/ ReadBody
    \/ ShareFails \/ SetArrayView \/ DecodeArray \/ FinishBuilding \/ Unshare
    \/ AppendArray \/ ViewFails

Convert == \E i \in 1..views : \E k \in DOMAIN Root.children : ConvertColumn(i, k)

Next == Construct \/ StartRows \/ NextRow \/ Convert \/ ImportTable \/ Delete \/ ReleaseTable

Spec == Init /\ [][Next]_vars

-----------------------------------------------------------------------------
TypeOK ==
    /\ pc \in {"open", "schema", "header", "body", "decode", "validate", "finish", "unshare",
               "append", "view", "opened", "rows", "convert", "exhausted", "imported", "failed",
               "undefined", "deleted"}
    /\ rc \in {"OK", "ENOMEM", "EINVAL", "ESPIPE", "ENOTSUP", "ENODATA"}
    /\ cursor \in 0..stream.size
    /\ {body, shared} \subseteq {0} \cup DOMAIN Msgs /\ live \subseteq DOMAIN Msgs
    /\ \A b \in DOMAIN refs : refs[b] \in Nat
    /\ {opened, schema, pyerr} \subseteq BOOLEAN
    /\ decoder.endianness \in {"uninitialized", "little", "big"}
    /\ owner \in {"iterator", "pyarrow", "none"}
    /\ views \in 0..Len(Msgs)

Holders(b) ==
    {h \in ScratchRefs \cup RefsOf(tmp, "tmp", 0) \cup ArrayRefs : h[2] = b}
        \cup (IF shared = b THEN {<<Handle, b>>} ELSE {})

\* The reference count of a message body is the number of scratch buffers,
\* arrays and local handles that refer to it (and one more when a copy failed,
\* see SwapNeverLeaks), and a body that is referred to
\* has not been freed: on every path of ArrowIpcDecoderDecodeArrayFromShared,
\* its errors included, and after columns were replaced.
RefcountExact ==
    \A b \in DOMAIN refs :
        /\ refs[b] = Cardinality(Holders(b)) + (IF b \in lost THEN 1 ELSE 0)
        /\ Holders(b) # {} \/ body = b => b \in live

\* When the iterator and the table are gone, every body was freed: no error
\* return of the reader or of the constructor loses one, but for the one
\* SwapNeverLeaks is about.
NothingLeaks ==
    pc = "deleted" /\ owner = "none" => live = lost

\* ArrowIpcDecoderSwapEndian moves the shared buffer to a local before it
\* reserves memory for the copy: every reference it took it must give back.
SwapNeverLeaks == lost = {}

\* The walk of a message whose header was accepted takes every node and every
\* buffer of it once, in their order, and the walk that starts at a field i
\* takes the part of it that belongs to the field and its children.
WalkCoversMessage ==
    pc = "decode" =>
        /\ [k \in DOMAIN seen |-> seen[k].buffer] = [k \in DOMAIN Here.buffers |-> k - 1]
        /\ {seen[k].node : k \in DOMAIN seen} = 0..(Here.nodes - 1)
        /\ \A i \in 0..(Here.nodes - 1) :
              DecodeArrayView(private, i) =
                  SelectSeq(seen, LAMBDA v : v.node \in i..(i + CountFields[private.fields[i + 2].view] - 1))

\* How a value of a type is laid out: the first byte and the length of the
\* numbers it consists of, and its length.
Numbers(v) ==
    CASE v.type \in Unswapped               -> {<<0, 1>>}
      [] v.type = "INTERVAL_DAY_TIME"       -> {<<0, 4>>, <<4, 4>>}
      [] v.type = "INTERVAL_MONTH_DAY_NANO" -> {<<0, 4>>, <<4, 4>>, <<8, 8>>}
      [] OTHER                              -> {<<0, v.bits \div 8>>}
Width(v) == IF v.type \in Unswapped THEN 1 ELSE v.bits \div 8

\* The index of the byte that byte j becomes when every number turns.
Turned(numbers, width, j) ==
    LET pos == (j - 1) % width
        n   == CHOOSE n \in numbers : n[1] <= pos /\ pos < n[1] + n[2]
    IN (j - pos) + 2 * n[1] + n[2] - 1 - pos

Encoded(v, b, order) == IF order = "little" THEN b ELSE [j \in DOMAIN b |-> b[Turned(Numbers(v), Width(v), j)]]

\* The buffers of a decoded array hold the values the sender wrote, in the
\* byte order of this machine, whichever order the stream is in.
ValuesKept ==
    pc \in {"exhausted", "imported"} =>
        \A i \in DOMAIN arrays : \A k \in DOMAIN seen :
            ViewBytes(Msgs[arrays[i].msg].body, Msgs[arrays[i].msg].buffers[k], seen[k])
                = Encoded(seen[k], Msgs[arrays[i].msg].values[k], system)

\* The end marker, or the place after the last message.
EndOf == Min({Len(Msgs) + 1} \cup {i \in DOMAIN Msgs : Msgs[i].header = 0})

\* The record batches that begin before both ends, and the j-th of them.
Batches == {i \in 1..(EndOf - 1) : Msgs[i].type = "batch" /\ stream.starts[i] < stream.size}
BatchNo(j) == CHOOSE i \in Batches : Cardinality({k \in Batches : k < i}) = j - 1

\* The input ends inside a message.
Cut == \E i \in 1..(EndOf - 1) :
          /\ stream.starts[i] < stream.size
          /\ stream.size < stream.starts[i] + MessageSize(Msgs[i])

\* A constructor that reports no error, and dropped no array, read every batch
\* that begins before the end of the input, in their order, and the input was not cut inside a
\* message: ENODATA is never confused with a short read.
OpenedMeansWhole ==
    pc \in {"opened", "rows", "exhausted"} /\ ~dropped =>
        /\ ~Cut
        /\ {arrays[j].msg : j \in DOMAIN arrays} = Batches
        /\ \A j, k \in DOMAIN arrays : j < k => arrays[j].msg < arrays[k].msg

\* "if no error and the array is released, the stream has ended": the
\* constructor takes the end from get_next, so a batch that could not be
\* built must not look like it.
EndIsTheEnd == pc \in {"opened", "rows", "exhausted"} => ~dropped

\* The rows of the stream, as <<batch, row>> counted from 0, and their order.
RowsOf(j) == {<<j - 1, r>> : r \in 0..(Msgs[BatchNo(j)].rows - 1)}
AllRows == UNION {RowsOf(j) : j \in 1..Cardinality(Batches)}
Precedes(x, y) == x[1] < y[1] \/ (x[1] = y[1] /\ x[2] < y[2])

\* When every batch has a row, rows come in the order of the stream, none
\* twice and none left out, and StopIteration comes after the last one.
RowsInOrder ==
    (\A i \in Batches : Msgs[i].rows > 0) =>
        /\ \A i \in DOMAIN rows : rows[i] \in AllRows
        /\ \A i, j \in DOMAIN rows : i < j => Precedes(rows[i], rows[j])
        /\ \A i \in DOMAIN rows : \A x \in AllRows :
              Precedes(x, rows[i]) => \E j \in DOMAIN rows : rows[j] = x
        /\ pc = "exhausted" /\ ~dropped => \A x \in AllRows : \E j \in DOMAIN rows : rows[j] = x

\* "row index inside current record batch": a row that is returned exists.
RowInsideBatch ==
    \A i \in DOMAIN rows : rows[i][2] < Msgs[BatchNo(rows[i][1] + 1)].rows

\* A table that is imported without an error has the same columns replaced in
\* every batch, so that its batches have one schema.
TableUniform ==
    pc = "imported" /\ ~pyerr =>
        \A i \in DOMAIN arrays : \A c \in DOMAIN Root.children :
            Root.children[c].converts => \A k \in OfColumn(c) : arrays[i].bufs[k] = 0

\* The bodies of messages are owned by what refers to them, from the read to
\* the last release, on every path.
BodiesOwned == TypeOK /\ RefcountExact /\ NothingLeaks

\* What the decoder makes of a message is what the sender put into it: every
\* buffer is found by the walk over the fields and turned to this machine's
\* byte order.
DecodedRight == WalkCoversMessage /\ ValuesKept

\* Both ways of reading give the stream once, in order and in one form.
ReadInOrder == RowsInOrder /\ TableUniform
=============================================================================
