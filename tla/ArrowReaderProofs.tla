-------------------------- MODULE ArrowReaderProofs --------------------------
(***************************************************************************)
(* Proofs about the Arrow reader: the reference counts of the message       *)
(* bodies, the end of the stream, and the order of the rows.                *)
(***************************************************************************)
EXTENDS ArrowReader, FiniteSetTheorems, WellFoundedInduction, TLAPS

Steps == {"open", "schema", "header", "body", "decode", "validate", "finish", "unshare",
          "append", "view", "opened", "rows", "convert", "exhausted", "imported", "failed",
          "undefined", "deleted"}
Loop == {"header", "body", "decode", "validate", "finish", "unshare", "append", "view"}
Decoding == {"decode", "validate", "finish", "unshare", "append"}
LastRead == decoder.last_message
EndAt(i) == stream.starts[i] + MessageSize(Msgs[i])

Views == [node : Nat, buffer : Nat, type : STRING, bits : Nat]
Bodies == 0..Len(Msgs)
ArrayType == [msg : Nat, rows : Nat, bufs : [DOMAIN seen -> Bodies]]

\* The types of what the reader and the iterator keep.
Typed ==
    /\ stream \in Streams /\ system \in {"little", "big"}
    /\ sharing \in BOOLEAN /\ dropped \in BOOLEAN /\ DOMAIN refs = DOMAIN Msgs
    /\ {opened, schema, pyerr} \subseteq BOOLEAN
    /\ rc \in {"OK", "ENOMEM", "EINVAL", "ESPIPE", "ENOTSUP", "ENODATA"}
    /\ body \in Bodies /\ shared \in Bodies
    /\ seen \in Seq(Views) /\ scratch \in [DOMAIN seen -> Bodies]
    /\ tmp \in ArrayType \cup {NoArray} /\ arrays \in Seq(ArrayType)
    /\ LastRead \in Bodies /\ cursor \in 0..stream.size /\ views \in Bodies
    /\ decoder.endianness \in {"uninitialized", "little", "big"}

\* What is empty at which step.
Resting ==
    /\ pc \in Steps
    /\ pc \notin {"validate", "finish", "unshare"} => shared = 0
    /\ pc \notin {"finish", "unshare", "append"} => tmp = NoArray
    /\ pc \in {"unshare", "append"} /\ rc # "OK" => tmp = NoArray
    /\ \/ pc = "validate" \/ (pc \in {"unshare", "append"} /\ rc # "OK")
       \/ scratch = [k \in DOMAIN seen |-> 0]
    /\ pc \notin Loop => body = 0
    /\ sharing /\ pc # "decode" => body = 0
    /\ pc \in {"open", "schema"} => arrays = <<>> /\ views = 0 /\ seen = <<>> /\ LastRead = 0
    /\ owner \in {"iterator", "pyarrow", "none"}
    /\ owner = "none" => arrays = <<>> /\ pc = "deleted"
    /\ owner = "pyarrow" => pc \in {"imported", "deleted"}

\* Where the reader stands in the input, and what it has accepted so far.
Position ==
    /\ pc \in {"open", "schema"} => cursor = 0
    /\ pc \in Loop => LastRead > 0
    /\ pc \in Loop \ {"body"} => cursor = EndAt(LastRead)
    /\ pc = "body" => cursor = stream.starts[LastRead] + Prefix + Here.header
    /\ pc \in Loop \ {"header"} => LastRead > 1
    /\ \A i \in 1..LastRead :
          /\ Msgs[i].type = (IF i = 1 THEN "schema" ELSE "batch")
          /\ Msgs[i].header # 0 /\ stream.starts[i] < stream.size
          /\ i < LastRead => EndAt(i) <= stream.size

\* The arrays are those of the messages read so far.
Collected ==
    /\ \A j \in DOMAIN arrays : arrays[j].msg = j + 1 /\ arrays[j].rows = Msgs[j + 1].rows
    /\ tmp # NoArray => tmp.msg = LastRead /\ tmp.rows = Here.rows
    /\ arrays # <<>> => Len(arrays) < LastRead
    /\ pc \in {"header", "view"} => Len(arrays) = LastRead - 1
    /\ pc \in {"body"} \cup Decoding => Len(arrays) = LastRead - 2
    /\ pc \in (Loop \ {"view"}) \cup {"opened", "rows", "convert"} => views = Len(arrays)
    /\ pc = "finish" => tmp # NoArray
    /\ pc \in {"unshare", "append"} /\ rc = "OK" /\ tmp = NoArray => dropped

\* How far the reader is and what it holds there.
Base == Typed /\ Resting /\ Position /\ Collected

\* Who owns which body.
Owned ==
    /\ \A b \in DOMAIN Msgs :
          /\ refs[b] = Cardinality(Holders(b)) + (IF b \in lost THEN 1 ELSE 0)
          /\ b \in live <=> Holders(b) # {} \/ b \in lost \/ body = b
          /\ body = b => Holders(b) = {} /\ b \notin lost
    /\ lost \subseteq live /\ live \subseteq 1..LastRead
    /\ pc = "body" => LastRead \notin live

\* Without a dropped array the loop ends only at the end of the input.
AtEnd ==
    pc \in {"opened", "rows", "exhausted"} /\ ~dropped =>
        /\ LastRead > 0 /\ cursor = EndAt(LastRead) /\ Len(arrays) = LastRead - 1
        /\ cursor = stream.size \/ (LastRead < Len(Msgs) /\ Msgs[LastRead + 1].header = 0)

\* The columns that were replaced so far hold no body.
Replaced ==
    /\ pc \in Loop \cup {"open", "schema"} => converted = {}
    /\ pc \in {"opened", "convert", "imported"} /\ ~pyerr =>
          \A i \in DOMAIN arrays : \A c \in DOMAIN Root.children :
              <<i, c>> \in converted => \A k \in OfColumn(c) : arrays[i].bufs[k] = 0
    /\ pc = "imported" =>
          \A i \in DOMAIN arrays : \A c \in Columns(i) : <<i, c>> \in converted

AllHaveRows == \A i \in Batches : Msgs[i].rows > 0

\* The rows returned so far are those of the arrays up to the current one.
Returned ==
    /\ rows \in Seq(Nat \X Nat)
    /\ pc \notin {"rows", "exhausted", "failed", "deleted"} =>
          rows = <<>> /\ batchIndex = -1 /\ rowIndex = -1 /\ rowCount = 0
    /\ pc = "rows" =>
          /\ batchIndex \in -1..(Len(arrays) - 1) /\ rowIndex \in Int /\ rowCount \in Nat
          /\ batchIndex = -1 => rowIndex = -1 /\ rowCount = 0
          /\ batchIndex >= 0 => rowIndex >= 0 /\ rowCount = arrays[batchIndex + 1].rows
    /\ AllHaveRows /\ pc = "rows" =>
          /\ batchIndex >= 0 => rowIndex < rowCount
          /\ \A b, r \in Nat :
                (\E i \in DOMAIN rows : rows[i] = <<b, r>>) <=>
                    /\ b \in 0..batchIndex /\ r < arrays[b + 1].rows
                    /\ b < batchIndex \/ r <= rowIndex

-----------------------------------------------------------------------------
(* What the provers need to know of the inputs and of sets.                 *)

(* The smaller of two numbers.                                              *)
LEMMA MinOfTwo ==
    ASSUME NEW a \in Int, NEW b \in Int
    PROVE  Min({a, b}) = IF a <= b THEN a ELSE b
  BY DEF Min

(* A set of natural numbers has a least element.                            *)
LEMMA MinOfSet ==
    ASSUME NEW S, S \subseteq Nat, S # {}
    PROVE  Min(S) \in S /\ \A y \in S : Min(S) <= y
<1> DEFINE Less == {p \in Nat \X Nat : p[1] < p[2]}
<1>0. IsWellFoundedOn(Less, Nat)
  BY NatLessThanWellFounded DEF OpToRel
<1> HIDE DEF Less
<1>1. PICK x \in S : \A y \in S : ~(<<y, x>> \in Less)
  BY <1>0, WFMin
<1>2. ASSUME NEW y \in S PROVE x <= y
  <2>1. x \in Nat /\ y \in Nat
    OBVIOUS
  <2>2. <<y, x>> \in Nat \X Nat /\ <<y, x>>[1] = y /\ <<y, x>>[2] = x
    BY <2>1
  <2>3. ~(y < x)
    BY <1>1, <2>2 DEF Less
  <2> QED
    BY <2>1, <2>3
<1> QED
  BY <1>2 DEF Min

(* StreamsAssumption for the stream that is read.                           *)
LEMMA StreamFacts ==
    ASSUME stream \in Streams
    PROVE  /\ Len(Msgs) \in Nat /\ Len(Msgs) > 0 /\ DOMAIN Msgs = 1..Len(Msgs)
           /\ stream.starts[1] = 0 /\ stream.size \in Nat /\ stream.size <= EndAt(Len(Msgs))
           /\ \A i \in 1..Len(Msgs) :
                 /\ Msgs[i].header \in Nat /\ Len(Msgs[i].body) \in Nat /\ Msgs[i].rows \in Nat
                 /\ stream.starts[i] \in Nat
                 /\ EndAt(i) = stream.starts[i] + 8 + Msgs[i].header + Len(Msgs[i].body)
                 /\ EndAt(i) \in Nat /\ stream.starts[i] < EndAt(i)
                 /\ i < Len(Msgs) => stream.starts[i + 1] = EndAt(i)
                 /\ system \in {"little", "big"} =>
                       (PeekHeader(Msgs[i]) = "ENODATA" <=> Msgs[i].header = 0)
           /\ \A i, j \in 1..Len(Msgs) : i < j => EndAt(i) <= stream.starts[j]
           /\ Msgs[1].type = "schema" => Len(Msgs[1].body) = 0
<1>1. \A i \in 1..Len(Msgs) : Msgs[i].header \in Nat /\ Len(Msgs[i].body) \in Nat
                              /\ Msgs[i].rows \in Nat /\ stream.starts[i] \in Nat
  BY StreamsAssumption DEF Msgs
<1>2. \A i \in 1..Len(Msgs) : system \in {"little", "big"} =>
                       (PeekHeader(Msgs[i]) = "ENODATA" <=> Msgs[i].header = 0)
  BY StreamsAssumption DEF Msgs, PeekHeader
<1>3. /\ Len(Msgs) \in Nat \ {0} /\ DOMAIN Msgs = 1..Len(Msgs) /\ stream.starts[1] = 0
      /\ stream.size \in 0..EndAt(Len(Msgs))
      /\ \A i, j \in 1..Len(Msgs) : i < j => EndAt(i) <= stream.starts[j]
      /\ \A i \in 1..Len(Msgs) : i < Len(Msgs) => stream.starts[i + 1] = EndAt(i)
      /\ Msgs[1].type = "schema" => Msgs[1].body = <<>>
  <2> USE StreamsAssumption DEF Msgs, EndAt
  <2>1. Len(Msgs) \in Nat \ {0} /\ DOMAIN Msgs = 1..Len(Msgs) /\ stream.starts[1] = 0
    OBVIOUS
  <2>2. /\ stream.size \in 0..EndAt(Len(Msgs))
        /\ Msgs[1].type = "schema" => Msgs[1].body = <<>>
    OBVIOUS
  <2>3. \A i, j \in 1..Len(Msgs) : i < j => EndAt(i) <= stream.starts[j]
    OBVIOUS
  <2>4. \A i \in 1..Len(Msgs) : i < Len(Msgs) => stream.starts[i + 1] = EndAt(i)
    OBVIOUS
  <2> QED
    BY <2>1, <2>2, <2>3, <2>4
<1>4. \A i \in 1..Len(Msgs) :
          EndAt(i) = stream.starts[i] + 8 + Msgs[i].header + Len(Msgs[i].body)
  <2> SUFFICES ASSUME NEW i \in 1..Len(Msgs)
               PROVE  EndAt(i) = stream.starts[i] + 8 + Msgs[i].header + Len(Msgs[i].body)
    OBVIOUS
  <2>1. \A s, h, b \in Nat : s + ((8 + h) + b) = ((s + 8) + h) + b
    OBVIOUS
  <2> QED
    BY <1>1, <2>1 DEF EndAt, MessageSize, Prefix
<1>5. \A i \in 1..Len(Msgs) : EndAt(i) \in Nat /\ stream.starts[i] < EndAt(i)
  <2> SUFFICES ASSUME NEW i \in 1..Len(Msgs)
               PROVE  EndAt(i) \in Nat /\ stream.starts[i] < EndAt(i)
    OBVIOUS
  <2>1. \A s, h, b \in Nat : s + 8 + h + b \in Nat /\ s < s + 8 + h + b
    OBVIOUS
  <2> QED
    BY <1>1, <1>4, <2>1
<1>6. Msgs[1].type = "schema" => Len(Msgs[1].body) = 0
  BY <1>3
<1>7. stream.size \in Nat /\ stream.size <= EndAt(Len(Msgs)) /\ Len(Msgs) > 0
  BY <1>3, <1>5
<1> QED
  BY <1>1, <1>2, <1>3, <1>4, <1>5, <1>6, <1>7

(* ArrowIpcInputStreamBufferRead gives what is asked for, or what is left.  *)
LEMMA ReadFacts ==
    ASSUME stream \in Streams, NEW c \in Int, c <= stream.size, NEW n \in Nat
    PROVE  /\ BytesRead(c, n) \in Nat /\ BytesRead(c, n) <= n
           /\ c + BytesRead(c, n) <= stream.size
           /\ BytesRead(c, n) < n => c + BytesRead(c, n) = stream.size
<1>1. stream.size \in Nat
  BY StreamFacts
<1>2. stream.size - c \in Nat
  BY <1>1
<1>3. BytesRead(c, n) = IF n <= stream.size - c THEN n ELSE stream.size - c
  BY <1>2, MinOfTwo DEF BytesRead
<1> QED
  BY <1>1, <1>2, <1>3

(* The message that starts at the cursor is the one the reader expects.     *)
LEMMA MessageHere ==
    ASSUME stream \in Streams, NEW i \in 1..Len(Msgs)
    PROVE  AtMessage(stream.starts[i]) /\ MessageAt(stream.starts[i]) = i
<1>1. ASSUME NEW j \in DOMAIN Msgs, stream.starts[j] = stream.starts[i] PROVE j = i
  <2>0. i \in Nat /\ j \in 1..Len(Msgs) /\ j \in Nat
    BY StreamFacts
  <2>1. /\ stream.starts[i] \in Nat /\ stream.starts[i] < EndAt(i) /\ EndAt(i) \in Nat
        /\ stream.starts[j] < EndAt(j) /\ EndAt(j) \in Nat
    BY <2>0, StreamFacts
  <2>2. ~(i < j)
    <3>1. i < j => EndAt(i) <= stream.starts[j]
      BY <2>0, StreamFacts
    <3> QED
      BY <3>1, <2>1, <1>1
  <2>3. ~(j < i)
    <3>1. j < i => EndAt(j) <= stream.starts[i]
      BY <2>0, StreamFacts
    <3> QED
      BY <3>1, <2>1, <1>1
  <2> QED
    BY <2>0, <2>2, <2>3
<1>2. i \in DOMAIN Msgs
  BY StreamFacts
<1> QED
  BY <1>1, <1>2 DEF AtMessage, MessageAt

\* The offset of message i, or of the end of the last message.
Place(i) == IF i <= Len(Msgs) THEN stream.starts[i] ELSE EndAt(Len(Msgs))

(* ArrowIpcArrayStreamReaderNextHeader where message i is due: an accepted  *)
(* header was read to its end and is that of message i, and the end of the  *)
(* stream is reported at the end of the input or at the end marker.         *)
LEMMA HeaderResult ==
    ASSUME Typed, NEW wanted, NEW i \in 1..(Len(Msgs) + 1), cursor = Place(i)
    PROVE  LET h == NextHeader(wanted)
           IN /\ h.code \in {"OK", "EINVAL", "ESPIPE", "ENODATA"}
              /\ h.code = "OK" =>
                    /\ i \in 1..Len(Msgs) /\ cursor = stream.starts[i]
                    /\ Msgs[i].header # 0 /\ cursor < stream.size
                    /\ h.bytes = Prefix + Msgs[i].header /\ cursor + h.bytes <= stream.size
                    /\ h.dec.last_message = i /\ h.dec.message_type = Msgs[i].type
                    /\ h.dec = [message_type |-> Msgs[i].type, last_message |-> i,
                                codec |-> Msgs[i].codec, endianness |-> decoder.endianness]
              /\ h.code = "ENODATA" =>
                    cursor = stream.size \/ (i \in 1..Len(Msgs) /\ Msgs[i].header = 0)
<1> DEFINE got8 == BytesRead(cursor, Prefix)
           got  == BytesRead(cursor + Prefix, Msgs[i].header)
           verd == VerifyHeader(Msgs[i], got)
           code == IF Msgs[i].type = wanted THEN DecodeHeader(Msgs[i]) ELSE "OK"
           h    == NextHeader(wanted)
           d    == [message_type |-> Msgs[i].type, last_message |-> i,
                    codec |-> Msgs[i].codec, endianness |-> decoder.endianness]
<1>0. /\ stream \in Streams /\ cursor \in Int /\ cursor <= stream.size /\ stream.size \in Nat
      /\ Len(Msgs) \in Nat /\ i \in Nat
  BY StreamFacts DEF Typed
<1>1. /\ got8 \in Nat /\ got8 <= 8 /\ cursor + got8 <= stream.size
      /\ got8 < 8 => cursor + got8 = stream.size
  BY <1>0, ReadFacts DEF Prefix
<1>2. CASE got8 = 0
  <2>1. cursor = stream.size
    BY <1>0, <1>1, <1>2
  <2>2. h.code = "ENODATA"
    <3>1. got8 # Prefix
      BY <1>2 DEF Prefix
    <3> QED
      BY <1>2, <3>1 DEF NextHeader
  <2> QED
    BY <2>1, <2>2
<1>3. CASE got8 \notin {0, Prefix}
  <2>1. h.code = "EINVAL"
    BY <1>3 DEF NextHeader
  <2> QED
    BY <2>1
<1>4. CASE got8 = Prefix
  <2>0. got8 # 0 /\ ~(got8 \notin {0, Prefix})
    BY <1>4 DEF Prefix
  <2>1. i \in 1..Len(Msgs) /\ cursor = stream.starts[i]
    <3>1. CASE i \in 1..Len(Msgs)
      BY <3>1 DEF Place
    <3>2. CASE ~(i \in 1..Len(Msgs))
      <4>1. cursor = EndAt(Len(Msgs))
        BY <3>2, <1>0 DEF Place
      <4>2. stream.size <= EndAt(Len(Msgs)) /\ cursor + 8 <= stream.size
        BY <1>0, <1>1, <1>4, StreamFacts DEF Prefix
      <4> QED
        BY <4>1, <4>2, <1>0
    <3> QED
      BY <3>1, <3>2
  <2>2. AtMessage(cursor) /\ MessageAt(cursor) = i
    BY <2>1, <1>0, MessageHere
  <2>3. Msgs[i].header \in Nat /\ (PeekHeader(Msgs[i]) = "ENODATA" <=> Msgs[i].header = 0)
    BY <2>1, <1>0, StreamFacts DEF Typed
  <2>4. cursor + 8 \in Int /\ cursor + 8 <= stream.size
    BY <1>0, <1>1, <1>4 DEF Prefix
  <2>5. got \in Nat /\ got <= Msgs[i].header /\ cursor + 8 + got <= stream.size
    BY <2>3, <2>4, <1>0, ReadFacts DEF Prefix
  <2>6. PeekHeader(Msgs[i]) \in {"OK", "EINVAL", "ESPIPE", "ENODATA"}
    BY DEF PeekHeader, ReadHeaderPrefix
  <2>7. verd \in {"OK", "EINVAL", "ESPIPE"} /\ (verd = "OK" => got >= Msgs[i].header)
    BY <2>3, <2>5 DEF VerifyHeader
  <2>8. code \in {"OK", "EINVAL"}
    BY DEF DecodeHeader
  <2>9. CASE PeekHeader(Msgs[i]) # "OK"
    <3>1. h.code = PeekHeader(Msgs[i])
      BY <1>4, <2>0, <2>2, <2>9 DEF NextHeader
    <3> QED
      BY <3>1, <2>1, <2>3, <2>6, <2>9
  <2>10. CASE PeekHeader(Msgs[i]) = "OK" /\ verd # "OK"
    <3>1. h.code = verd
      BY <1>4, <2>0, <2>2, <2>10 DEF NextHeader
    <3> QED
      BY <3>1, <2>7, <2>10
  <2>11. CASE PeekHeader(Msgs[i]) = "OK" /\ verd = "OK"
    <3>1. h = [code |-> code, bytes |-> Prefix + got, dec |-> d]
      BY <1>4, <2>0, <2>2, <2>11 DEF NextHeader
    <3>2. got = Msgs[i].header
      BY <2>3, <2>5, <2>7, <2>11
    <3>3. h.code = code /\ h.bytes = Prefix + Msgs[i].header /\ h.dec = d
      BY <3>1, <3>2
    <3>4. h.dec.last_message = i /\ h.dec.message_type = Msgs[i].type
      BY <3>3
    <3>5. cursor + h.bytes <= stream.size /\ cursor < stream.size
      BY <3>2, <3>3, <2>3, <2>4, <2>5, <1>0 DEF Prefix
    <3>6. Msgs[i].header # 0
      BY <2>3, <2>11
    <3> QED
      BY <3>3, <3>4, <3>5, <3>6, <2>1, <2>8
  <2> QED
    BY <2>9, <2>10, <2>11
<1> QED
  BY <1>2, <1>3, <1>4

-----------------------------------------------------------------------------
(* The position of the reader and what it holds there, step by step.        *)

(* The steps that only move on, fail or release something.                  *)
LEMMA BaseShortSteps ==
    ASSUME Base, OpenFails \/ ReaderInit \/ ShareFails \/ FinishBuilding \/ Unshare \/ ViewFails
                 \/ StartRows \/ NextRow \/ ImportTable \/ ReleaseTable
    PROVE  Base'
<1>1. ASSUME OpenFails PROVE Base'
  <2>1. Typed'
    BY <1>1 DEF Base, Typed, Bodies, ArrayType, LastRead, Msgs, OpenFails,
       input, reader, walk, memory, iter
  <2>2. Resting'
    BY <1>1 DEF Base, Typed, Resting, Steps, Loop, LastRead, OpenFails,
       input, reader, walk, memory, iter
  <2>3. Position'
    BY <1>1 DEF Base, Typed, Position, Resting, Loop, EndAt, LastRead, Msgs, Here, OpenFails,
       input, reader, walk, memory, iter
  <2>4. Collected'
    BY <1>1 DEF Base, Resting, Collected, Loop, Decoding, LastRead, Msgs, Here, OpenFails,
       input, reader, walk, memory, iter
  <2> QED
    BY <2>1, <2>2, <2>3, <2>4 DEF Base
<1>2. ASSUME ReaderInit PROVE Base'
  <2>1. Typed'
    BY <1>2 DEF Base, Typed, Bodies, ArrayType, LastRead, Msgs, ReaderInit,
       input, reader, walk, memory, iter
  <2>2. Resting'
    BY <1>2 DEF Base, Typed, Resting, Steps, Loop, LastRead, ReaderInit,
       input, reader, walk, memory, iter
  <2>3. Position'
    BY <1>2 DEF Base, Typed, Position, Resting, Loop, EndAt, LastRead, Msgs, Here, ReaderInit,
       input, reader, walk, memory, iter
  <2>4. Collected'
    BY <1>2 DEF Base, Resting, Collected, Loop, Decoding, LastRead, Msgs, Here, ReaderInit,
       input, reader, walk, memory, iter
  <2> QED
    BY <2>1, <2>2, <2>3, <2>4 DEF Base
<1>3. ASSUME ShareFails PROVE Base'
  <2>1. Typed'
    BY <1>3 DEF Base, Resting, Steps, Loop, Typed, Bodies, ArrayType, LastRead, Msgs, ShareFails,
       Fail, ReleaseStream, DecoderReset,
       input, reader, walk, memory, iter
  <2>2. Resting'
    BY <1>3 DEF Base, Typed, Resting, Steps, Loop, LastRead, ShareFails, Fail, ReleaseStream,
       DecoderReset,
       input, reader, walk, memory, iter
  <2>3. Position'
    BY <1>3 DEF Base, Typed, Position, Resting, Loop, EndAt, LastRead, Msgs, Here, ShareFails,
       Fail, ReleaseStream, DecoderReset,
       input, reader, walk, memory, iter
  <2>4. Collected'
    BY <1>3 DEF Base, Resting, Collected, Loop, Decoding, LastRead, Msgs, Here, ShareFails, Fail,
       ReleaseStream, DecoderReset,
       input, reader, walk, memory, iter
  <2> QED
    BY <2>1, <2>2, <2>3, <2>4 DEF Base
<1>4. ASSUME FinishBuilding PROVE Base'
  <2>1. Typed'
    BY <1>4 DEF Base, Typed, Bodies, ArrayType, LastRead, Msgs, FinishBuilding, Counted,
       input, reader, walk, memory, iter
  <2>2. Resting'
    BY <1>4 DEF Base, Typed, Resting, Steps, Loop, LastRead, FinishBuilding, Counted,
       input, reader, walk, memory, iter
  <2>3. Position'
    BY <1>4 DEF Base, Typed, Position, Resting, Loop, EndAt, LastRead, Msgs, Here, FinishBuilding,
       Counted,
       input, reader, walk, memory, iter
  <2>4. Collected'
    BY <1>4 DEF Base, Resting, Collected, Loop, Decoding, LastRead, Msgs, Here, FinishBuilding,
       Counted,
       input, reader, walk, memory, iter
  <2> QED
    BY <2>1, <2>2, <2>3, <2>4 DEF Base
<1>5. ASSUME Unshare PROVE Base'
  <2>1. Typed'
    BY <1>5 DEF Base, Typed, Bodies, ArrayType, LastRead, Msgs, Unshare, Counted,
       input, reader, walk, memory, iter
  <2>2. Resting'
    BY <1>5 DEF Base, Typed, Resting, Steps, Loop, LastRead, Unshare, Counted,
       input, reader, walk, memory, iter
  <2>3. Position'
    BY <1>5 DEF Base, Typed, Position, Resting, Loop, EndAt, LastRead, Msgs, Here, Unshare, Counted,
       input, reader, walk, memory, iter
  <2>4. Collected'
    BY <1>5 DEF Base, Resting, Collected, Loop, Decoding, LastRead, Msgs, Here, Unshare, Counted,
       input, reader, walk, memory, iter
  <2> QED
    BY <2>1, <2>2, <2>3, <2>4 DEF Base
<1>6. ASSUME ViewFails PROVE Base'
  <2>1. Typed'
    BY <1>6 DEF Base, Resting, Steps, Loop, Typed, Bodies, ArrayType, LastRead, Msgs, ViewFails,
       Fail, ReleaseStream, DecoderReset,
       input, reader, walk, memory, iter
  <2>2. Resting'
    BY <1>6 DEF Base, Typed, Resting, Steps, Loop, LastRead, ViewFails, Fail, ReleaseStream,
       DecoderReset,
       input, reader, walk, memory, iter
  <2>3. Position'
    BY <1>6 DEF Base, Typed, Position, Resting, Loop, EndAt, LastRead, Msgs, Here, ViewFails,
       Fail, ReleaseStream, DecoderReset,
       input, reader, walk, memory, iter
  <2>4. Collected'
    BY <1>6 DEF Base, Resting, Collected, Loop, Decoding, LastRead, Msgs, Here, ViewFails, Fail,
       ReleaseStream, DecoderReset,
       input, reader, walk, memory, iter
  <2> QED
    BY <2>1, <2>2, <2>3, <2>4 DEF Base
<1>7. ASSUME StartRows PROVE Base'
  <2>1. Typed'
    BY <1>7 DEF Base, Typed, Bodies, ArrayType, LastRead, Msgs, StartRows,
       input, reader, walk, memory, iter
  <2>2. Resting'
    BY <1>7 DEF Base, Typed, Resting, Steps, Loop, LastRead, StartRows,
       input, reader, walk, memory, iter
  <2>3. Position'
    BY <1>7 DEF Base, Typed, Position, Resting, Loop, EndAt, LastRead, Msgs, Here, StartRows,
       input, reader, walk, memory, iter
  <2>4. Collected'
    BY <1>7 DEF Base, Resting, Collected, Loop, Decoding, LastRead, Msgs, Here, StartRows,
       input, reader, walk, memory, iter
  <2> QED
    BY <2>1, <2>2, <2>3, <2>4 DEF Base
<1>8. ASSUME NextRow PROVE Base'
  <2>1. Typed'
    BY <1>8 DEF Base, Typed, Bodies, ArrayType, LastRead, Msgs, NextRow, CreateRow,
       input, reader, walk, memory, iter
  <2>2. Resting'
    BY <1>8 DEF Base, Typed, Resting, Steps, Loop, LastRead, NextRow, CreateRow,
       input, reader, walk, memory, iter
  <2>3. Position'
    BY <1>8 DEF Base, Typed, Position, Resting, Loop, EndAt, LastRead, Msgs, Here, NextRow,
       CreateRow,
       input, reader, walk, memory, iter
  <2>4. Collected'
    BY <1>8 DEF Base, Resting, Collected, Loop, Decoding, LastRead, Msgs, Here, NextRow, CreateRow,
       input, reader, walk, memory, iter
  <2> QED
    BY <2>1, <2>2, <2>3, <2>4 DEF Base
<1>9. ASSUME ImportTable PROVE Base'
  <2>1. Typed'
    BY <1>9 DEF Base, Typed, Bodies, ArrayType, LastRead, Msgs, ImportTable,
       input, reader, walk, memory, iter
  <2>2. Resting'
    BY <1>9 DEF Base, Typed, Resting, Steps, Loop, LastRead, ImportTable,
       input, reader, walk, memory, iter
  <2>3. Position'
    BY <1>9 DEF Base, Typed, Position, Resting, Loop, EndAt, LastRead, Msgs, Here, ImportTable,
       input, reader, walk, memory, iter
  <2>4. Collected'
    BY <1>9 DEF Base, Resting, Collected, Loop, Decoding, LastRead, Msgs, Here, ImportTable,
       input, reader, walk, memory, iter
  <2> QED
    BY <2>1, <2>2, <2>3, <2>4 DEF Base
<1>10. ASSUME ReleaseTable PROVE Base'
  <2>1. Typed'
    BY <1>10 DEF Base, Typed, Bodies, ArrayType, LastRead, Msgs, ReleaseTable, Counted,
       input, reader, walk, memory, iter
  <2>2. Resting'
    BY <1>10 DEF Base, Typed, Resting, Steps, Loop, LastRead, ReleaseTable, Counted,
       input, reader, walk, memory, iter
  <2>3. Position'
    BY <1>10 DEF Base, Typed, Position, Resting, Loop, EndAt, LastRead, Msgs, Here, ReleaseTable,
       Counted,
       input, reader, walk, memory, iter
  <2>4. Collected'
    BY <1>10 DEF Base, Resting, Collected, Loop, Decoding, LastRead, Msgs, Here, ReleaseTable,
       Counted,
       input, reader, walk, memory, iter
  <2> QED
    BY <2>1, <2>2, <2>3, <2>4 DEF Base
<1> QED
  BY <1>1, <1>2, <1>3, <1>4, <1>5, <1>6, <1>7, <1>8, <1>9, <1>10

(* The iterator is deleted: the arrays go, the reader is gone already.      *)
LEMMA BaseDelete ==
    ASSUME Base, Delete
    PROVE  Base'
<1>0. 0 \in 0..Len(Msgs)
  BY StreamFacts DEF Base, Typed
<1>1. Typed'
  <2>1. arrays' \in Seq(ArrayType')
    <3>1. arrays' = arrays \/ arrays' = <<>>
      BY DEF Delete
    <3>2. ArrayType' = ArrayType
      BY DEF Delete, reader, walk, input, ArrayType, Bodies, Msgs
    <3>3. <<>> \in Seq(ArrayType) /\ arrays \in Seq(ArrayType)
      BY DEF Base, Typed
    <3> QED
      BY <3>1, <3>2, <3>3
  <2>2. DOMAIN refs' = DOMAIN refs
    BY DEF Delete, Counted, memory
  <2>3. views' \in Bodies'
    BY <1>0 DEF Delete, input, Bodies, Msgs
  <2> QED
    BY <2>1, <2>2, <2>3 DEF Base, Typed, Delete, ArrayType, Bodies, LastRead, Msgs, input, reader,
       walk
<1>2. Resting'
  BY DEF Base, Typed, Resting, Steps, Loop, LastRead, Delete, Counted,
     input, reader, walk, memory, iter
<1>3. Position'
  BY DEF Base, Typed, Position, Resting, Loop, EndAt, LastRead, Msgs, Here, Delete, Counted,
     input, reader, walk, memory, iter
<1>4. Collected'
  BY DEF Base, Resting, Collected, Loop, Decoding, LastRead, Msgs, Here, Delete, Counted,
     input, reader, walk, memory, iter
<1> QED
  BY <1>1, <1>2, <1>3, <1>4 DEF Base

(* ConvertColumn: only the buffers of a column change.                      *)
LEMMA BaseConvert ==
    ASSUME Base, Convert
    PROVE  Base'
<1>0. PICK i \in 1..views : \E k \in DOMAIN Root.children : ConvertColumn(i, k)
  BY DEF Convert
<1>k. PICK k \in DOMAIN Root.children : ConvertColumn(i, k)
  BY <1>0
<1>1. /\ i \in DOMAIN arrays /\ arrays \in Seq(ArrayType)
      /\ \/ arrays' = arrays
         \/ arrays' = [arrays EXCEPT ![i].bufs =
                          [b \in DOMAIN @ |-> IF b \in OfColumn(k) THEN 0 ELSE @[b]]]
  BY <1>k DEF ConvertColumn, Base, Collected, Typed
<1>2. ArrayType' = ArrayType /\ 0 \in Bodies
  BY <1>k, StreamFacts DEF ConvertColumn, reader, walk, input, ArrayType, Bodies, Msgs, Base, Typed
<1>3. /\ arrays' \in Seq(ArrayType) /\ Len(arrays') = Len(arrays)
      /\ \A j \in DOMAIN arrays : arrays'[j].msg = arrays[j].msg /\ arrays'[j].rows = arrays[j].rows
  <2>1. CASE arrays' = arrays
    BY <2>1, <1>1
  <2>2. CASE arrays' # arrays
    <3> DEFINE new == [b \in DOMAIN arrays[i].bufs |->
                          IF b \in OfColumn(k) THEN 0 ELSE arrays[i].bufs[b]]
    <3>1. arrays' = [arrays EXCEPT ![i] = [arrays[i] EXCEPT !.bufs = new]]
      BY <2>2, <1>1
    <3>2. arrays[i] \in ArrayType
      BY <1>1
    <3>3. new \in [DOMAIN seen -> Bodies]
      BY <3>2, <1>2 DEF ArrayType
    <3> HIDE DEF new
    <3>4. /\ [arrays[i] EXCEPT !.bufs = new] \in ArrayType
          /\ [arrays[i] EXCEPT !.bufs = new].msg = arrays[i].msg
          /\ [arrays[i] EXCEPT !.bufs = new].rows = arrays[i].rows
      BY <3>2, <3>3 DEF ArrayType
    <3> QED
      BY <3>1, <3>4, <1>1
  <2> QED
    BY <2>1, <2>2
<1>a. DOMAIN arrays' = DOMAIN arrays
  BY <1>1, <1>3
<1>b. DOMAIN refs' = DOMAIN refs
  BY <1>k DEF ConvertColumn, Counted, memory
<1>4. Typed'
  BY <1>k, <1>2, <1>3, <1>b
     DEF ConvertColumn, Base, Typed, Bodies, LastRead, Msgs, input, reader, walk
<1>7. Collected'
  BY <1>k, <1>3, <1>a
     DEF ConvertColumn, Base, Collected, Loop, Decoding, LastRead, Msgs, Here, input, reader, walk
<1>5. Resting'
  BY DEF Base, Typed, Resting, Steps, Loop, LastRead, Convert, ConvertColumn, Counted,
     input, reader, walk, memory, iter
<1>6. Position'
  BY DEF Base, Typed, Position, Resting, Loop, EndAt, LastRead, Msgs, Here, Convert,
     ConvertColumn, Counted,
     input, reader, walk, memory, iter
<1> QED
  BY <1>4, <1>5, <1>6, <1>7 DEF Base

(* AppendArray: the array of the last message joins the others, or the      *)
(* stream is released.                                                      *)
LEMMA BaseAppendArray ==
    ASSUME Base, AppendArray
    PROVE  Base'
<1>0. 0 \in 0..Len(Msgs) /\ Len(Msgs) \in Nat
  BY StreamFacts DEF Base, Typed
<1>p. Position'
  BY DEF Base, Typed, Position, Loop, EndAt, LastRead, Msgs, Here, AppendArray, Fail,
     ReleaseStream, input, reader, walk, memory, iter
<1>1. CASE rc # "OK" /\ Fail(rc)
  <2>1. Typed'
    BY <1>0, <1>1 DEF Base, Typed, AppendArray, Fail, ReleaseStream, DecoderReset, Bodies,
       ArrayType,
       LastRead, Msgs, input, iter, walk
  <2>2. Resting'
    BY <1>1 DEF Base, Resting, Typed, Loop, Steps, AppendArray, Fail, ReleaseStream, DecoderReset,
       LastRead, input, iter, walk
  <2>4. Collected'
    BY <1>1 DEF Base, Collected, Loop, Decoding, AppendArray, Fail, ReleaseStream,
       LastRead, Here, Msgs, input, iter, walk
  <2> QED
    BY <1>p, <2>1, <2>2, <2>4 DEF Base
<1>2. CASE rc = "OK" /\ tmp = NoArray /\ ReleaseStream("opened")
           /\ UNCHANGED <<rc, arrays, views, pyerr>>
  <2>1. Typed'
    BY <1>0, <1>2 DEF Base, Typed, AppendArray, Fail, ReleaseStream, DecoderReset, Bodies,
       ArrayType,
       LastRead, Msgs, input, iter, walk
  <2>2. Resting'
    BY <1>2 DEF Base, Resting, Typed, Loop, Steps, AppendArray, Fail, ReleaseStream, DecoderReset,
       LastRead, input, iter, walk
  <2>4. Collected'
    BY <1>2 DEF Base, Collected, Loop, Decoding, AppendArray, Fail, ReleaseStream,
       LastRead, Here, Msgs, input, iter, walk
  <2> QED
    BY <1>p, <2>1, <2>2, <2>4 DEF Base
<1>3. CASE /\ ~(rc # "OK" /\ Fail(rc))
           /\ ~(rc = "OK" /\ tmp = NoArray /\ ReleaseStream("opened")
                  /\ UNCHANGED <<rc, arrays, views, pyerr>>)
  <2>0. /\ pc = "append" /\ rc = "OK" /\ tmp # NoArray /\ tmp \in ArrayType
        /\ arrays' = Append(arrays, tmp) /\ tmp' = NoArray
        /\ pc' \in {"header", "view"} /\ rc' \in {"OK", "ENOMEM"}
        /\ pc' = "header" => views' = views + 1
        /\ pc' = "view" => views' = views
        /\ UNCHANGED <<input, pyerr, cursor, decoder, walk, schema, opened, body, shared, scratch,
                       memory, iter>>
    BY <1>3 DEF AppendArray, Base, Typed
  <2>a. arrays \in Seq(ArrayType) /\ Len(arrays) = LastRead - 2 /\ LastRead \in 2..Len(Msgs)
        /\ views = Len(arrays)
    BY <2>0, <1>0 DEF Base, Typed, Collected, Position, Decoding, Loop, Bodies
  <2>1. Typed'
    <3>1. ArrayType' = ArrayType
      BY <2>0 DEF ArrayType, Bodies, Msgs, walk, input
    <3>2. arrays' \in Seq(ArrayType)
      BY <2>0, <2>a
    <3>3. views' \in Bodies
      BY <2>0, <2>a, <1>0 DEF Bodies
    <3> QED
      BY <3>1, <3>2, <3>3, <2>0 DEF Base, Typed, Bodies, LastRead, Msgs, walk, input, memory, iter
  <2>2. Resting'
    BY <2>0 DEF Base, Resting, Steps, Loop, walk, input, iter
  <2>4. Collected'
    <3>1. Len(arrays') = LastRead - 1 /\ DOMAIN arrays' = 1..(LastRead - 1)
      BY <2>0, <2>a
    <3>2. ASSUME NEW j \in DOMAIN arrays'
          PROVE  arrays'[j].msg = j + 1 /\ arrays'[j].rows = Msgs[j + 1].rows
      <4>1. CASE j = LastRead - 1
        <5>1. arrays'[j] = tmp /\ j + 1 = LastRead
          BY <4>1, <2>0, <2>a
        <5> QED
          BY <5>1, <2>0 DEF Base, Collected, Here, LastRead
      <4>2. CASE j # LastRead - 1
        <5>1. j \in DOMAIN arrays /\ arrays'[j] = arrays[j]
          BY <4>2, <3>1, <2>0, <2>a
        <5> QED
          BY <5>1 DEF Base, Collected
      <4> QED
        BY <4>1, <4>2
    <3>3. UNCHANGED <<LastRead, Msgs>>
      BY <2>0 DEF LastRead, Msgs, input
    <3> QED
      BY <3>1, <3>2, <3>3, <2>0, <2>a DEF Collected, Decoding, Loop
  <2> QED
    BY <1>p, <2>1, <2>2, <2>4 DEF Base
<1> QED
  BY <1>1, <1>2, <1>3

(* DecodeArray: the new array is that of the last message.                  *)
LEMMA BaseDecodeArray ==
    ASSUME Base, DecodeArray
    PROVE  Base'
<1>0. 0 \in 0..Len(Msgs) /\ Len(Msgs) \in Nat
  BY StreamFacts DEF Base, Typed
<1>b. pc = "validate" /\ LastRead \in 2..Len(Msgs) /\ tmp = NoArray
  BY <1>0 DEF DecodeArray, Base, Typed, Position, Loop, Bodies, Resting
<1>1. WalkGetArray \in ArrayType /\ WalkGetArray # NoArray
      /\ WalkGetArray.msg = LastRead /\ WalkGetArray.rows = Here.rows
  <2>1. Here.rows \in Nat
    BY <1>b, StreamFacts DEF Here, LastRead, Base, Typed
  <2>2. scratch \in [DOMAIN seen -> Bodies]
    BY DEF Base, Typed
  <2>3. WalkGetArray.msg # NoArray.msg
    BY <1>b DEF WalkGetArray, NoArray, LastRead
  <2> QED
    BY <1>b, <2>1, <2>2, <2>3 DEF WalkGetArray, ArrayType, LastRead
<1>2. Typed'
  <2>1. tmp' \in ArrayType \cup {NoArray}
    BY <1>1, <1>b DEF DecodeArray
  <2>2. scratch' \in [DOMAIN seen -> Bodies]
    BY <1>0 DEF DecodeArray, Base, Typed, Bodies
  <2>3. ArrayType' = ArrayType
    BY DEF DecodeArray, ArrayType, Bodies, Msgs, walk, input
  <2> QED
    BY <2>1, <2>2, <2>3 DEF DecodeArray, Base, Typed, Bodies, LastRead, Msgs, walk, input, memory,
       iter
<1>4. Collected'
  <2>1. /\ UNCHANGED <<arrays, views, LastRead, Msgs>> /\ UNCHANGED Here /\ UNCHANGED dropped
        /\ pc' = "finish" => tmp' = WalkGetArray
        /\ pc' = "unshare" => rc' # "OK" /\ tmp' = NoArray
        /\ pc' \in {"unshare", "finish"}
    BY <1>b DEF DecodeArray, LastRead, Msgs, Here, input, iter
  <2> QED
    BY <2>1, <1>1, <1>b DEF Base, Collected, Decoding, Loop
<1>3. Resting'
  BY DEF Base, Typed, Resting, Steps, Loop, LastRead, DecodeArray, WalkGetArray,
     input, reader, walk, memory, iter
<1>5. Position'
  BY DEF Base, Typed, Position, Resting, Loop, EndAt, LastRead, Msgs, Here, DecodeArray,
     WalkGetArray,
     input, reader, walk, memory, iter
<1> QED
  BY <1>2, <1>3, <1>4, <1>5 DEF Base

(* SetArrayView: the body becomes shared, or stays with the reader.         *)
LEMMA BaseSetArrayView ==
    ASSUME Base, SetArrayView
    PROVE  Base'
<1>0. 0 \in 0..Len(Msgs) /\ Len(Msgs) \in Nat
  BY StreamFacts DEF Base, Typed
<1>1. \E bs, stop, code :
          /\ SetViews(bs, stop, code)
          /\ code \in {"OK", "EINVAL", "ENOTSUP", "ENOMEM"}
  BY DEF SetArrayView, MakeBuffer, RefusesBuffer, SwapCode
<1>2. PICK bs, stop, code :
          /\ SetViews(bs, stop, code)
          /\ code \in {"OK", "EINVAL", "ENOTSUP", "ENOMEM"}
  BY <1>1
<1>3. Typed'
  <2>1. scratch' \in [DOMAIN seen -> Bodies]
    BY <1>0, <1>2 DEF SetViews, Base, Typed, Bodies
  <2>2. ArrayType' = ArrayType /\ UNCHANGED <<Bodies, LastRead>>
    BY DEF SetArrayView, ArrayType, Bodies, Msgs, LastRead, walk, input
  <2>3. /\ DOMAIN refs' = DOMAIN refs /\ shared' \in Bodies /\ body' \in Bodies
        /\ rc' \in {"OK", "ENOMEM", "EINVAL", "ESPIPE", "ENOTSUP", "ENODATA"}
    BY <1>0, <1>2 DEF SetViews, Base, Typed, Bodies
  <2> QED
    BY <2>1, <2>2, <2>3 DEF SetArrayView, Base, Typed, Msgs, walk, input, iter
<1>4. Resting'
  BY DEF Base, Typed, Resting, Steps, Loop, LastRead, SetArrayView, SetViews,
     input, reader, walk, memory, iter
<1>5. Position'
  BY DEF Base, Typed, Position, Resting, Loop, EndAt, LastRead, Msgs, Here, SetArrayView, SetViews,
     input, reader, walk, memory, iter
<1>6. Collected'
  BY DEF Base, Resting, Collected, Loop, Decoding, LastRead, Msgs, Here, SetArrayView, SetViews,
     input, reader, walk, memory, iter
<1> QED
  BY <1>3, <1>4, <1>5, <1>6 DEF Base

(* ReadBody: a body that was read ends where its message does.              *)
LEMMA BaseReadBody ==
    ASSUME Base, ReadBody
    PROVE  Base'
<1>0. 0 \in 0..Len(Msgs) /\ Len(Msgs) \in Nat
  BY StreamFacts DEF Base, Typed
<1>b. pc = "body" /\ LastRead \in 2..Len(Msgs) /\ LastRead \in 1..Len(Msgs)
  BY <1>0 DEF ReadBody, Base, Typed, Position, Loop, Bodies
<1> DEFINE want == Len(Here.body)
           got  == BytesRead(cursor, want)
<1>c. /\ want \in Nat /\ Here.header \in Nat /\ stream.starts[LastRead] \in Nat
      /\ EndAt(LastRead) = stream.starts[LastRead] + 8 + Here.header + want
  BY <1>b, StreamFacts DEF Here, LastRead, Base, Typed
<1>d. cursor \in Int /\ cursor <= stream.size /\ stream \in Streams /\ stream.size \in Nat
      /\ cursor \in Nat
  BY StreamFacts DEF Base, Typed
<1>e. got \in Nat /\ cursor + got <= stream.size
  BY <1>c, <1>d, ReadFacts
<1>f. cursor + want = EndAt(LastRead)
  BY <1>b, <1>c DEF Base, Position, Prefix
<1>1. Typed'
  <2>1. cursor' \in 0..stream.size
    BY <1>d, <1>e DEF ReadBody, Fail, ReleaseStream
  <2>2. body' \in Bodies
    BY <1>0, <1>b DEF ReadBody, Fail, ReleaseStream, Bodies, LastRead, Base, Typed
  <2>3. scratch' \in [DOMAIN seen -> Bodies]
    BY <1>0 DEF ReadBody, Fail, ReleaseStream, DecoderReset, Base, Typed, Bodies
  <2>4. ArrayType' = ArrayType /\ UNCHANGED <<Bodies, LastRead>>
    BY DEF ReadBody, Fail, ReleaseStream, ArrayType, Bodies, Msgs, LastRead, walk, input
  <2> QED
    BY <2>1, <2>2, <2>3, <2>4
       DEF ReadBody, Fail, ReleaseStream, DecoderReset, Base, Typed, Msgs, walk, input, iter
<1>3. Position'
  <2>1. UNCHANGED <<stream, LastRead>> /\ pc' \in {"decode", "failed"}
        /\ (pc' = "decode" => cursor' = cursor + want)
    BY DEF ReadBody, Fail, ReleaseStream, LastRead, input
  <2>2. pc' = "decode" => cursor' = EndAt(LastRead)
    BY <2>1, <1>f
  <2> QED
    BY <2>1, <2>2, <1>b DEF Base, Position, Loop, EndAt, Msgs, Here
<1>2. Resting'
  BY DEF Base, Typed, Resting, Steps, Loop, LastRead, ReadBody, Fail, ReleaseStream, DecoderReset,
     input, reader, walk, memory, iter
<1>4. Collected'
  BY DEF Base, Resting, Collected, Loop, Decoding, LastRead, Msgs, Here, ReadBody, Fail,
     ReleaseStream, DecoderReset,
     input, reader, walk, memory, iter
<1> QED
  BY <1>1, <1>2, <1>3, <1>4 DEF Base

(* ReadSchema: the reader stands behind the first message, which was read   *)
(* to its end and is a schema, and every scratch buffer is empty.           *)
LEMMA BaseReadSchema ==
    ASSUME Base, ReadSchema
    PROVE  Base'
<1> DEFINE h == NextHeader("schema")
           m == Msgs[h.dec.last_message]
           code == CASE h.code # "OK"         -> h.code
                     [] h.dec.message_type # "schema" -> "EINVAL"
                     [] m.features # {}       -> "EINVAL"
                     [] ~m.valid              -> "EINVAL"
                     [] OTHER                 -> "OK"
<1>0. /\ 0 \in 0..Len(Msgs) /\ Len(Msgs) \in Nat /\ 1 \in 1..Len(Msgs) /\ stream \in Streams
      /\ stream.starts[1] = 0 /\ stream.size \in Nat /\ DOMAIN Msgs = 1..Len(Msgs)
  BY StreamFacts DEF Base, Typed
<1>1. /\ pc = "schema" /\ cursor = 0 /\ arrays = <<>> /\ tmp = NoArray /\ shared = 0 /\ body = 0
      /\ LastRead = 0 /\ views \in Bodies
  BY DEF ReadSchema, Base, Resting, Position, Loop, Typed
<1>2. cursor = Place(1) /\ 1 \in 1..(Len(Msgs) + 1) /\ Typed
  BY <1>0, <1>1 DEF Place, Base
<1>3. /\ h.code \in {"OK", "EINVAL", "ESPIPE", "ENODATA"}
      /\ h.code = "OK" =>
            /\ Msgs[1].header # 0 /\ cursor < stream.size
            /\ h.bytes = Prefix + Msgs[1].header /\ cursor + h.bytes <= stream.size
            /\ h.dec.last_message = 1 /\ h.dec.message_type = Msgs[1].type
            /\ h.dec = [message_type |-> Msgs[1].type, last_message |-> 1,
                        codec |-> Msgs[1].codec, endianness |-> decoder.endianness]
  <2> HIDE DEF h
  <2> QED
    BY <1>2, HeaderResult DEF h
<1> HIDE DEF h
<1>4. CASE Fail(code) \/ Fail("ENOMEM")
  <2>1. \E c \in {"OK", "EINVAL", "ESPIPE", "ENODATA", "ENOMEM"} : Fail(c)
    BY <1>3, <1>4
  <2>2. Typed'
    BY <2>1, <1>0 DEF Base, Typed, ReadSchema, Fail, ReleaseStream, DecoderReset, Bodies, ArrayType,
       LastRead, Msgs, input, iter, walk
  <2>3. Resting'
    BY <2>1 DEF Base, Resting, Typed, Loop, Steps, ReadSchema, Fail, ReleaseStream, DecoderReset,
       LastRead, input, iter, walk
  <2>4. Position'
    BY <2>1 DEF Base, Typed, Position, Loop, EndAt, LastRead, Msgs, Here, ReadSchema, Fail,
       ReleaseStream, input, iter, walk
  <2>5. Collected'
    BY <2>1 DEF Base, Collected, Loop, Decoding, ReadSchema, Fail, ReleaseStream,
       LastRead, Here, Msgs, input, iter, walk
  <2> QED
    BY <2>2, <2>3, <2>4, <2>5 DEF Base
<1>5. CASE ~(Fail(code) \/ Fail("ENOMEM"))
  <2>1. /\ code = "OK" /\ schema' = TRUE
        /\ seen' = Layouts[m.root].seen
        /\ scratch' = [k \in DOMAIN Layouts[m.root].seen |-> 0]
        /\ cursor' = cursor + h.bytes
        /\ decoder' = SetEndianness(h.dec, m.endianness)
        /\ pc' = "header" /\ rc' = "OK"
        /\ UNCHANGED <<opened, body, shared, tmp, memory, arrays, views, pyerr>>
        /\ UNCHANGED <<input, iter>>
    BY <1>5 DEF ReadSchema, h
  <2>2. h.code = "OK" /\ Msgs[1].type = "schema" /\ m = Msgs[1]
    BY <2>1, <1>3
  <2>3. Layouts[m.root].seen \in Seq(Views)
    <3>1. m.root \in DOMAIN Layouts
      BY <2>2, <1>0 DEF Layouts, Msgs
    <3> QED
      BY <3>1, WalkAssumption DEF Views
  <2>4. /\ decoder'.last_message = 1
        /\ decoder'.endianness \in {"uninitialized", "little", "big"}
    BY <2>1, <2>2, <1>3 DEF SetEndianness, Base, Typed
  <2>5. cursor' = EndAt(1) /\ cursor' \in 0..stream.size
    <3>1. EndAt(1) = stream.starts[1] + 8 + Msgs[1].header + Len(Msgs[1].body)
          /\ Msgs[1].header \in Nat /\ Len(Msgs[1].body) = 0
      BY <1>0, <2>2, StreamFacts
    <3> QED
      BY <3>1, <2>1, <2>2, <1>0, <1>1, <1>3 DEF Prefix
  <2>6. UNCHANGED <<stream, Msgs, Bodies>>
    BY <2>1 DEF input, Msgs, Bodies
  <2>7. Typed'
    <3>1. scratch' \in [DOMAIN seen' -> Bodies]
      BY <2>1, <1>0 DEF Bodies
    <3>2. seen' \in Seq(Views)
      BY <2>1, <2>3
    <3>3. arrays' \in Seq(ArrayType') /\ tmp' = NoArray
      BY <2>1, <1>1
    <3>4. LastRead' \in Bodies
      BY <2>4, <1>0 DEF LastRead, Bodies
    <3> QED
      BY <3>1, <3>2, <3>3, <3>4, <2>1, <2>4, <2>5, <2>6, <1>1
         DEF Base, Typed, memory, input, iter
  <2>8. Resting'
    BY <2>1, <1>1 DEF Base, Resting, Steps, Loop, iter, input
  <2>9. Position'
    <3>1. LastRead' = 1 /\ pc' = "header" /\ EndAt(1)' = EndAt(1)
      BY <2>1, <2>4, <2>6 DEF LastRead, EndAt
    <3>2. /\ Msgs[1].type = "schema" /\ Msgs[1].header # 0 /\ stream.starts[1] < stream.size
      BY <2>2, <1>3, <1>0, <1>1
    <3>3. LastRead' > 0 /\ cursor' = EndAt(LastRead)'
      BY <3>1, <2>5, <2>1, <2>4, <2>6 DEF LastRead, EndAt
    <3> QED
      BY <3>1, <3>2, <3>3, <2>6 DEF Position, Loop, Here
  <2>10. Collected'
    <3>1. LastRead' = 1 /\ pc' = "header" /\ views' = 0 /\ arrays' = <<>> /\ tmp' = NoArray
      BY <2>1, <2>4, <1>1 DEF LastRead, Base, Resting
    <3> QED
      BY <3>1 DEF Collected, Loop, Decoding
  <2> QED
    BY <2>7, <2>8, <2>9, <2>10 DEF Base
<1> QED
  BY <1>4, <1>5

(* Between two batches the reader stands where the next message is due.     *)
LEMMA NextDue ==
    ASSUME Base, pc = "header"
    PROVE  cursor = Place(LastRead + 1) /\ LastRead + 1 \in 1..(Len(Msgs) + 1)
<1>0. Len(Msgs) \in Nat /\ stream \in Streams
  BY StreamFacts DEF Base, Typed
<1>1. LastRead \in 1..Len(Msgs) /\ cursor = EndAt(LastRead)
  BY <1>0 DEF Base, Position, Loop, Typed, Bodies
<1>2. LastRead < Len(Msgs) => stream.starts[LastRead + 1] = EndAt(LastRead)
  BY <1>0, <1>1, StreamFacts
<1>3. \A x, n \in Nat : x \in 1..n =>
          /\ x + 1 \in 1..(n + 1)
          /\ (x < n /\ x + 1 <= n) \/ (x = n /\ ~(x + 1 <= n))
  OBVIOUS
<1>4. /\ LastRead + 1 \in 1..(Len(Msgs) + 1)
      /\ \/ LastRead < Len(Msgs) /\ LastRead + 1 <= Len(Msgs)
         \/ LastRead = Len(Msgs) /\ ~(LastRead + 1 <= Len(Msgs))
  <2>1. Len(Msgs) \in Nat /\ LastRead \in Nat /\ LastRead \in 1..Len(Msgs)
    BY <1>0, <1>1
  <2> QED
    BY <2>1, <1>3
<1> QED
  BY <1>1, <1>2, <1>4 DEF Place

(* ReadBatchHeader: the next message is due, and only the header of a       *)
(* record batch is accepted.                                                *)
LEMMA BaseReadBatchHeader ==
    ASSUME Base, ReadBatchHeader
    PROVE  Base'
<1> DEFINE h == NextHeader("batch")
           code == IF h.code = "OK" /\ h.dec.message_type # "batch" THEN "EINVAL" ELSE h.code
           i == LastRead + 1
<1>0. /\ 0 \in 0..Len(Msgs) /\ Len(Msgs) \in Nat /\ stream \in Streams /\ stream.size \in Nat
      /\ DOMAIN Msgs = 1..Len(Msgs)
  BY StreamFacts DEF Base, Typed
<1>1. /\ pc = "header" /\ LastRead \in 1..Len(Msgs) /\ cursor = EndAt(LastRead)
  BY <1>0 DEF ReadBatchHeader, Base, Position, Loop, Typed, Bodies
<1>2. cursor = Place(i) /\ i \in 1..(Len(Msgs) + 1) /\ Typed
  BY <1>1, NextDue DEF Base
<1> HIDE DEF i
<1>3. /\ h.code \in {"OK", "EINVAL", "ESPIPE", "ENODATA"}
      /\ h.code = "OK" =>
            /\ i \in 1..Len(Msgs) /\ cursor = stream.starts[i]
            /\ Msgs[i].header # 0 /\ cursor < stream.size
            /\ h.bytes = Prefix + Msgs[i].header /\ cursor + h.bytes <= stream.size
            /\ h.dec.last_message = i /\ h.dec.message_type = Msgs[i].type
            /\ h.dec = [message_type |-> Msgs[i].type, last_message |-> i,
                        codec |-> Msgs[i].codec, endianness |-> decoder.endianness]
  <2> HIDE DEF h
  <2> QED
    BY <1>2, HeaderResult DEF h
<1> HIDE DEF h
<1>4. CASE \/ Fail(code) \/ Fail("ENOMEM")
           \/ rc' = "OK" /\ ReleaseStream("opened") /\ UNCHANGED <<arrays, views, pyerr>>
  <2>1. /\ ReleaseStream(pc') /\ pc' \in {"failed", "opened"}
        /\ UNCHANGED <<arrays, views, input, iter>> /\ pyerr' \in {TRUE, pyerr}
        /\ rc' \in {"OK", "EINVAL", "ESPIPE", "ENODATA", "ENOMEM"}
    BY <1>3, <1>4 DEF Fail, ReleaseStream, ReadBatchHeader
  <2>2. Typed'
    BY <2>1, <1>0 DEF Base, Typed, ReleaseStream, DecoderReset, Bodies, ArrayType,
       LastRead, Msgs, input, iter, walk
  <2>3. Resting'
    BY <2>1, <1>1 DEF Base, Resting, Typed, Loop, Steps, ReleaseStream, DecoderReset,
       LastRead, input, iter, walk
  <2>4. Position'
    BY <2>1 DEF Base, Typed, Position, Loop, EndAt, LastRead, Msgs, Here, ReadSchema,
       ReleaseStream, input, iter, walk
  <2>5. Collected'
    BY <2>1, <1>1 DEF Base, Collected, Loop, Decoding, ReadSchema, ReleaseStream,
       LastRead, Here, Msgs, input, iter, walk
  <2> QED
    BY <2>2, <2>3, <2>4, <2>5 DEF Base
<1>5. CASE /\ code = "OK" /\ cursor' = cursor + h.bytes /\ decoder' = h.dec
           /\ pc' = "body" /\ rc' = "OK"
           /\ UNCHANGED <<walk, schema, opened, body, shared, scratch, tmp, memory, arrays,
                          views, pyerr>>
  <2>1. UNCHANGED <<input, iter>> /\ h.code = "OK" /\ Msgs[i].type = "batch"
    BY <1>5, <1>3 DEF ReadBatchHeader
  <2>2. decoder'.last_message = i /\ decoder'.endianness = decoder.endianness
    BY <2>1, <1>3, <1>5
  <2>3. i = LastRead + 1 /\ i \in 1..Len(Msgs) /\ i - 1 = LastRead
    BY <2>1, <1>0, <1>1, <1>3 DEF i
  <2>4. UNCHANGED <<stream, Msgs, Bodies, ArrayType>>
    BY <2>1, <1>5 DEF input, walk, Msgs, Bodies, ArrayType
  <2>5. cursor' \in 0..stream.size
    <3>1. Msgs[i].header \in Nat /\ cursor \in Nat
      BY <2>3, <1>0, StreamFacts DEF Base, Typed
    <3> QED
      BY <3>1, <1>0, <1>3, <1>5, <2>1 DEF Prefix
  <2>7. Typed'
    <3>4. LastRead' \in Bodies
      BY <2>2, <2>3, <1>0 DEF LastRead, Bodies
    <3> QED
      BY <3>4, <1>5, <2>1, <2>2, <2>4, <2>5 DEF Base, Typed, memory, input, iter, walk
  <2>8. Resting'
    BY <2>1, <1>1, <1>5 DEF Base, Resting, Steps, Loop, iter, input, walk
  <2>9. Position'
    <3>1. LastRead' = i /\ pc' = "body"
      BY <1>5, <2>2 DEF LastRead
    <3>2. cursor' = stream.starts[i] + Prefix + Msgs[i].header
      <4>1. Msgs[i].header \in Nat /\ stream.starts[i] \in Nat
        BY <2>3, <1>0, StreamFacts
      <4>2. \A s, n \in Nat : s + (8 + n) = (s + 8) + n
        OBVIOUS
      <4> QED
        BY <4>1, <4>2, <2>1, <1>3, <1>5 DEF Prefix
    <3>3. ASSUME NEW j \in 1..i
          PROVE  /\ Msgs[j].type = (IF j = 1 THEN "schema" ELSE "batch")
                 /\ Msgs[j].header # 0 /\ stream.starts[j] < stream.size
                 /\ j < i => EndAt(j) <= stream.size
      <4>1. CASE j = i
        BY <4>1, <2>1, <2>3, <1>1, <1>3
      <4>2. CASE j # i
        <5>1. j \in 1..LastRead
          BY <4>2, <2>3, <1>1, <1>0
        <5>2. EndAt(LastRead) <= stream.size
          BY <1>1 DEF Base, Typed
        <5> QED
          BY <5>1, <5>2, <1>1 DEF Base, Position
      <4> QED
        BY <4>1, <4>2
    <3>4. EndAt(LastRead)' = EndAt(i) /\ \A j : EndAt(j)' = EndAt(j)
      BY <3>1, <2>2, <2>4 DEF EndAt, LastRead
    <3>5. Here' = Msgs[i] /\ Msgs' = Msgs /\ stream' = stream
      BY <2>2, <2>4 DEF Here
    <3>6. LastRead' > 1
      BY <3>1, <2>3, <1>1
    <3>7. pc' \notin {"open", "schema"} \cup (Loop \ {"body"})
      BY <3>1 DEF Loop
    <3>8. LastRead' > 0
      BY <3>6, <3>1, <2>3, <1>0
    <3> QED
      BY <3>1, <3>2, <3>3, <3>4, <3>5, <3>6, <3>7, <3>8 DEF Position
  <2>10. Collected'
    <3>1. /\ LastRead' = i /\ pc' = "body" /\ tmp' = NoArray /\ UNCHANGED <<arrays, views, Msgs>>
      BY <1>1, <1>5, <2>2, <2>4 DEF LastRead, Base, Resting
    <3>2. Len(arrays) = i - 2 /\ views = Len(arrays) /\ Len(arrays) < i
      BY <1>1, <2>3, <1>0 DEF Base, Collected, Loop
    <3> QED
      BY <3>1, <3>2 DEF Base, Collected, Loop, Decoding
  <2> QED
    BY <2>7, <2>8, <2>9, <2>10 DEF Base
<1> QED
  BY <1>4, <1>5 DEF ReadBatchHeader, h

(* The reader starts at the first byte with nothing.                        *)
LEMMA BaseInit == Init => Base
<1> SUFFICES ASSUME Init PROVE Base
  OBVIOUS
<1>0. 0 \in 0..Len(Msgs) /\ Len(Msgs) \in Nat /\ DOMAIN Msgs = 1..Len(Msgs) /\ stream.size \in Nat
  BY StreamFacts DEF Init
<1>1. Typed
  <2>1. /\ stream \in Streams /\ system \in {"little", "big"} /\ sharing \in BOOLEAN
        /\ dropped = FALSE /\ DOMAIN refs = DOMAIN Msgs /\ LastRead \in Bodies
        /\ decoder.endianness = "uninitialized"
    BY <1>0 DEF Init, Bodies, LastRead, Msgs
  <2>2. seen \in Seq(Views) /\ arrays \in Seq(ArrayType) /\ scratch \in [DOMAIN seen -> Bodies]
    <3>1. DOMAIN <<>> = {} /\ <<>> \in [{} -> Bodies]
      OBVIOUS
    <3>2. <<>> \in Seq(Views) /\ <<>> \in Seq(ArrayType)
      OBVIOUS
    <3> QED
      BY <3>1, <3>2 DEF Init
  <2>3. /\ body \in Bodies /\ shared \in Bodies /\ views \in Bodies /\ cursor \in 0..stream.size
        /\ tmp = NoArray /\ rc = "OK" /\ opened = FALSE /\ schema = FALSE /\ pyerr = FALSE
    BY <1>0 DEF Init, Bodies
  <2> QED
    BY <2>1, <2>2, <2>3 DEF Typed
<1>2. Resting
  BY DEF Init, Resting, Steps, Loop, LastRead
<1>3. Position
  BY DEF Init, Position, Loop, LastRead
<1>4. Collected
  BY DEF Init, Collected, Loop, Decoding, LastRead
<1> QED
  BY <1>1, <1>2, <1>3, <1>4 DEF Base

(* Every step keeps it.                                                     *)
LEMMA BaseStep == Base /\ [Next]_vars => Base'
<1> SUFFICES ASSUME Base, [Next]_vars PROVE Base'
  OBVIOUS
<1>1. CASE UNCHANGED vars
  BY <1>1 DEF vars, input, reader, walk, memory, iter, Base, Typed, Resting, Position, Collected,
     Bodies, ArrayType, LastRead, Msgs, Here, EndAt
<1>2. CASE Next
  BY <1>2, BaseShortSteps, BaseDelete, BaseConvert, BaseAppendArray, BaseDecodeArray,
     BaseSetArrayView, BaseReadBody, BaseReadSchema, BaseReadBatchHeader DEF Next, Construct
<1> QED
  BY <1>1, <1>2

-----------------------------------------------------------------------------
(* Counting references.                                                     *)

(* A count that drops the references in D, some of those in H, and adds the *)
(* new ones in T counts what is left; it is 0 when nothing is.              *)
LEMMA CountChange ==
    ASSUME NEW H, IsFiniteSet(H), NEW D, D \subseteq H, NEW T, IsFiniteSet(T), T \cap H = {},
           NEW l \in {0, 1}
    PROVE  /\ Cardinality(H) + l + Cardinality(T) - Cardinality(D)
                 = Cardinality((H \ D) \cup T) + l
           /\ Cardinality((H \ D) \cup T) + l = 0 <=> (H \ D) \cup T = {} /\ l = 0
           /\ IsFiniteSet((H \ D) \cup T) /\ Cardinality(H) + l \in Nat
<1>1. IsFiniteSet(D) /\ IsFiniteSet(H \ D) /\ H \cap D = D
  BY FS_Subset, FS_Difference
<1>2. Cardinality(H \ D) = Cardinality(H) - Cardinality(D)
  BY <1>1, FS_Difference
<1>3. (H \ D) \cap T = {}
  OBVIOUS
<1>4. Cardinality((H \ D) \cup T) = Cardinality(H \ D) + Cardinality(T) - 0
      /\ IsFiniteSet((H \ D) \cup T)
  BY <1>1, <1>3, FS_Union, FS_EmptySet
<1>5. /\ Cardinality(H) \in Nat /\ Cardinality(D) \in Nat /\ Cardinality(T) \in Nat
      /\ Cardinality((H \ D) \cup T) \in Nat
  BY <1>1, <1>4, FS_CardinalityType
<1>6. Cardinality((H \ D) \cup T) = 0 <=> (H \ D) \cup T = {}
  BY <1>4, FS_EmptySet
<1> QED
  BY <1>2, <1>4, <1>5, <1>6

(* The references of an array of buffers, tagged with their holder.         *)
Tagged(f, tag, i) == {<<<<tag, i, k>>, f[k]>> : k \in {j \in DOMAIN f : f[j] # 0}}

(* What refers to body b when these are the scratch buffers, the array      *)
(* being decoded, the arrays and the handle.                                *)
HoldersOf(sc, tm, ar, sh, b) ==
    {h \in Tagged(sc, "scratch", 0) \cup Tagged(tm, "tmp", 0)
             \cup UNION {Tagged(ar[i].bufs, "array", i) : i \in DOMAIN ar} : h[2] = b}
        \cup (IF sh = b THEN {<<Handle, b>>} ELSE {})

(* Holders in this state and in the next one.                               *)
LEMMA HoldersAre ==
    /\ \A b : Holders(b) = HoldersOf(scratch, tmp.bufs, arrays, shared, b)
    /\ \A b : Holders(b)' = HoldersOf(scratch', tmp'.bufs, arrays', shared', b)
  BY DEF Holders, HoldersOf, Tagged, ScratchRefs, RefsOf, ArrayRefs

(* A reference in a tagged set is a buffer that refers to the body.         *)
LEMMA TaggedMembers ==
    ASSUME NEW f, NEW tag, NEW i, NEW b, b # 0, NEW h
    PROVE  h \in Tagged(f, tag, i) /\ h[2] = b <=>
              \E k \in DOMAIN f : f[k] = b /\ h = <<<<tag, i, k>>, b>>
<1>1. ASSUME h \in Tagged(f, tag, i), h[2] = b
      PROVE  \E k \in DOMAIN f : f[k] = b /\ h = <<<<tag, i, k>>, b>>
  <2>1. PICK k \in DOMAIN f : h = <<<<tag, i, k>>, f[k]>>
    BY <1>1 DEF Tagged
  <2>2. f[k] = b
    BY <2>1, <1>1
  <2> QED
    BY <2>1, <2>2
<1>2. ASSUME NEW k \in DOMAIN f, f[k] = b, h = <<<<tag, i, k>>, b>>
      PROVE  h \in Tagged(f, tag, i) /\ h[2] = b
  BY <1>2 DEF Tagged
<1> QED
  BY <1>1, <1>2

(* A holder is a scratch buffer, a buffer of an array, or the handle.       *)
LEMMA HolderMembers ==
    ASSUME NEW sc, NEW tm, NEW ar, NEW sh, NEW b, b # 0, NEW h
    PROVE  h \in HoldersOf(sc, tm, ar, sh, b) <=>
              \/ \E k \in DOMAIN sc : sc[k] = b /\ h = <<<<"scratch", 0, k>>, b>>
              \/ \E k \in DOMAIN tm : tm[k] = b /\ h = <<<<"tmp", 0, k>>, b>>
              \/ \E i \in DOMAIN ar : \E k \in DOMAIN ar[i].bufs :
                    ar[i].bufs[k] = b /\ h = <<<<"array", i, k>>, b>>
              \/ sh = b /\ h = <<Handle, b>>
<1> DEFINE A == UNION {Tagged(ar[i].bufs, "array", i) : i \in DOMAIN ar}
<1>2. h \in A /\ h[2] = b <=> \E i \in DOMAIN ar : h \in Tagged(ar[i].bufs, "array", i) /\ h[2] = b
  OBVIOUS
<1>3. h \in HoldersOf(sc, tm, ar, sh, b) <=>
              \/ h \in Tagged(sc, "scratch", 0) /\ h[2] = b
              \/ h \in Tagged(tm, "tmp", 0) /\ h[2] = b
              \/ h \in A /\ h[2] = b
              \/ sh = b /\ h = <<Handle, b>>
  BY DEF HoldersOf
<1> HIDE DEF A
<1>4. h \in Tagged(sc, "scratch", 0) /\ h[2] = b <=>
         \E k \in DOMAIN sc : sc[k] = b /\ h = <<<<"scratch", 0, k>>, b>>
  BY TaggedMembers
<1>5. h \in Tagged(tm, "tmp", 0) /\ h[2] = b <=>
         \E k \in DOMAIN tm : tm[k] = b /\ h = <<<<"tmp", 0, k>>, b>>
  BY TaggedMembers
<1>6. ASSUME NEW i \in DOMAIN ar
      PROVE  h \in Tagged(ar[i].bufs, "array", i) /\ h[2] = b <=>
                \E k \in DOMAIN ar[i].bufs : ar[i].bufs[k] = b /\ h = <<<<"array", i, k>>, b>>
  BY TaggedMembers
<1> QED
  BY <1>2, <1>3, <1>4, <1>5, <1>6

(* The image of a finite set is finite.                                     *)
LEMMA ImageFinite ==
    ASSUME NEW D, IsFiniteSet(D), NEW f
    PROVE  IsFiniteSet({f[d] : d \in D})
<1> DEFINE T == {f[d] : d \in D}
           g == [d \in D |-> f[d]]
<1>1. g \in Surjection(D, T)
  BY DEF Surjection
<1> HIDE DEF T, g
<1>2. IsFiniteSet(T)
  BY <1>1, FS_Surjection
<1> QED
  BY <1>2 DEF T

(* Finitely many buffers hold finitely many references.                     *)
LEMMA HoldersFinite ==
    ASSUME NEW sc, IsFiniteSet(DOMAIN sc), NEW tm, IsFiniteSet(DOMAIN tm),
           NEW ar, IsFiniteSet(DOMAIN ar), \A i \in DOMAIN ar : IsFiniteSet(DOMAIN ar[i].bufs),
           NEW sh, NEW b
    PROVE  IsFiniteSet(HoldersOf(sc, tm, ar, sh, b))
<1>1. ASSUME NEW f, IsFiniteSet(DOMAIN f), NEW tag, NEW i
      PROVE  IsFiniteSet(Tagged(f, tag, i))
  <2> DEFINE g == [k \in DOMAIN f |-> <<<<tag, i, k>>, f[k]>>]
             D == {j \in DOMAIN f : f[j] # 0}
  <2>1. IsFiniteSet(D)
    BY <1>1, FS_Subset
  <2>2. Tagged(f, tag, i) = {g[d] : d \in D}
    BY DEF Tagged
  <2> HIDE DEF g, D
  <2>3. IsFiniteSet({g[d] : d \in D})
    BY <2>1, ImageFinite
  <2> QED
    BY <2>2, <2>3
<1> DEFINE r == [i \in DOMAIN ar |-> Tagged(ar[i].bufs, "array", i)]
           S == {Tagged(ar[i].bufs, "array", i) : i \in DOMAIN ar}
<1>2. IsFiniteSet(S)
  <2>1. S = {r[i] : i \in DOMAIN ar}
    OBVIOUS
  <2> HIDE DEF r, S
  <2> QED
    BY <2>1, ImageFinite
<1>3. \A T \in S : IsFiniteSet(T)
  BY <1>1
<1> HIDE DEF S
<1>4. IsFiniteSet(UNION S)
  BY <1>2, <1>3, FS_UNION
<1> DEFINE U == Tagged(sc, "scratch", 0) \cup Tagged(tm, "tmp", 0) \cup UNION S
<1>5. IsFiniteSet(Tagged(sc, "scratch", 0)) /\ IsFiniteSet(Tagged(tm, "tmp", 0))
  BY <1>1
<1>6. IsFiniteSet(U)
  BY <1>4, <1>5, FS_Union
<1> DEFINE V == U \cup {<<Handle, b>>}
<1>7. IsFiniteSet(V)
  BY <1>6, FS_AddElement
<1>8. HoldersOf(sc, tm, ar, sh, b) \subseteq V
  BY DEF HoldersOf, S
<1> HIDE DEF V
<1> QED
  BY <1>7, <1>8, FS_Subset

(* In every state a body has finitely many holders.                         *)
LEMMA FiniteNow ==
    ASSUME Typed, NEW b
    PROVE  IsFiniteSet(Holders(b))
<1>1. IsFiniteSet(DOMAIN seen)
  <2>1. DOMAIN seen = 1..Len(seen) /\ Len(seen) \in Nat
    BY DEF Typed
  <2> QED
    BY <2>1, FS_Interval
<1>2. IsFiniteSet(DOMAIN scratch)
  BY <1>1 DEF Typed
<1>3. IsFiniteSet(DOMAIN tmp.bufs)
  <2>1. CASE tmp \in ArrayType
    BY <2>1, <1>1 DEF ArrayType
  <2>2. CASE tmp = NoArray
    <3>1. DOMAIN tmp.bufs = {}
      BY <2>2 DEF NoArray
    <3> QED
      BY <3>1, FS_EmptySet
  <2> QED
    BY <2>1, <2>2 DEF Typed
<1>4. IsFiniteSet(DOMAIN arrays)
  <2>1. DOMAIN arrays = 1..Len(arrays) /\ Len(arrays) \in Nat
    BY DEF Typed
  <2> QED
    BY <2>1, FS_Interval
<1>5. \A i \in DOMAIN arrays : IsFiniteSet(DOMAIN arrays[i].bufs)
  <2>1. \A i \in DOMAIN arrays : arrays[i] \in ArrayType
    BY DEF Typed
  <2> QED
    BY <2>1, <1>1 DEF ArrayType
<1> QED
  BY <1>2, <1>3, <1>4, <1>5, HoldersFinite, HoldersAre

\* The references to body b in a set of references.
To(S, b) == {h \in S : h[2] = b}

(* References are dropped, and the body of the reader is freed or kept: the *)
(* counts stay exact and what nobody refers to is gone.                     *)
LEMMA OwnedDrop ==
    ASSUME Typed, Owned, NEW held, NEW freed,
           \A b \in DOMAIN Msgs :
              /\ To(held, b) \subseteq Holders(b) /\ Holders(b)' = Holders(b) \ To(held, b)
              /\ refs'[b] = refs[b] - Cardinality(To(held, b))
              /\ b \in live' <=> b \in live /\ b # freed /\ ~(To(held, b) # {} /\ refs'[b] = 0),
           live' \subseteq live, lost' = lost, UNCHANGED <<stream, LastRead>>, pc' # "body",
           (body' = 0 /\ freed = body) \/ (body' = body /\ freed = 0)
    PROVE  Owned'
<1>0. UNCHANGED Msgs /\ 0 \notin DOMAIN Msgs /\ DOMAIN Msgs = 1..Len(Msgs) /\ body \in 0..Len(Msgs)
  BY StreamFacts DEF Msgs, Typed, Bodies
<1>1. ASSUME NEW b \in DOMAIN Msgs
      PROVE  /\ refs'[b] = Cardinality(Holders(b)') + (IF b \in lost' THEN 1 ELSE 0)
             /\ b \in live' <=> Holders(b)' # {} \/ b \in lost' \/ body' = b
             /\ body' = b => Holders(b)' = {} /\ b \notin lost'
  <2> DEFINE H == Holders(b)
             D == To(held, b)
             l == IF b \in lost THEN 1 ELSE 0
  <2>1. /\ D \subseteq H /\ Holders(b)' = H \ D /\ refs'[b] = refs[b] - Cardinality(D)
        /\ refs[b] = Cardinality(H) + l
        /\ b \in live' <=> b \in live /\ b # freed /\ ~(D # {} /\ refs'[b] = 0)
        /\ b \in live <=> H # {} \/ b \in lost \/ body = b
        /\ body = b => H = {} /\ b \notin lost
        /\ b # 0
    BY <1>0 DEF Owned
  <2>2. IsFiniteSet(H) /\ l \in {0, 1} /\ IsFiniteSet({}) /\ {} \cap H = {} /\ Cardinality({}) = 0
    BY FiniteNow, FS_EmptySet
  <2>3. /\ (b \in lost <=> l = 1) /\ lost' = lost
        /\ (body' = 0 /\ freed = body) \/ (body' = body /\ freed = 0)
    OBVIOUS
  <2> HIDE DEF H, D, l
  <2>4. /\ Cardinality(H) + l + 0 - Cardinality(D) = Cardinality((H \ D) \cup {}) + l
        /\ Cardinality((H \ D) \cup {}) + l = 0 <=> (H \ D) \cup {} = {} /\ l = 0
        /\ Cardinality(H) + l \in Nat
    BY <2>1, <2>2, CountChange
  <2>5. Cardinality(D) \in Nat
    BY <2>1, <2>2, FS_Subset, FS_CardinalityType
  <2>6. (H \ D) \cup {} = H \ D
    OBVIOUS
  <2>7. refs'[b] = Cardinality(H \ D) + l /\ (refs'[b] = 0 <=> H \ D = {} /\ l = 0)
    BY <2>1, <2>4, <2>5, <2>6
  <2>8. refs'[b] = Cardinality(Holders(b)') + (IF b \in lost' THEN 1 ELSE 0)
    BY <2>1, <2>3, <2>7 DEF l
  <2>9. b \in live' <=> Holders(b)' # {} \/ b \in lost' \/ body' = b
    BY <2>1, <2>3, <2>7, <2>2
  <2>10. body' = b => Holders(b)' = {} /\ b \notin lost'
    BY <2>1, <2>3
  <2> QED
    BY <2>8, <2>9, <2>10
<1>2. lost' \subseteq live' /\ live' \subseteq 1..LastRead'
  <2>1. lost \subseteq DOMAIN Msgs
    BY <1>0 DEF Owned, Typed, Bodies
  <2> QED
    BY <2>1, <1>1 DEF Owned
<1> QED
  BY <1>0, <1>1, <1>2 DEF Owned

(* Nobody takes or drops a reference.                                       *)
LEMMA OwnedSame ==
    ASSUME Typed, Owned, \A b \in DOMAIN Msgs : Holders(b)' = Holders(b),
           UNCHANGED <<stream, refs, live, lost, body>>,
           LastRead' \in Nat, LastRead <= LastRead', pc' = "body" => LastRead' \notin live
    PROVE  Owned'
<1>1. UNCHANGED Msgs /\ LastRead \in Nat
  BY StreamFacts DEF Msgs, Typed, Bodies
<1>2. live' \subseteq 1..LastRead'
  BY <1>1 DEF Owned
<1> QED
  BY <1>1, <1>2 DEF Owned

(* The holders are the same when the buffers are.                           *)
LEMMA HoldersSame ==
    ASSUME UNCHANGED <<scratch, tmp, arrays, shared>>, NEW b
    PROVE  Holders(b)' = Holders(b)
  BY HoldersAre

(* ArrowIpcSharedBufferFree for the references in held.                     *)
LEMMA OwnedCounted ==
    ASSUME Typed, Owned, NEW held, Counted(held, {}),
           \A b \in DOMAIN Msgs :
              To(held, b) \subseteq Holders(b) /\ Holders(b)' = Holders(b) \ To(held, b),
           UNCHANGED <<stream, LastRead, body>>, pc' # "body"
    PROVE  Owned'
<1>0. DOMAIN refs = DOMAIN Msgs /\ 0 \notin DOMAIN Msgs
  BY StreamFacts DEF Typed
<1>1. ASSUME NEW b \in DOMAIN Msgs
      PROVE  refs'[b] = refs[b] - Cardinality(To(held, b))
  <2>1. refs'[b] = refs[b] + Cardinality({h \in {} : h[2] = b})
                           - Cardinality({h \in held : h[2] = b})
    BY <1>0 DEF Counted
  <2>2. {h \in {} : h[2] = b} = {} /\ Cardinality({}) = 0
    BY FS_EmptySet
  <2>3. refs[b] \in Nat
    <3>1. IsFiniteSet(Holders(b))
      BY FiniteNow
    <3>2. Cardinality(Holders(b)) \in Nat
      BY <3>1, FS_CardinalityType
    <3> QED
      BY <3>2 DEF Owned
  <2> DEFINE none == Cardinality({h \in {} : h[2] = b})
             drop == Cardinality({h \in held : h[2] = b})
  <2>4. none = 0 /\ refs'[b] = refs[b] + none - drop /\ Cardinality(To(held, b)) = drop
    BY <2>1, <2>2 DEF To
  <2> HIDE DEF none, drop
  <2>5. Cardinality(To(held, b)) \in Nat
    BY FiniteNow, FS_Subset, FS_CardinalityType
  <2> QED
    BY <2>3, <2>4, <2>5
<1>2. ASSUME NEW b \in DOMAIN Msgs
      PROVE  b \in live' <=> b \in live /\ b # 0 /\ ~(To(held, b) # {} /\ refs'[b] = 0)
  BY <1>0 DEF Counted, To
<1>3. live' \subseteq live /\ lost' = lost
  BY DEF Counted
<1> HIDE DEF To
<1> QED
  BY <1>0, <1>1, <1>2, <1>3, OwnedDrop

(* ArrowIpcArrayStreamReaderRelease: the scratch buffers drop what they     *)
(* hold and the body of the reader is freed.                                *)
LEMMA OwnedRelease ==
    ASSUME Typed, Owned, NEW next, next # "body", ReleaseStream(next), UNCHANGED <<stream, arrays>>
    PROVE  Owned'
<1>0. DOMAIN refs = DOMAIN Msgs /\ 0 \notin DOMAIN Msgs
  BY StreamFacts DEF Typed
<1>1. ASSUME NEW b \in DOMAIN Msgs
      PROVE  /\ To(ScratchRefs, b) \subseteq Holders(b)
             /\ Holders(b)' = Holders(b) \ To(ScratchRefs, b)
  <2>0. b # 0
    BY <1>0
  <2>1. \A h : h \in To(ScratchRefs, b) <=>
                  \E k \in DOMAIN scratch : scratch[k] = b /\ h = <<<<"scratch", 0, k>>, b>>
    <3>1. ScratchRefs = Tagged(scratch, "scratch", 0)
      BY DEF ScratchRefs, Tagged
    <3> QED
      BY <3>1, <2>0, TaggedMembers DEF To
  <2>2. \A h : h \in Holders(b) <=>
              \/ \E k \in DOMAIN scratch : scratch[k] = b /\ h = <<<<"scratch", 0, k>>, b>>
              \/ \E k \in DOMAIN tmp.bufs : tmp.bufs[k] = b /\ h = <<<<"tmp", 0, k>>, b>>
              \/ \E i \in DOMAIN arrays : \E k \in DOMAIN arrays[i].bufs :
                    arrays[i].bufs[k] = b /\ h = <<<<"array", i, k>>, b>>
              \/ shared = b /\ h = <<Handle, b>>
    BY <2>0, HoldersAre, HolderMembers
  <2>3. \A h : h \in Holders(b)' <=>
              \/ \E k \in DOMAIN scratch' : scratch'[k] = b /\ h = <<<<"scratch", 0, k>>, b>>
              \/ \E k \in DOMAIN tmp'.bufs : tmp'.bufs[k] = b /\ h = <<<<"tmp", 0, k>>, b>>
              \/ \E i \in DOMAIN arrays' : \E k \in DOMAIN arrays'[i].bufs :
                    arrays'[i].bufs[k] = b /\ h = <<<<"array", i, k>>, b>>
              \/ shared' = b /\ h = <<Handle, b>>
    BY <2>0, HoldersAre, HolderMembers
  <2>4. /\ ~\E k \in DOMAIN scratch' : scratch'[k] = b
        /\ UNCHANGED <<tmp, arrays, shared>>
    BY <2>0 DEF ReleaseStream, DecoderReset
  <2> QED
    BY <2>1, <2>2, <2>3, <2>4 DEF Handle
<1>2. /\ refs' = [b \in DOMAIN refs |-> refs[b] - Cardinality({h \in ScratchRefs : h[2] = b})]
      /\ lost' = lost /\ body' = 0 /\ UNCHANGED LastRead /\ pc' = next
  BY DEF ReleaseStream, DecoderReset, LastRead
<1>3. ASSUME NEW b \in DOMAIN Msgs
      PROVE  refs'[b] = refs[b] - Cardinality(To(ScratchRefs, b))
  BY <1>0, <1>2 DEF To
<1>4. ASSUME NEW b \in DOMAIN Msgs
      PROVE  b \in live' <=>
                b \in live /\ b # body /\ ~(To(ScratchRefs, b) # {} /\ refs'[b] = 0)
  <2>1. live' = live \ ({body} \cup {h[2] : h \in {d \in ScratchRefs :
                           refs[d[2]] - Cardinality({h \in ScratchRefs : h[2] = d[2]}) = 0}})
    BY DEF ReleaseStream, DecoderReset
  <2>2. refs'[b] = refs[b] - Cardinality({h \in ScratchRefs : h[2] = b})
    BY <1>0, <1>2
  <2> QED
    BY <2>1, <2>2 DEF To
<1>5. live' \subseteq live
  BY DEF ReleaseStream, DecoderReset
<1> HIDE DEF To
<1>6. pc' # "body"
  BY <1>2
<1>7. PICK held : held = ScratchRefs
  OBVIOUS
<1>8. PICK freed : freed = body
  OBVIOUS
<1>9. \A b \in DOMAIN Msgs :
         /\ To(held, b) \subseteq Holders(b) /\ Holders(b)' = Holders(b) \ To(held, b)
         /\ refs'[b] = refs[b] - Cardinality(To(held, b))
         /\ b \in live' <=> b \in live /\ b # freed /\ ~(To(held, b) # {} /\ refs'[b] = 0)
  BY <1>1, <1>3, <1>4, <1>7, <1>8
<1>10. UNCHANGED <<stream, LastRead>> /\ lost' = lost
       /\ ((body' = 0 /\ freed = body) \/ (body' = body /\ freed = 0))
  BY <1>2, <1>8
<1> QED
  BY <1>5, <1>6, <1>9, <1>10, OwnedDrop

(* The holders of body b before and after a step.                           *)
LEMMA HolderStep ==
    ASSUME NEW b, b # 0
    PROVE  /\ \A h : h \in Holders(b) <=>
                 \/ \E k \in DOMAIN scratch : scratch[k] = b /\ h = <<<<"scratch", 0, k>>, b>>
                 \/ \E k \in DOMAIN tmp.bufs : tmp.bufs[k] = b /\ h = <<<<"tmp", 0, k>>, b>>
                 \/ \E i \in DOMAIN arrays : \E k \in DOMAIN arrays[i].bufs :
                       arrays[i].bufs[k] = b /\ h = <<<<"array", i, k>>, b>>
                 \/ shared = b /\ h = <<Handle, b>>
           /\ \A h : h \in Holders(b)' <=>
                 \/ \E k \in DOMAIN scratch' : scratch'[k] = b /\ h = <<<<"scratch", 0, k>>, b>>
                 \/ \E k \in DOMAIN tmp'.bufs : tmp'.bufs[k] = b /\ h = <<<<"tmp", 0, k>>, b>>
                 \/ \E i \in DOMAIN arrays' : \E k \in DOMAIN arrays'[i].bufs :
                       arrays'[i].bufs[k] = b /\ h = <<<<"array", i, k>>, b>>
                 \/ shared' = b /\ h = <<Handle, b>>
  BY HoldersAre, HolderMembers

\* The references in H to body b are R and one per buffer in S with the tag
\* <<t, x>>, and those in K are the same with the tag <<u, y>>.
Retagged(H, K, R, S, b, t, x, u, y) ==
    /\ \A h : h \in H <=> h \in R \/ \E k \in S : h = <<<<t, x, k>>, b>>
    /\ \A h : h \in K <=> h \in R \/ \E k \in S : h = <<<<u, y, k>>, b>>
    /\ \A k \in S : <<<<t, x, k>>, b>> \notin R /\ <<<<u, y, k>>, b>> \notin R

(* References that only change their holder are as many as before.          *)
LEMMA Retag ==
    ASSUME NEW H, NEW K, NEW R, NEW S, NEW b, NEW t, NEW x, NEW u, NEW y, IsFiniteSet(H),
           Retagged(H, K, R, S, b, t, x, u, y)
    PROVE  Cardinality(K) = Cardinality(H) /\ (K = {} <=> H = {})
<1> USE DEF Retagged
<1> DEFINE F == [h \in H |-> IF h \in R THEN h ELSE <<<<u, y, h[1][3]>>, b>>]
<1>1. ASSUME NEW h \in H
      PROVE  \/ h \in R /\ F[h] = h
             \/ \E k \in S : h = <<<<t, x, k>>, b>> /\ h \notin R /\ F[h] = <<<<u, y, k>>, b>>
  <2>1. CASE h \in R
    BY <2>1
  <2>2. CASE h \notin R
    <3>1. PICK k \in S : h = <<<<t, x, k>>, b>>
      BY <2>2
    <3>2. h[1][3] = k
      BY <3>1
    <3> QED
      BY <2>2, <3>1, <3>2
  <2> QED
    BY <2>1, <2>2
<1>2. F \in [H -> K]
  <2>1. \A h \in H : F[h] \in K
    BY <1>1
  <2> QED
    BY <2>1
<1>3. ASSUME NEW g \in H, NEW h \in H, F[g] = F[h] PROVE g = h
  <2> HIDE DEF F
  <2>1. CASE g \in R /\ F[g] = g
    <3>1. CASE h \in R /\ F[h] = h
      BY <2>1, <3>1, <1>3
    <3>2. ASSUME NEW k \in S, h = <<<<t, x, k>>, b>>, F[h] = <<<<u, y, k>>, b>> PROVE g = h
      BY <2>1, <3>2, <1>3
    <3> QED
      BY <1>1, <3>1, <3>2
  <2>2. ASSUME NEW j \in S, g = <<<<t, x, j>>, b>>, F[g] = <<<<u, y, j>>, b>> PROVE g = h
    <3>1. CASE h \in R /\ F[h] = h
      BY <2>2, <3>1, <1>3
    <3>2. ASSUME NEW k \in S, h = <<<<t, x, k>>, b>>, F[h] = <<<<u, y, k>>, b>> PROVE g = h
      <4>1. <<<<u, y, j>>, b>> = <<<<u, y, k>>, b>>
        BY <2>2, <3>2, <1>3
      <4>2. j = k
        BY <4>1
      <4> QED
        BY <4>2, <2>2, <3>2
    <3> QED
      BY <1>1, <3>1, <3>2
  <2> QED
    BY <1>1, <2>1, <2>2
<1>4. ASSUME NEW q \in K PROVE \E h \in H : F[h] = q
  <2>1. CASE q \in R
    <3>1. q \in H /\ F[q] = q
      BY <2>1
    <3> QED
      BY <3>1
  <2>2. ASSUME NEW k \in S, q = <<<<u, y, k>>, b>> PROVE \E h \in H : F[h] = q
    <3>1. PICK h \in H : h = <<<<t, x, k>>, b>>
      OBVIOUS
    <3>2. h \notin R /\ h[1][3] = k
      BY <3>1
    <3>3. F[h] = q
      BY <3>2, <2>2
    <3> QED
      BY <3>3
  <2> QED
    BY <2>1, <2>2
<1> HIDE DEF F
<1>5. F \in Bijection(H, K)
  BY <1>2, <1>3, <1>4 DEF Bijection, Injection, Surjection, IsInjective
<1>6. ExistsBijection(H, K)
  BY <1>5 DEF ExistsBijection
<1>7. K = {} <=> H = {}
  BY <1>2, <1>4
<1> QED
  BY <1>6, <1>7, FS_Bijection

(* References move from one holder to another.                              *)
LEMMA OwnedMove ==
    ASSUME Typed, Owned,
           \A b \in DOMAIN Msgs : /\ Cardinality(Holders(b)') = Cardinality(Holders(b))
                                  /\ Holders(b)' = {} <=> Holders(b) = {},
           UNCHANGED <<stream, refs, live, lost, body, LastRead>>, pc' # "body"
    PROVE  Owned'
<1>1. UNCHANGED Msgs
  BY DEF Msgs
<1> QED
  BY <1>1 DEF Owned

(* The steps that keep every reference where it is.                         *)
LEMMA OwnedStill ==
    ASSUME Base, Owned,
           OpenFails \/ ReaderInit \/ StartRows \/ NextRow \/ ImportTable
    PROVE  Owned'
<1>1. /\ UNCHANGED <<scratch, tmp, arrays, shared>> /\ UNCHANGED <<stream, refs, live, lost, body>>
      /\ decoder' = decoder /\ pc' # "body"
  BY DEF OpenFails, ReaderInit, StartRows, NextRow, CreateRow, ImportTable, input, reader, walk,
     memory
<1>2. LastRead' = LastRead /\ LastRead \in Nat /\ Typed
  BY <1>1, StreamFacts DEF LastRead, Base, Typed, Bodies
<1>3. LastRead' \in Nat /\ LastRead <= LastRead'
  BY <1>2
<1>4. \A b \in DOMAIN Msgs : Holders(b)' = Holders(b)
  BY <1>1, HoldersSame
<1> QED
  BY <1>1, <1>2, <1>3, <1>4, OwnedSame

(* An error, or the end of the stream, releases it.                         *)
LEMMA OwnedFail ==
    ASSUME Base, Owned, NEW code, Fail(code), UNCHANGED input
    PROVE  Owned'
<1>1. ReleaseStream("failed") /\ UNCHANGED <<stream, arrays>> /\ Typed
  BY DEF Fail, input, Base
<1> QED
  BY <1>1, OwnedRelease

(* DecodeArray: the scratch buffers become those of the new array.          *)
LEMMA OwnedDecodeArray ==
    ASSUME Base, Owned, DecodeArray
    PROVE  Owned'
<1>0. /\ Typed /\ 0 \notin DOMAIN Msgs /\ UNCHANGED <<stream, refs, live, lost, body, LastRead>>
      /\ UNCHANGED <<arrays, shared>> /\ pc' # "body" /\ tmp = NoArray
  BY StreamFacts DEF DecodeArray, Base, Typed, Resting, LastRead, input, memory
<1>1. ASSUME NEW b \in DOMAIN Msgs
      PROVE  /\ Cardinality(Holders(b)') = Cardinality(Holders(b))
             /\ Holders(b)' = {} <=> Holders(b) = {}
  <2>0. b # 0 /\ DOMAIN tmp.bufs = {}
    BY <1>0 DEF NoArray
  <2>1. CASE UNCHANGED <<scratch, tmp>>
    BY <2>1, <1>0, HoldersSame
  <2>2. CASE ~UNCHANGED <<scratch, tmp>>
    <3>1. tmp'.bufs = scratch /\ \A k \in DOMAIN scratch' : scratch'[k] = 0
      BY <2>2 DEF DecodeArray, WalkGetArray
    <3> DEFINE R == {h \in Holders(b) : h[1][1] # "scratch"}
               S == {k \in DOMAIN scratch : scratch[k] = b}
    <3>2. \A h : h \in Holders(b) <=> h \in R \/ \E k \in S : h = <<<<"scratch", 0, k>>, b>>
      BY <2>0, HolderStep DEF Handle
    <3>3. \A h : h \in R <=>
              \/ \E i \in DOMAIN arrays : \E k \in DOMAIN arrays[i].bufs :
                    arrays[i].bufs[k] = b /\ h = <<<<"array", i, k>>, b>>
              \/ shared = b /\ h = <<Handle, b>>
      BY <2>0, HolderStep DEF Handle
    <3>4. \A h : h \in Holders(b)' <=> h \in R \/ \E k \in S : h = <<<<"tmp", 0, k>>, b>>
      <4>1. \A h : h \in Holders(b)' <=>
              \/ \E k \in S : h = <<<<"tmp", 0, k>>, b>>
              \/ \E i \in DOMAIN arrays : \E k \in DOMAIN arrays[i].bufs :
                    arrays[i].bufs[k] = b /\ h = <<<<"array", i, k>>, b>>
              \/ shared = b /\ h = <<Handle, b>>
        BY <2>0, <1>0, <3>1, HolderStep
      <4> HIDE DEF R, S
      <4> QED
        BY <4>1, <3>3
    <3>5. \A k \in S : <<<<"scratch", 0, k>>, b>> \notin R /\ <<<<"tmp", 0, k>>, b>> \notin R
      <4>1. \A k : <<<<"scratch", 0, k>>, b>>[1][1] = "scratch"
        OBVIOUS
      <4>2. \A k : <<<<"tmp", 0, k>>, b>> \notin R
        BY <3>3 DEF Handle
      <4> QED
        BY <4>1, <4>2
    <3>6. IsFiniteSet(Holders(b))
      BY <1>0, FiniteNow
    <3> HIDE DEF R, S
    <3>7. Retagged(Holders(b), Holders(b)', R, S, b, "scratch", 0, "tmp", 0)
      BY <3>2, <3>4, <3>5 DEF Retagged
    <3> QED
      BY <3>6, <3>7, Retag
  <2> QED
    BY <2>1, <2>2
<1> QED
  BY <1>0, <1>1, OwnedMove

(* AppendArray: the buffers of the decoded array are those of the last one. *)
LEMMA OwnedAppendArray ==
    ASSUME Base, Owned, AppendArray
    PROVE  Owned'
<1>0. Typed /\ 0 \notin DOMAIN Msgs /\ UNCHANGED <<stream, input>> /\ pc = "append" /\ shared = 0
  BY StreamFacts DEF AppendArray, Base, Typed, Resting, input
<1>1. CASE \E code : Fail(code)
  BY <1>0, <1>1, OwnedFail
<1>2. CASE ReleaseStream("opened") /\ UNCHANGED arrays
  BY <1>0, <1>2, OwnedRelease
<1>3. CASE rc = "OK" /\ tmp # NoArray /\ arrays' = Append(arrays, tmp) /\ tmp' = NoArray
           /\ pc' # "body" /\ UNCHANGED <<decoder, body, shared, scratch, memory>>
  <2>1. UNCHANGED <<refs, live, lost, body, LastRead, shared>>
    BY <1>3 DEF memory, LastRead
  <2>2. /\ scratch' = scratch /\ \A k \in DOMAIN scratch : scratch[k] = 0
    BY <1>0, <1>3 DEF Base, Resting
  <2>3. ASSUME NEW b \in DOMAIN Msgs
        PROVE  /\ Cardinality(Holders(b)') = Cardinality(Holders(b))
               /\ Holders(b)' = {} <=> Holders(b) = {}
    <3>0. b # 0 /\ DOMAIN tmp'.bufs = {}
      BY <1>0, <1>3 DEF NoArray
    <3> DEFINE n == Len(arrays) + 1
               R == {h \in Holders(b) : h[1][1] # "tmp"}
               S == {k \in DOMAIN tmp.bufs : tmp.bufs[k] = b}
    <3>1. \A h : h \in R <=> \E i \in DOMAIN arrays : \E k \in DOMAIN arrays[i].bufs :
                                arrays[i].bufs[k] = b /\ h = <<<<"array", i, k>>, b>>
      BY <3>0, <2>2, <1>0, HolderStep DEF Handle
    <3>2. \A h : h \in Holders(b) <=> h \in R \/ \E k \in S : h = <<<<"tmp", 0, k>>, b>>
      BY <3>0, <2>2, <1>0, HolderStep DEF Handle
    <3>3. /\ DOMAIN arrays' = DOMAIN arrays \cup {n} /\ n \notin DOMAIN arrays
          /\ arrays'[n] = tmp /\ \A i \in DOMAIN arrays : arrays'[i] = arrays[i]
      <4>1. arrays \in Seq(ArrayType) /\ tmp \in ArrayType
        BY <1>0, <1>3 DEF Typed
      <4> QED
        BY <4>1, <1>3
    <3>4. \A h : h \in Holders(b)' <=> h \in R \/ \E k \in S : h = <<<<"array", n, k>>, b>>
      <4>1. \A h : h \in Holders(b)' <=>
               \E i \in DOMAIN arrays' : \E k \in DOMAIN arrays'[i].bufs :
                  arrays'[i].bufs[k] = b /\ h = <<<<"array", i, k>>, b>>
        BY <3>0, <2>1, <2>2, <1>0, HolderStep
      <4> HIDE DEF n, R
      <4>2. ASSUME NEW h
            PROVE  (\E i \in DOMAIN arrays' : \E k \in DOMAIN arrays'[i].bufs :
                       arrays'[i].bufs[k] = b /\ h = <<<<"array", i, k>>, b>>)
                   <=> \/ \E i \in DOMAIN arrays : \E k \in DOMAIN arrays[i].bufs :
                             arrays[i].bufs[k] = b /\ h = <<<<"array", i, k>>, b>>
                       \/ \E k \in S : h = <<<<"array", n, k>>, b>>
        BY <3>3
      <4> QED
        BY <4>1, <4>2, <3>1
    <3>5. \A k \in S : <<<<"tmp", 0, k>>, b>> \notin R /\ <<<<"array", n, k>>, b>> \notin R
      <4>1. \A k : <<<<"tmp", 0, k>>, b>>[1][1] = "tmp"
        OBVIOUS
      <4> HIDE DEF n
      <4>2. \A k, i, j : <<<<"array", n, k>>, b>> = <<<<"array", i, j>>, b>> => i = n
        OBVIOUS
      <4>3. \A k : <<<<"array", n, k>>, b>> \notin R
        <5> HIDE DEF R
        <5> QED
          BY <3>1, <3>3, <4>2
      <4> QED
        BY <4>1, <4>3
    <3>6. IsFiniteSet(Holders(b))
      BY <1>0, FiniteNow
    <3> HIDE DEF n, R, S
    <3>7. Retagged(Holders(b), Holders(b)', R, S, b, "tmp", 0, "array", n)
      BY <3>2, <3>4, <3>5 DEF Retagged
    <3> QED
      BY <3>6, <3>7, Retag
  <2> QED
    BY <2>1, <2>3, <1>0, <1>3, OwnedMove
<1> QED
  BY <1>1, <1>2, <1>3 DEF AppendArray

(* ReadSchema: there is nothing to hold yet.                                *)
LEMMA OwnedReadSchema ==
    ASSUME Base, Base', Owned, ReadSchema
    PROVE  Owned'
<1>0. /\ UNCHANGED <<stream, input>> /\ Typed /\ LastRead = 0 /\ LastRead' \in Nat
      /\ 0 \notin DOMAIN Msgs
  <2>1. UNCHANGED <<stream, input>> /\ Typed /\ pc = "schema" /\ Len(Msgs') = Len(Msgs)
    BY DEF ReadSchema, Base, input, Msgs
  <2>2. Len(Msgs) \in Nat /\ 0 \notin DOMAIN Msgs
    BY <2>1, StreamFacts DEF Typed
  <2>3. LastRead = 0 /\ LastRead' \in 0..Len(Msgs')
    BY <2>1 DEF Base, Resting, Typed, Bodies
  <2> QED
    BY <2>1, <2>2, <2>3
<1>1. CASE \E code : Fail(code)
  BY <1>0, <1>1, OwnedFail
<1>2. CASE pc = "schema" /\ pc' = "header"
           /\ UNCHANGED <<opened, body, shared, tmp, memory, arrays, views, pyerr>>
  <2>1. ASSUME NEW b \in DOMAIN Msgs PROVE Holders(b)' = Holders(b)
    <3>1. /\ \A k \in DOMAIN scratch : scratch[k] # b
          /\ \A k \in DOMAIN scratch' : scratch'[k] # b
      BY <1>0, <1>2 DEF Base, Resting
    <3> QED
      BY <1>0, <1>2, <3>1, HolderStep
  <2>2. UNCHANGED <<stream, refs, live, lost, body>> /\ LastRead <= LastRead' /\ pc' # "body"
    BY <1>0, <1>2 DEF memory
  <2> QED
    BY <1>0, <2>1, <2>2, OwnedSame
<1> QED
  BY <1>1, <1>2 DEF ReadSchema

(* ReadBatchHeader: the next message has not been read, so it has no body.  *)
LEMMA OwnedReadBatchHeader ==
    ASSUME Base, Base', Owned, ReadBatchHeader
    PROVE  Owned'
<1>0. UNCHANGED <<stream, input>> /\ Typed /\ LastRead \in Nat /\ LastRead' \in Nat /\ pc = "header"
  <2>1. UNCHANGED <<stream, input>> /\ Typed /\ pc = "header" /\ Len(Msgs') = Len(Msgs)
    BY DEF ReadBatchHeader, Base, input, Msgs
  <2>2. Len(Msgs) \in Nat
    BY <2>1, StreamFacts DEF Typed
  <2>3. LastRead \in 0..Len(Msgs) /\ LastRead' \in 0..Len(Msgs')
    BY <2>1 DEF Base, Typed, Bodies
  <2> QED
    BY <2>1, <2>2, <2>3
<1>1. CASE \E code : Fail(code)
  BY <1>0, <1>1, OwnedFail
<1>2. CASE ReleaseStream("opened") /\ UNCHANGED arrays
  BY <1>0, <1>2, OwnedRelease
<1>3. CASE pc' = "body" /\ UNCHANGED <<body, shared, scratch, tmp, memory, arrays>>
  <2>1. \A b \in DOMAIN Msgs : Holders(b)' = Holders(b)
    BY <1>3, HoldersSame
  <2>2. LastRead' = LastRead + 1
    <3>1. Len(arrays) = LastRead - 1
      BY <1>0 DEF Base, Collected
    <3>2. Len(arrays') = LastRead' - 2
      BY <1>3 DEF Base, Collected
    <3>3. LastRead - 1 = LastRead' - 2
      BY <3>1, <3>2, <1>3
    <3>4. \A m, n \in Nat : m - 1 = n - 2 => n = m + 1
      OBVIOUS
    <3> QED
      BY <3>3, <3>4, <1>0
  <2>3. LastRead' \notin live /\ LastRead <= LastRead'
    BY <2>2, <1>0 DEF Owned
  <2>4. UNCHANGED <<stream, refs, live, lost, body>>
    BY <1>0, <1>3 DEF memory
  <2> QED
    BY <1>0, <2>1, <2>3, <2>4, OwnedSame
<1> QED
  BY <1>1, <1>2, <1>3 DEF ReadBatchHeader

(* ReadBody: a new body is the one of the message whose header was read.    *)
LEMMA OwnedReadBody ==
    ASSUME Base, Owned, ReadBody
    PROVE  Owned'
<1>0. /\ UNCHANGED <<stream, input, Msgs>> /\ Typed /\ pc = "body" /\ shared = 0
      /\ LastRead \in 1..Len(Msgs) /\ LastRead \notin live /\ DOMAIN Msgs = 1..Len(Msgs)
      /\ body \in 0..Len(Msgs)
  <2>1. UNCHANGED <<stream, input>> /\ Typed /\ pc = "body"
    BY DEF ReadBody, Base, input
  <2>2. Len(Msgs) \in Nat /\ DOMAIN Msgs = 1..Len(Msgs)
    BY <2>1, StreamFacts DEF Typed
  <2>3. LastRead \in 0..Len(Msgs) /\ LastRead > 0 /\ body \in 0..Len(Msgs) /\ shared = 0
    BY <2>1 DEF Base, Typed, Bodies, Position, Loop, Resting
  <2> QED
    BY <2>1, <2>2, <2>3 DEF Owned, Msgs
<1>1. CASE \E code : Fail(code)
  BY <1>0, <1>1, OwnedFail
<1>2. CASE /\ body' = LastRead \/ body' = body
           /\ body = 0 \/ body' = body
           /\ live' = live \cup ({body'} \ {0})
           /\ pc' = "decode" /\ UNCHANGED <<decoder, shared, scratch, tmp, refs, lost, arrays>>
  <2>1. ASSUME NEW b \in DOMAIN Msgs PROVE Holders(b)' = Holders(b)
    BY <1>2, HoldersSame
  <2>2. ASSUME NEW b \in DOMAIN Msgs
        PROVE  /\ refs'[b] = Cardinality(Holders(b)') + (IF b \in lost' THEN 1 ELSE 0)
               /\ b \in live' <=> Holders(b)' # {} \/ b \in lost' \/ body' = b
               /\ body' = b => Holders(b)' = {} /\ b \notin lost'
    <3>1. /\ refs[b] = Cardinality(Holders(b)) + (IF b \in lost THEN 1 ELSE 0)
          /\ b \in live <=> Holders(b) # {} \/ b \in lost \/ body = b
          /\ body = b => Holders(b) = {} /\ b \notin lost
      BY DEF Owned
    <3>2. b # 0 /\ Holders(b)' = Holders(b) /\ lost' = lost /\ refs' = refs
      BY <2>1, <1>0, <1>2
    <3>3. b \in live' <=> b \in live \/ body' = b
      BY <1>2, <3>2
    <3>4. body' = b => body = b \/ b \notin live
      BY <1>0, <1>2
    <3> QED
      BY <3>1, <3>2, <3>3, <3>4, <1>2
  <2>3. lost' \subseteq live' /\ live' \subseteq 1..LastRead'
    <3>1. LastRead' = LastRead /\ live \subseteq 1..LastRead /\ lost \subseteq live
      BY <1>2 DEF LastRead, Owned
    <3>2. body' # 0 => body' \in 1..LastRead
      <4>1. body # 0 => body \in live
        BY <1>0 DEF Owned
      <4> QED
        BY <1>0, <1>2, <3>1, <4>1
    <3> QED
      BY <3>1, <3>2, <1>2
  <2> QED
    BY <2>2, <2>3, <1>0, <1>2 DEF Owned
<1> QED
  BY <1>1, <1>2 DEF ReadBody, LastRead

(* FinishBuilding: a failure releases the array that was decoded.           *)
LEMMA OwnedFinishBuilding ==
    ASSUME Base, Owned, FinishBuilding
    PROVE  Owned'
<1>0. /\ UNCHANGED <<stream, body, scratch, shared, arrays>> /\ LastRead' = LastRead /\ Typed
      /\ pc' # "body" /\ LastRead \in Nat /\ 0 \notin DOMAIN Msgs
  <2>1. /\ UNCHANGED <<stream, body, scratch, shared, arrays>> /\ LastRead' = LastRead /\ Typed
        /\ pc' # "body"
    BY DEF FinishBuilding, Base, input, LastRead
  <2> QED
    BY <2>1, StreamFacts DEF Typed, Bodies
<1>1. CASE UNCHANGED <<tmp, memory>>
  <2>1. UNCHANGED <<refs, live, lost>> /\ LastRead <= LastRead' /\ LastRead' \in Nat
    BY <1>0, <1>1 DEF memory
  <2>2. \A b \in DOMAIN Msgs : Holders(b)' = Holders(b)
    BY <1>0, <1>1, HoldersSame
  <2> QED
    BY <1>0, <2>1, <2>2, OwnedSame
<1>2. CASE tmp' = NoArray /\ Counted(RefsOf(tmp, "tmp", 0), {})
  <2>1. PICK held : held = RefsOf(tmp, "tmp", 0)
    OBVIOUS
  <2>2. ASSUME NEW b \in DOMAIN Msgs
        PROVE  To(held, b) \subseteq Holders(b) /\ Holders(b)' = Holders(b) \ To(held, b)
    <3>0. b # 0 /\ DOMAIN tmp'.bufs = {}
      BY <1>0, <1>2 DEF NoArray
    <3>1. \A h : h \in To(held, b) <=>
             \E k \in DOMAIN tmp.bufs : tmp.bufs[k] = b /\ h = <<<<"tmp", 0, k>>, b>>
      <4>1. held = Tagged(tmp.bufs, "tmp", 0)
        BY <2>1 DEF RefsOf, Tagged
      <4> QED
        BY <4>1, <3>0, TaggedMembers DEF To
    <3> QED
      BY <3>0, <3>1, <1>0, HolderStep DEF Handle
  <2>3. Counted(held, {})
    BY <1>2, <2>1
  <2> QED
    BY <1>0, <2>2, <2>3, OwnedCounted
<1> QED
  BY <1>1, <1>2 DEF FinishBuilding

(* Unshare: ArrowIpcSharedBufferReset drops the handle.                     *)
LEMMA OwnedUnshare ==
    ASSUME Base, Owned, Unshare
    PROVE  Owned'
<1>0. /\ UNCHANGED <<stream, body, scratch, tmp, arrays, LastRead>> /\ Typed
      /\ pc' # "body" /\ 0 \notin DOMAIN Msgs /\ shared' = 0
  <2>1. /\ UNCHANGED <<stream, body, scratch, tmp, arrays, LastRead>> /\ Typed
        /\ pc' # "body" /\ shared' = 0
    BY DEF Unshare, Base, input, LastRead
  <2> QED
    BY <2>1, StreamFacts DEF Typed
<1>1. PICK held : held = IF shared = 0 THEN {} ELSE {<<Handle, shared>>}
  OBVIOUS
<1>2. Counted(held, {})
  BY <1>1 DEF Unshare
<1>3. ASSUME NEW b \in DOMAIN Msgs
      PROVE  To(held, b) \subseteq Holders(b) /\ Holders(b)' = Holders(b) \ To(held, b)
  <2>0. b # 0
    BY <1>0
  <2>1. \A h : h \in To(held, b) <=> shared = b /\ h = <<Handle, b>>
    BY <2>0, <1>1 DEF To
  <2> QED
    BY <2>0, <2>1, <1>0, HolderStep DEF Handle
<1> QED
  BY <1>0, <1>2, <1>3, OwnedCounted

(* The references of the arrays to body b.                                  *)
LEMMA ArrayMembers ==
    ASSUME NEW ar, NEW b, b # 0
    PROVE  \A h : h \in To(UNION {Tagged(ar[i].bufs, "array", i) : i \in DOMAIN ar}, b) <=>
              \E i \in DOMAIN ar : \E k \in DOMAIN ar[i].bufs :
                 ar[i].bufs[k] = b /\ h = <<<<"array", i, k>>, b>>
<1> SUFFICES ASSUME NEW h
             PROVE  h \in To(UNION {Tagged(ar[i].bufs, "array", i) : i \in DOMAIN ar}, b) <=>
                       \E i \in DOMAIN ar : \E k \in DOMAIN ar[i].bufs :
                          ar[i].bufs[k] = b /\ h = <<<<"array", i, k>>, b>>
  OBVIOUS
<1>1. h \in To(UNION {Tagged(ar[i].bufs, "array", i) : i \in DOMAIN ar}, b) <=>
         \E i \in DOMAIN ar : h \in Tagged(ar[i].bufs, "array", i) /\ h[2] = b
  BY DEF To
<1>2. ASSUME NEW i \in DOMAIN ar
      PROVE  h \in Tagged(ar[i].bufs, "array", i) /\ h[2] = b <=>
                \E k \in DOMAIN ar[i].bufs : ar[i].bufs[k] = b /\ h = <<<<"array", i, k>>, b>>
  BY TaggedMembers
<1> QED
  BY <1>1, <1>2

(* Releasing the arrays.                                                    *)
LEMMA OwnedArraysGone ==
    ASSUME Typed, Owned, Counted(ArrayRefs, {}), arrays' = <<>>, pc' # "body",
           UNCHANGED <<stream, body, scratch, tmp, shared, LastRead>>
    PROVE  Owned'
<1>0. 0 \notin DOMAIN Msgs /\ DOMAIN arrays' = {}
  BY StreamFacts DEF Typed
<1>1. PICK held : held = ArrayRefs
  OBVIOUS
<1>2. ASSUME NEW b \in DOMAIN Msgs
      PROVE  To(held, b) \subseteq Holders(b) /\ Holders(b)' = Holders(b) \ To(held, b)
  <2>0. b # 0
    BY <1>0
  <2>1. \A h : h \in To(held, b) <=> \E i \in DOMAIN arrays : \E k \in DOMAIN arrays[i].bufs :
                                        arrays[i].bufs[k] = b /\ h = <<<<"array", i, k>>, b>>
    <3>1. held = UNION {Tagged(arrays[i].bufs, "array", i) : i \in DOMAIN arrays}
      BY <1>1 DEF ArrayRefs, RefsOf, Tagged
    <3> QED
      BY <3>1, <2>0, ArrayMembers
  <2> QED
    BY <2>0, <2>1, <1>0, HolderStep DEF Handle
<1>3. Counted(held, {})
  BY <1>1
<1> QED
  BY <1>2, <1>3, OwnedCounted

(* Delete and ReleaseTable release the arrays, or leave them to the other.  *)
LEMMA OwnedDelete ==
    ASSUME Base, Owned, Delete \/ ReleaseTable
    PROVE  Owned'
<1>0. /\ UNCHANGED <<stream, body, scratch, tmp, shared, LastRead>> /\ Typed
      /\ pc' # "body" /\ LastRead \in Nat
  <2>1. UNCHANGED <<stream, body, scratch, tmp, shared, LastRead>> /\ Typed /\ pc' # "body"
    BY DEF Delete, ReleaseTable, Base, input, reader, LastRead
  <2> QED
    BY <2>1, StreamFacts DEF Typed, Bodies
<1>1. CASE Counted(ArrayRefs, {}) /\ arrays' = <<>>
  BY <1>0, <1>1, OwnedArraysGone
<1>2. CASE UNCHANGED <<memory, arrays>>
  <2>1. UNCHANGED <<refs, live, lost>> /\ LastRead <= LastRead' /\ LastRead' \in Nat
    BY <1>0, <1>2 DEF memory
  <2>2. \A b \in DOMAIN Msgs : Holders(b)' = Holders(b)
    BY <1>0, <1>2, HoldersSame
  <2> QED
    BY <1>0, <2>1, <2>2, OwnedSame
<1> QED
  BY <1>1, <1>2 DEF Delete, ReleaseTable

(* ConvertColumn: the old array of the column drops its references.         *)
LEMMA OwnedConvert ==
    ASSUME Base, Owned, Convert
    PROVE  Owned'
<1>1. PICK i \in 1..views, k \in DOMAIN Root.children : ConvertColumn(i, k)
  BY DEF Convert
<1>2. /\ UNCHANGED <<stream, body, scratch, tmp, shared, LastRead>> /\ Typed
      /\ pc' # "body" /\ LastRead \in Nat /\ 0 \notin DOMAIN Msgs
  <2>1. UNCHANGED <<stream, body, scratch, tmp, shared, LastRead>> /\ Typed /\ pc' # "body"
    BY <1>1 DEF ConvertColumn, Base, input, reader, LastRead
  <2> QED
    BY <2>1, StreamFacts DEF Typed, Bodies
<1>3. CASE UNCHANGED <<memory, arrays>>
  <2>1. UNCHANGED <<refs, live, lost>> /\ LastRead <= LastRead' /\ LastRead' \in Nat
    BY <1>2, <1>3 DEF memory
  <2>2. \A b \in DOMAIN Msgs : Holders(b)' = Holders(b)
    BY <1>2, <1>3, HoldersSame
  <2> QED
    BY <1>2, <2>1, <2>2, OwnedSame
<1>4. CASE ~UNCHANGED <<memory, arrays>>
  <2> DEFINE new == [n \in DOMAIN arrays[i].bufs |->
                        IF n \in OfColumn(k) THEN 0 ELSE arrays[i].bufs[n]]
  <2>1. PICK held : held = {h \in RefsOf(arrays[i], "array", i) : h[1][3] \in OfColumn(k)}
    OBVIOUS
  <2>2. /\ arrays' = [arrays EXCEPT ![i] = [arrays[i] EXCEPT !.bufs = new]]
        /\ Counted(held, {})
    BY <1>1, <1>4, <2>1 DEF ConvertColumn
  <2>3. i \in DOMAIN arrays /\ arrays \in Seq(ArrayType) /\ arrays[i] \in ArrayType
    BY <1>1 DEF ConvertColumn, Base, Collected, Typed
  <2> HIDE DEF new
  <2>4. /\ DOMAIN arrays' = DOMAIN arrays /\ arrays'[i].bufs = new
        /\ \A j \in DOMAIN arrays : j # i => arrays'[j] = arrays[j]
    BY <2>2, <2>3 DEF ArrayType
  <2>5. ASSUME NEW b \in DOMAIN Msgs
        PROVE  To(held, b) \subseteq Holders(b) /\ Holders(b)' = Holders(b) \ To(held, b)
    <3>0. b # 0
      BY <1>2
    <3>1. \A h : h \in To(held, b) <=>
             \E n \in DOMAIN arrays[i].bufs :
                n \in OfColumn(k) /\ arrays[i].bufs[n] = b /\ h = <<<<"array", i, n>>, b>>
      <4>1. \A h : h \in To(held, b) <=>
               h \in RefsOf(arrays[i], "array", i) /\ h[1][3] \in OfColumn(k) /\ h[2] = b
        BY <2>1 DEF To
      <4>2. \A h : h \in RefsOf(arrays[i], "array", i) <=>
               \E n \in DOMAIN arrays[i].bufs :
                  arrays[i].bufs[n] # 0 /\ h = <<<<"array", i, n>>, arrays[i].bufs[n]>>
        BY DEF RefsOf
      <4>3. ASSUME NEW n, NEW c
            PROVE  <<<<"array", i, n>>, c>>[1][3] = n /\ <<<<"array", i, n>>, c>>[2] = c
        OBVIOUS
      <4> QED
        BY <4>1, <4>2, <4>3, <3>0
    <3>2. DOMAIN new = DOMAIN arrays[i].bufs
          /\ \A n \in DOMAIN new : new[n] = b <=> n \notin OfColumn(k) /\ arrays[i].bufs[n] = b
      BY <3>0 DEF new
    <3>3. ASSUME NEW h
          PROVE  (\E j \in DOMAIN arrays' : \E n \in DOMAIN arrays'[j].bufs :
                     arrays'[j].bufs[n] = b /\ h = <<<<"array", j, n>>, b>>)
                 <=> /\ \E j \in DOMAIN arrays : \E n \in DOMAIN arrays[j].bufs :
                           arrays[j].bufs[n] = b /\ h = <<<<"array", j, n>>, b>>
                     /\ h \notin To(held, b)
      <4>1. \A j, n, l, m : <<<<"array", j, n>>, b>> = <<<<"array", l, m>>, b>> => j = l /\ n = m
        OBVIOUS
      <4>2. ASSUME NEW j \in DOMAIN arrays, NEW n \in DOMAIN arrays[j].bufs,
                   arrays[j].bufs[n] = b, h = <<<<"array", j, n>>, b>>, h \notin To(held, b)
            PROVE  n \in DOMAIN arrays'[j].bufs /\ arrays'[j].bufs[n] = b
        <5>1. CASE j = i
          <6>1. n \notin OfColumn(k)
            BY <5>1, <4>2, <3>1
          <6> QED
            BY <5>1, <6>1, <4>2, <3>2, <2>4
        <5>2. CASE j # i
          BY <5>2, <4>2, <2>4
        <5> QED
          BY <5>1, <5>2
      <4>3. ASSUME NEW j \in DOMAIN arrays, NEW n \in DOMAIN arrays'[j].bufs,
                   arrays'[j].bufs[n] = b, h = <<<<"array", j, n>>, b>>
            PROVE  n \in DOMAIN arrays[j].bufs /\ arrays[j].bufs[n] = b /\ h \notin To(held, b)
        <5>1. CASE j = i
          <6>1. n \in DOMAIN arrays[i].bufs /\ n \notin OfColumn(k) /\ arrays[i].bufs[n] = b
            BY <5>1, <4>3, <3>2, <2>4
          <6>2. h \notin To(held, b)
            BY <6>1, <4>3, <4>1, <3>1
          <6> QED
            BY <5>1, <6>1, <6>2
        <5>2. CASE j # i
          <6>1. h \notin To(held, b)
            BY <5>2, <4>3, <4>1, <3>1
          <6> QED
            BY <5>2, <6>1, <4>3, <2>4
        <5> QED
          BY <5>1, <5>2
      <4> QED
        BY <4>2, <4>3, <2>4
    <3>4. \A h : h \in To(held, b) =>
             \E j \in DOMAIN arrays : \E n \in DOMAIN arrays[j].bufs :
                arrays[j].bufs[n] = b /\ h = <<<<"array", j, n>>, b>>
      BY <3>1, <2>3
    <3>5. \A h : h \in Holders(b)' <=> h \in Holders(b) /\ h \notin To(held, b)
      <4>1. ASSUME NEW h, h \in To(held, b)
            PROVE  /\ h # <<Handle, b>> /\ \A n : h # <<<<"scratch", 0, n>>, b>>
                   /\ \A n : h # <<<<"tmp", 0, n>>, b>>
        BY <4>1, <3>4 DEF Handle
      <4> QED
        BY <4>1, <3>0, <3>3, <1>2, HolderStep
    <3>6. To(held, b) \subseteq Holders(b)
      BY <3>0, <3>4, HolderStep
    <3> QED
      BY <3>5, <3>6
  <2> QED
    BY <1>2, <2>2, <2>5, OwnedCounted
<1> QED
  BY <1>3, <1>4

(* A body without a holder is in no buffer.                                 *)
LEMMA NoHolder ==
    ASSUME NEW b, b # 0, Holders(b) = {}
    PROVE  /\ \A i \in DOMAIN arrays : \A k \in DOMAIN arrays[i].bufs : arrays[i].bufs[k] # b
           /\ \A k \in DOMAIN tmp.bufs : tmp.bufs[k] # b
<1>1. ASSUME NEW i \in DOMAIN arrays, NEW k \in DOMAIN arrays[i].bufs, arrays[i].bufs[k] = b
      PROVE  FALSE
  <2>1. PICK h : h = <<<<"array", i, k>>, b>>
    OBVIOUS
  <2>2. h \in Holders(b)
    BY <1>1, <2>1, HolderStep
  <2> QED
    BY <2>2
<1>2. ASSUME NEW k \in DOMAIN tmp.bufs, tmp.bufs[k] = b
      PROVE  FALSE
  <2>1. PICK h : h = <<<<"tmp", 0, k>>, b>>
    OBVIOUS
  <2>2. h \in Holders(b)
    BY <1>2, <2>1, HolderStep
  <2> QED
    BY <2>2
<1> QED
  BY <1>1, <1>2

(* SetViews at the start of a batch: the scratch buffers are empty, so the  *)
(* references that are taken are those of the scratch buffers that share    *)
(* the body, the handle, and the one that a failing copy does not give back.*)
LEMMA OwnedSetViews ==
    ASSUME Base, Owned, pc = "decode", NEW bs, NEW stop \in 0..Len(seen), NEW code,
           SetViews(bs, stop, code), UNCHANGED <<stream, decoder, tmp, arrays>>
    PROVE  Owned'
<1> DEFINE on       == sharing /\ body # 0
           held(k)  == k < stop \/ code = "OK"
           takes(k) == sharing /\ body # 0 /\ held(k) /\ bs[k].length # 0 /\ ~Copied(bs[k], seen[k])
           leaks    == sharing /\ body # 0 /\ ~held(stop) /\ RefusesBuffer(bs[stop]) = "OK"
           taken    == {<<<<"scratch", 0, k>>, body>> : k \in {j \in 1..stop : takes(j)}}
                         \cup (IF on THEN {<<Handle, body>>} ELSE {})
                         \cup (IF leaks THEN {<<<<"lost", 0, stop>>, body>>} ELSE {})
           dropping == {h \in ScratchRefs : h[1][3] <= stop}
<1>0. /\ Typed /\ UNCHANGED <<Msgs, LastRead>> /\ shared = 0 /\ pc' # "body"
      /\ \A k \in DOMAIN scratch : scratch[k] = 0
      /\ DOMAIN scratch = 1..Len(seen) /\ Len(seen) \in Nat /\ DOMAIN refs = DOMAIN Msgs
  BY DEF Base, Typed, Resting, LastRead, Msgs, SetViews
<1>1. DOMAIN Msgs = 1..Len(Msgs) /\ body \in 0..Len(Msgs)
  BY <1>0, StreamFacts DEF Typed, Bodies
<1>2. dropping = {}
  BY <1>0 DEF ScratchRefs
<1>3. /\ scratch' = [k \in DOMAIN scratch |->
                        IF k > stop THEN scratch[k] ELSE IF takes(k) THEN body ELSE 0]
      /\ \A b \in DOMAIN Msgs : refs'[b] = refs[b] + Cardinality({h \in taken : h[2] = b})
                                             - Cardinality({h \in dropping : h[2] = b})
      /\ lost' = IF leaks THEN lost \cup {body} ELSE lost
      /\ shared' = IF sharing THEN body ELSE 0
      /\ body' = IF sharing THEN 0 ELSE body
  BY <1>0 DEF SetViews
<1>4. live' = live
  <2>1. \E D : live' = live \ {h[2] : h \in D} /\ D \subseteq dropping
    BY DEF SetViews
  <2> QED
    BY <2>1, <1>2

<1>5. ASSUME NEW b \in DOMAIN Msgs
      PROVE  /\ refs'[b] = refs[b] + Cardinality(To(taken, b))
             /\ refs[b] = Cardinality(Holders(b)) + (IF b \in lost THEN 1 ELSE 0)
             /\ refs[b] \in Nat /\ IsFiniteSet(To(taken, b))
  <2>1. {h \in dropping : h[2] = b} = {} /\ Cardinality({}) = 0
    BY <1>2, FS_EmptySet
  <2>2. IsFiniteSet(Holders(b))
    BY <1>0, FiniteNow
  <2>3. /\ refs[b] = Cardinality(Holders(b)) + (IF b \in lost THEN 1 ELSE 0)
        /\ Cardinality(Holders(b)) \in Nat
    BY <2>2, FS_CardinalityType DEF Owned
  <2>4. To(taken, b) = {h \in taken : h[2] = b}
    BY DEF To
  <2>5. IsFiniteSet(To(taken, b))
    <3> DEFINE D == {j \in 1..stop : takes(j)}
               f == [k \in 1..stop |-> <<<<"scratch", 0, k>>, body>>]
    <3>1. IsFiniteSet(1..stop)
      BY FS_Interval
    <3>2. IsFiniteSet(D) /\ {<<<<"scratch", 0, k>>, body>> : k \in D} = {f[k] : k \in D}
      BY <3>1, FS_Subset
    <3> HIDE DEF f, D
    <3>3. IsFiniteSet({f[k] : k \in D})
      BY <3>2, ImageFinite
    <3>4. /\ IsFiniteSet(IF on THEN {<<Handle, body>>} ELSE {})
          /\ IsFiniteSet(IF leaks THEN {<<<<"lost", 0, stop>>, body>>} ELSE {})
      BY FS_EmptySet, FS_Singleton
    <3>5. IsFiniteSet({<<<<"scratch", 0, k>>, body>> : k \in D}
             \cup (IF on THEN {<<Handle, body>>} ELSE {}))
      BY <3>2, <3>3, <3>4, FS_Union
    <3>6. IsFiniteSet(taken)
      BY <3>4, <3>5, FS_Union DEF D
    <3> QED
      BY <3>6, <2>4, FS_Subset
  <2>6. Cardinality(To(taken, b)) \in Nat
    BY <2>5, FS_CardinalityType
  <2>7. refs'[b] = refs[b] + Cardinality(To(taken, b)) - 0
    BY <1>3, <2>1, <2>4
  <2> HIDE DEF taken
  <2> QED
    BY <2>3, <2>5, <2>6, <2>7
<1>6. ASSUME NEW b \in DOMAIN Msgs
      PROVE  /\ b \in live <=> Holders(b) # {} \/ b \in lost \/ body = b
             /\ body = b => Holders(b) = {} /\ b \notin lost
  BY DEF Owned
<1>7. ASSUME NEW b \in DOMAIN Msgs, ~(on /\ b = body)
      PROVE  /\ Holders(b)' = Holders(b) /\ To(taken, b) = {}
             /\ b \in lost' <=> b \in lost
             /\ body' = b <=> body = b
  <2>0. b # 0 /\ (b # body \/ ~sharing)
    BY <1>1, <1>7
  <2>1. /\ \A k \in DOMAIN scratch' : scratch'[k] # b
        /\ shared' # b /\ (b \in lost' <=> b \in lost) /\ (body' = b <=> body = b)
    BY <1>0, <1>3, <2>0
  <2>2. Holders(b)' = Holders(b)
    <3>1. tmp' = tmp /\ arrays' = arrays /\ shared # b /\ \A k \in DOMAIN scratch : scratch[k] # b
      BY <2>0, <1>0
    <3> HIDE DEF on
    <3>2. \A h : h \in Holders(b)' <=> h \in Holders(b)
      BY <2>0, <2>1, <3>1, HolderStep
    <3> QED
      BY <3>2
  <2>3. \A h \in taken : h[2] = body /\ sharing /\ body # 0
    OBVIOUS
  <2>4. To(taken, b) = {}
    <3> HIDE DEF taken
    <3> QED
      BY <2>3, <1>7 DEF To
  <2> QED
    BY <2>1, <2>2, <2>4
<1>8. ASSUME NEW b \in DOMAIN Msgs, on, b = body
      PROVE  /\ Holders(b) = {} /\ b \notin lost /\ Holders(b)' # {} /\ body' # b
             /\ Cardinality(To(taken, b))
                   = Cardinality(Holders(b)') + (IF b \in lost' THEN 1 ELSE 0)
  <2>0. b # 0 /\ Holders(b) = {} /\ b \notin lost
    BY <1>1, <1>6, <1>8
  <2>1. \A k \in DOMAIN scratch' : scratch'[k] = b <=> k \in 1..stop /\ takes(k)
    <3>1. ASSUME NEW k \in DOMAIN scratch' PROVE scratch'[k] = b <=> k \in 1..stop /\ takes(k)
      <4>1. k \in 1..Len(seen) /\ scratch[k] = 0 /\ (k > stop <=> k \notin 1..stop)
        BY <1>0, <1>3
      <4>2. scratch'[k] = IF k > stop THEN scratch[k] ELSE IF takes(k) THEN body ELSE 0
        BY <1>3, <3>1
      <4> HIDE DEF takes
      <4> QED
        BY <4>1, <4>2, <2>0, <1>8
    <3> QED
      BY <3>1
  <2>2. 1..stop \subseteq DOMAIN scratch'
    BY <1>0, <1>3
  <2>3. shared' = b /\ body' # b /\ (b \in lost' <=> leaks)
    BY <1>3, <1>8, <2>0
  <2>4. /\ \A i \in DOMAIN arrays : \A k \in DOMAIN arrays[i].bufs : arrays[i].bufs[k] # b
        /\ \A k \in DOMAIN tmp.bufs : tmp.bufs[k] # b
    BY <2>0, NoHolder
  <2>5. \A h : h \in Holders(b)' <=>
           \/ \E k \in 1..stop : takes(k) /\ h = <<<<"scratch", 0, k>>, b>>
           \/ h = <<Handle, b>>
    <3> HIDE DEF takes
    <3>1. UNCHANGED <<tmp, arrays>>
      OBVIOUS
    <3> QED
      BY <2>0, <2>1, <2>2, <2>3, <2>4, <3>1, HolderStep
  <2>6. <<Handle, b>> \in Holders(b)'
    BY <2>5
  <2> DEFINE L == IF leaks THEN {<<<<"lost", 0, stop>>, b>>} ELSE {}
  <2>7. To(taken, b) = Holders(b)' \cup L
    <3>1. \A h : h \in taken <=> \/ \E k \in 1..stop : takes(k) /\ h = <<<<"scratch", 0, k>>, b>>
                                 \/ h = <<Handle, b>> \/ h \in L
      BY <1>8
    <3>2. \A h \in taken : h[2] = b
      BY <1>8
    <3> HIDE DEF taken, takes, L
    <3> QED
      BY <3>1, <3>2, <2>5 DEF To
  <2>8. <<<<"lost", 0, stop>>, b>> \notin Holders(b)'
    <3> HIDE DEF takes
    <3> QED
      BY <2>5 DEF Handle
  <2>9. IsFiniteSet(Holders(b)')
    <3>1. IsFiniteSet(To(taken, b)) /\ Holders(b)' \subseteq To(taken, b)
      BY <1>5, <2>7
    <3> HIDE DEF taken
    <3> QED
      BY <3>1, FS_Subset
  <2>10. Cardinality(Holders(b)' \cup L) = Cardinality(Holders(b)') + (IF leaks THEN 1 ELSE 0)
    <3> HIDE DEF leaks
    <3>1. CASE leaks
      <4>1. L = {<<<<"lost", 0, stop>>, b>>}
        BY <3>1
      <4> QED
        BY <2>8, <2>9, <3>1, <4>1, FS_AddElement
    <3>2. CASE ~leaks
      <4>1. Holders(b)' \cup L = Holders(b)' /\ Cardinality(Holders(b)') \in Nat
        BY <3>2, <2>9, FS_CardinalityType
      <4> QED
        BY <3>2, <4>1
    <3> QED
      BY <3>1, <3>2
  <2> HIDE DEF taken, leaks, L
  <2> QED
    BY <2>0, <2>3, <2>6, <2>7, <2>10
<1> HIDE DEF taken, on
<1>9. ASSUME NEW b \in DOMAIN Msgs
      PROVE  /\ refs'[b] = Cardinality(Holders(b)') + (IF b \in lost' THEN 1 ELSE 0)
             /\ b \in live' <=> Holders(b)' # {} \/ b \in lost' \/ body' = b
             /\ body' = b => Holders(b)' = {} /\ b \notin lost'
  <2>1. CASE on /\ b = body
    <3>1. refs[b] = 0
      BY <2>1, <1>5, <1>8, FS_EmptySet
    <3>2. refs'[b] = 0 + Cardinality(To(taken, b)) /\ Cardinality(To(taken, b)) \in Nat
      BY <3>1, <1>5, FS_CardinalityType
    <3>3. refs'[b] = Cardinality(Holders(b)') + (IF b \in lost' THEN 1 ELSE 0)
      BY <3>2, <2>1, <1>8
    <3> QED
      BY <3>3, <2>1, <1>4, <1>6, <1>8
  <2>2. CASE ~(on /\ b = body)
    <3>1. To(taken, b) = {} /\ Cardinality({}) = 0
      BY <2>2, <1>7, FS_EmptySet
    <3>2. refs'[b] = refs[b]
      <4>1. refs'[b] = refs[b] + Cardinality(To(taken, b)) /\ refs[b] \in Nat
        BY <1>5
      <4>2. refs'[b] = refs[b] + 0
        BY <3>1, <4>1
      <4> QED
        BY <4>1, <4>2
    <3> QED
      BY <2>2, <3>2, <1>4, <1>5, <1>6, <1>7
  <2> QED
    BY <2>1, <2>2
<1>10. lost' \subseteq live' /\ live' \subseteq 1..LastRead'
  <2>1. lost \subseteq live /\ live \subseteq 1..LastRead
    BY DEF Owned
  <2>2. body # 0 => body \in live
    BY <1>1, <1>6
  <2>3. \A b \in lost' : b \in lost \/ (b = body /\ body # 0)
    BY <1>3
  <2> QED
    BY <1>0, <1>4, <2>1, <2>2, <2>3
<1> QED
  BY <1>0, <1>9, <1>10 DEF Owned

(* SetArrayView stops at a buffer of the walk.                              *)
LEMMA OwnedSetArrayView ==
    ASSUME Base, Owned, SetArrayView
    PROVE  Owned'
<1> DEFINE bs  == [k \in DOMAIN seen |-> Here.buffers[seen[k].buffer + 1]]
           bad == {k \in DOMAIN bs : MakeBuffer(bs[k], seen[k]) # "OK"}
<1>0. /\ DOMAIN bs = 1..Len(seen) /\ Len(seen) \in Nat /\ pc = "decode"
      /\ UNCHANGED <<stream, decoder, tmp, arrays>>
  <2>1. seen \in Seq(Views)
    BY DEF Base, Typed
  <2>2. DOMAIN bs = DOMAIN seen /\ DOMAIN seen = 1..Len(seen) /\ Len(seen) \in Nat
    BY <2>1
  <2> QED
    BY <2>2 DEF SetArrayView, input
<1>1. CASE bad = {} /\ SetViews(bs, Len(seen), "OK")
  <2>1. Len(seen) \in 0..Len(seen)
    BY <1>0
  <2> HIDE DEF bs
  <2> QED
    BY <2>1, <1>0, <1>1, OwnedSetViews
<1>2. CASE bad # {} /\ SetViews(bs, Min(bad), MakeBuffer(bs[Min(bad)], seen[Min(bad)]))
  <2>1. bad \subseteq Nat /\ bad \subseteq 0..Len(seen)
    BY <1>0
  <2> HIDE DEF bad, bs
  <2>2. Min(bad) \in 0..Len(seen)
    BY <1>2, <2>1, MinOfSet
  <2>3. PICK stop, code : stop = Min(bad) /\ code = MakeBuffer(bs[Min(bad)], seen[Min(bad)])
    OBVIOUS
  <2>4. stop \in 0..Len(seen) /\ SetViews(bs, stop, code)
    BY <1>2, <2>2, <2>3
  <2> QED
    BY <2>4, <1>0, OwnedSetViews
<1>3. CASE \E k \in DOMAIN bs : SetViews(bs, k, "ENOMEM")
  <2>1. PICK k \in DOMAIN bs : SetViews(bs, k, "ENOMEM")
    BY <1>3
  <2>2. k \in 0..Len(seen)
    BY <1>0
  <2> HIDE DEF bs
  <2> QED
    BY <2>1, <2>2, <1>0, OwnedSetViews
<1> QED
  BY <1>1, <1>2, <1>3 DEF SetArrayView

(* At the start nobody owns anything.                                       *)
LEMMA OwnedInit == Init => Owned
<1> SUFFICES ASSUME Init PROVE Owned
  OBVIOUS
<1>0. Base /\ 0 \notin DOMAIN Msgs /\ DOMAIN refs = DOMAIN Msgs
  BY BaseInit, StreamFacts DEF Base, Typed
<1>1. ASSUME NEW b \in DOMAIN Msgs PROVE Holders(b) = {} /\ refs[b] = 0
  <2>1. /\ DOMAIN scratch = {} /\ DOMAIN tmp.bufs = {} /\ DOMAIN arrays = {} /\ shared = 0
        /\ refs = [i \in DOMAIN Msgs |-> 0]
    BY DEF Init, NoArray, Msgs
  <2> QED
    BY <2>1, <1>0, HolderStep
<1>2. Cardinality({}) = 0
  BY FS_EmptySet
<1>3. live = {} /\ lost = {} /\ body = 0 /\ pc = "open"
  BY DEF Init
<1> QED
  BY <1>0, <1>1, <1>2, <1>3 DEF Owned

(* Every step keeps the ownership.                                          *)
LEMMA OwnedStep == Base /\ Owned /\ [Next]_vars => Owned'
<1> SUFFICES ASSUME Base, Owned, [Next]_vars PROVE Owned'
  OBVIOUS
<1>0. Base'
  BY BaseStep
<1>1. CASE UNCHANGED vars
  <2>1. /\ UNCHANGED <<scratch, tmp, arrays, shared>>
        /\ UNCHANGED <<stream, refs, live, lost, body>>
        /\ decoder' = decoder /\ pc' = pc
    BY <1>1 DEF vars, input, reader, memory
  <2>2. Typed /\ LastRead' = LastRead /\ LastRead \in Nat
    BY <2>1, StreamFacts DEF LastRead, Base, Typed, Bodies
  <2>3. LastRead' \in Nat /\ LastRead <= LastRead' /\ (pc' = "body" => LastRead' \notin live)
    BY <2>1, <2>2 DEF Owned
  <2>4. \A b \in DOMAIN Msgs : Holders(b)' = Holders(b)
    BY <2>1, HoldersSame
  <2> QED
    BY <2>1, <2>2, <2>3, <2>4, OwnedSame
<1>2. CASE ShareFails \/ ViewFails
  BY <1>2, OwnedFail DEF ShareFails, ViewFails
<1>3. CASE Next
  BY <1>0, <1>2, <1>3, OwnedStill, OwnedReadSchema, OwnedReadBatchHeader, OwnedReadBody,
     OwnedSetArrayView, OwnedDecodeArray, OwnedFinishBuilding, OwnedUnshare, OwnedAppendArray,
     OwnedConvert, OwnedDelete DEF Next, Construct
<1> QED
  BY <1>1, <1>3

(* What the invariant says about the bodies is what the run checks.         *)
LEMMA OwnedMeans == Base /\ Owned => BodiesOwned
<1> SUFFICES ASSUME Base, Owned PROVE BodiesOwned
  OBVIOUS
<1>0. /\ Typed /\ DOMAIN Msgs = 1..Len(Msgs) /\ Len(Msgs) \in Nat /\ DOMAIN refs = DOMAIN Msgs
      /\ LastRead \in 0..Len(Msgs) /\ body \in 0..Len(Msgs) /\ shared \in 0..Len(Msgs)
  <2>1. Typed
    BY DEF Base
  <2> QED
    BY <2>1, StreamFacts DEF Typed, Bodies
<1>1. ASSUME NEW b \in DOMAIN refs PROVE refs[b] \in Nat
  <2>1. IsFiniteSet(Holders(b))
    BY <1>0, FiniteNow
  <2>2. Cardinality(Holders(b)) \in Nat
    BY <2>1, FS_CardinalityType
  <2>3. refs[b] = Cardinality(Holders(b)) + (IF b \in lost THEN 1 ELSE 0)
    BY <1>0 DEF Owned
  <2> QED
    BY <2>2, <2>3
<1>2. live \subseteq DOMAIN Msgs
  BY <1>0 DEF Owned
<1>3. TypeOK
  <2>1. pc \in Steps /\ owner \in {"iterator", "pyarrow", "none"}
    BY DEF Base, Resting
  <2>2. {body, shared} \subseteq {0} \cup DOMAIN Msgs
    BY <1>0
  <2> QED
    BY <2>1, <2>2, <1>0, <1>1, <1>2 DEF TypeOK, Typed, Bodies, Steps
<1>4. RefcountExact
  BY <1>0 DEF Owned, RefcountExact
<1>5. NothingLeaks
  <2> SUFFICES ASSUME pc = "deleted", owner = "none" PROVE live = lost
    BY DEF NothingLeaks
  <2>1. /\ arrays = <<>> /\ tmp = NoArray /\ shared = 0 /\ body = 0
        /\ \A k \in DOMAIN scratch : scratch[k] = 0
    BY DEF Base, Resting, Loop, Typed
  <2>2. ASSUME NEW b \in DOMAIN Msgs PROVE b \in live <=> b \in lost
    <3>0. b # 0 /\ DOMAIN arrays = {} /\ DOMAIN tmp.bufs = {}
      BY <1>0, <2>1 DEF NoArray
    <3>1. \A h : h \notin Holders(b)
      BY <3>0, <2>1, HolderStep
    <3>2. body # b /\ Holders(b) = {}
      BY <3>0, <3>1, <2>1
    <3> QED
      BY <3>2 DEF Owned
  <2>3. lost \subseteq live
    BY DEF Owned
  <2> QED
    BY <2>2, <2>3, <1>2
<1> QED
  BY <1>3, <1>4, <1>5 DEF BodiesOwned

(* Every body of a message is owned by what refers to it: its count is      *)
(* exact on every path of ArrowIpcDecoderDecodeArrayFromShared and of the   *)
(* constructor, what is referred to is not freed, and when the iterator and *)
(* the table are gone only the reference of a failed copy is left.          *)
THEOREM ArrowBodiesOwned == Spec => []BodiesOwned
<1>1. Init => Base /\ Owned
  BY BaseInit, OwnedInit
<1>2. Base /\ Owned /\ [Next]_vars => Base' /\ Owned'
  BY BaseStep, OwnedStep
<1> QED
  BY <1>1, <1>2, OwnedMeans, PTL DEF Spec

-----------------------------------------------------------------------------
(* The end of the stream.                                                   *)

(* The messages that were read come before the end marker.                  *)
LEMMA EndLater ==
    ASSUME Base
    PROVE  /\ EndOf \in Nat /\ LastRead < EndOf /\ EndOf <= Len(Msgs) + 1
           /\ \A i \in 1..Len(Msgs) : Msgs[i].header = 0 => EndOf <= i
<1> DEFINE E == {Len(Msgs) + 1} \cup {i \in DOMAIN Msgs : Msgs[i].header = 0}
<1>0. /\ Len(Msgs) \in Nat /\ DOMAIN Msgs = 1..Len(Msgs) /\ LastRead \in 0..Len(Msgs)
      /\ \A i \in 1..LastRead : Msgs[i].header # 0
  BY StreamFacts DEF Base, Typed, Bodies, Position
<1>1. E \subseteq Nat /\ E # {} /\ (Len(Msgs) + 1) \in E
      /\ \A i \in 1..Len(Msgs) : Msgs[i].header = 0 => i \in E
  BY <1>0
<1>2. \A i \in E : LastRead < i
  BY <1>0
<1> HIDE DEF E
<1>3. Min(E) \in E /\ \A y \in E : Min(E) <= y
  BY <1>1, MinOfSet
<1>4. EndOf = Min(E)
  BY DEF EndOf, E
<1> QED
  BY <1>1, <1>2, <1>3, <1>4

(* The batches that were read are the first ones of the stream.             *)
LEMMA BatchesRead ==
    ASSUME Base
    PROVE  /\ 2..LastRead \subseteq Batches /\ Batches \subseteq 1..Len(Msgs)
           /\ \A i \in Batches : i <= LastRead => i \in 2..LastRead
<1>0. /\ Len(Msgs) \in Nat /\ LastRead \in 0..Len(Msgs)
      /\ EndOf \in Nat /\ LastRead < EndOf /\ EndOf <= Len(Msgs) + 1
  BY EndLater, StreamFacts DEF Base, Typed, Bodies
<1>1. ASSUME NEW i \in 2..LastRead PROVE i \in Batches
  <2>1. i \in 1..LastRead /\ i # 1 /\ i \in 1..(EndOf - 1)
    BY <1>0
  <2>2. Msgs[i].type = "batch" /\ stream.starts[i] < stream.size
    BY <2>1 DEF Base, Position
  <2> QED
    BY <2>1, <2>2 DEF Batches
<1>2. ASSUME NEW i \in Batches PROVE i \in 1..Len(Msgs) /\ (i <= LastRead => i \in 2..LastRead)
  <2>1. i \in 1..(EndOf - 1) /\ Msgs[i].type = "batch"
    BY DEF Batches
  <2>2. i = 1 /\ i <= LastRead => Msgs[i].type = "schema"
    BY <1>0 DEF Base, Position
  <2> QED
    BY <1>0, <2>1, <2>2
<1> QED
  BY <1>1, <1>2

(* Where the reader takes the end of the stream there is none left, and the *)
(* input is not cut.                                                        *)
LEMMA NoneLeft ==
    ASSUME Base, LastRead > 0, cursor = EndAt(LastRead),
           cursor = stream.size \/ (LastRead < Len(Msgs) /\ Msgs[LastRead + 1].header = 0)
    PROVE  Batches = 2..LastRead /\ ~Cut
<1>0. /\ Len(Msgs) \in Nat /\ LastRead \in 1..Len(Msgs) /\ stream \in Streams
      /\ EndOf \in Nat /\ LastRead < EndOf /\ EndOf <= Len(Msgs) + 1
      /\ cursor <= stream.size /\ stream.size \in Nat /\ cursor \in Nat
  BY EndLater, StreamFacts DEF Base, Typed, Bodies
<1>1. ASSUME NEW i \in 1..(EndOf - 1), LastRead < i PROVE ~(stream.starts[i] < stream.size)
  <2>1. i \in 1..Len(Msgs)
    BY <1>0
  <2>2. EndAt(LastRead) <= stream.starts[i] /\ stream.starts[i] \in Nat
    BY <1>0, <1>1, <2>1, StreamFacts
  <2>3. CASE cursor = stream.size
    BY <2>2, <2>3, <1>0
  <2>4. CASE LastRead < Len(Msgs) /\ Msgs[LastRead + 1].header = 0
    <3>1. LastRead + 1 \in 1..Len(Msgs)
      BY <1>0, <2>4
    <3>2. EndOf <= LastRead + 1
      BY <2>4, <3>1, EndLater
    <3> QED
      BY <3>2, <1>0, <1>1
  <2> QED
    BY <2>3, <2>4
<1>2. Batches \subseteq 2..LastRead
  <2>1. ASSUME NEW i \in Batches PROVE i \in 2..LastRead
    <3>1. i \in 1..(EndOf - 1) /\ stream.starts[i] < stream.size
      BY DEF Batches
    <3>2. i <= LastRead
      BY <3>1, <1>0, <1>1
    <3> QED
      BY <3>2, BatchesRead
  <2> QED
    BY <2>1
<1>3. ASSUME NEW i \in 1..(EndOf - 1), stream.starts[i] < stream.size
      PROVE  ~(stream.size < stream.starts[i] + MessageSize(Msgs[i]))
  <2>1. i \in 1..LastRead
    BY <1>0, <1>1, <1>3
  <2>2. EndAt(i) <= stream.size
    <3>1. i < LastRead => EndAt(i) <= stream.size
      BY <2>1 DEF Base, Position
    <3>2. i = LastRead => EndAt(i) <= stream.size
      BY <1>0
    <3> QED
      BY <2>1, <3>1, <3>2, <1>0
  <2>3. EndAt(i) \in Nat
    BY <1>0, <2>1, StreamFacts
  <2> QED
    BY <2>2, <2>3, <1>0 DEF EndAt
<1> QED
  BY <1>2, <1>3, BatchesRead DEF Cut

(* No step takes the end of the stream before it.                           *)
LEMMA AtEndStep == Base /\ AtEnd /\ [Next]_vars => AtEnd'
<1> SUFFICES ASSUME Base, AtEnd, [Next]_vars PROVE AtEnd'
  OBVIOUS
<1>1. CASE /\ pc \in {"opened", "rows", "exhausted"} \/ pc' \notin {"opened", "rows", "exhausted"}
           /\ UNCHANGED <<stream, cursor, decoder, arrays, dropped>>
  BY <1>1 DEF AtEnd, EndAt, LastRead, Msgs
<1>2. CASE pc' \notin {"opened", "rows", "exhausted"}
  BY <1>2 DEF AtEnd
<1>3. CASE UNCHANGED vars
  <2>1. UNCHANGED <<stream, cursor, decoder, arrays, dropped, pc>>
    BY <1>3 DEF vars, input, reader, iter
  <2> QED
    BY <2>1, <1>1
<1>4. CASE StartRows \/ NextRow
  BY <1>4, <1>1 DEF StartRows, NextRow, input, reader, iter
<1>5. CASE AppendArray /\ pc' = "opened"
  <2>1. rc = "OK" /\ tmp = NoArray /\ pc = "append" /\ dropped' = dropped
    BY <1>5 DEF AppendArray, Fail, ReleaseStream, iter
  <2>2. dropped'
    BY <2>1 DEF Base, Collected
  <2> QED
    BY <2>2 DEF AtEnd
<1>6. CASE ReadBatchHeader /\ pc' = "opened"
  <2> DEFINE h == NextHeader("batch")
  <2>0. pc = "header" /\ Typed /\ Len(Msgs) \in Nat /\ LastRead \in 0..Len(Msgs)
    BY <1>6, StreamFacts DEF ReadBatchHeader, Base, Typed, Bodies
  <2>1. h.code = "ENODATA" /\ ReleaseStream("opened") /\ UNCHANGED <<arrays, input>>
    BY <1>6 DEF ReadBatchHeader, Fail, ReleaseStream
  <2>2. UNCHANGED <<stream, cursor, decoder, arrays>>
    BY <2>1 DEF ReleaseStream, input
  <2>3. PICK i : i = LastRead + 1
    OBVIOUS
  <2>4. cursor = Place(i) /\ i \in 1..(Len(Msgs) + 1)
    BY <2>0, <2>3, NextDue
  <2>5. h.code = "ENODATA" => cursor = stream.size \/ (i \in 1..Len(Msgs) /\ Msgs[i].header = 0)
    <3> HIDE DEF h
    <3> QED
      BY <2>0, <2>4, HeaderResult DEF h
  <2>6. LastRead > 0 /\ cursor = EndAt(LastRead) /\ Len(arrays) = LastRead - 1
    BY <2>0 DEF Base, Position, Collected, Loop
  <2>7. i \in 1..Len(Msgs) => LastRead < Len(Msgs)
    BY <2>0, <2>3
  <2>8. cursor = stream.size \/ (LastRead < Len(Msgs) /\ Msgs[LastRead + 1].header = 0)
    BY <2>1, <2>3, <2>5, <2>7
  <2> QED
    BY <2>2, <2>6, <2>8 DEF AtEnd, EndAt, LastRead, Msgs
<1>7. CASE Construct /\ ~(AppendArray \/ ReadBatchHeader)
  <2>1. pc' \notin {"opened", "rows", "exhausted"}
    BY <1>7 DEF Construct, OpenFails, ReaderInit, ReadSchema, ReadBody, ShareFails, SetArrayView,
       SetViews, DecodeArray, FinishBuilding, Unshare, ViewFails, Fail, ReleaseStream
  <2> QED
    BY <2>1, <1>2
<1>8. CASE AppendArray \/ ReadBatchHeader
  <2>1. pc' = "opened" \/ pc' \notin {"opened", "rows", "exhausted"}
    BY <1>8 DEF AppendArray, ReadBatchHeader, Fail, ReleaseStream
  <2> QED
    BY <2>1, <1>2, <1>5, <1>6, <1>8
<1>9. CASE Convert \/ ImportTable \/ Delete \/ ReleaseTable
  <2>1. pc' \notin {"opened", "rows", "exhausted"}
    BY <1>9 DEF Convert, ConvertColumn, ImportTable, Delete, ReleaseTable
  <2> QED
    BY <2>1, <1>2
<1> QED
  BY <1>3, <1>4, <1>7, <1>8, <1>9 DEF Next

(* What the invariant says about the end is what the run checks.            *)
LEMMA AtEndMeans == Base /\ AtEnd => OpenedMeansWhole
<1> SUFFICES ASSUME Base, AtEnd, pc \in {"opened", "rows", "exhausted"}, ~dropped
             PROVE  /\ ~Cut
                    /\ {arrays[j].msg : j \in DOMAIN arrays} = Batches
                    /\ \A j, k \in DOMAIN arrays : j < k => arrays[j].msg < arrays[k].msg
  BY DEF OpenedMeansWhole
<1>1. /\ LastRead > 0 /\ cursor = EndAt(LastRead) /\ Len(arrays) = LastRead - 1
      /\ cursor = stream.size \/ (LastRead < Len(Msgs) /\ Msgs[LastRead + 1].header = 0)
  BY DEF AtEnd
<1>2. Batches = 2..LastRead /\ ~Cut
  BY <1>1, NoneLeft
<1>3. /\ LastRead \in Nat /\ DOMAIN arrays = 1..Len(arrays) /\ Len(arrays) \in Nat
      /\ \A j \in DOMAIN arrays : arrays[j].msg = j + 1
  BY StreamFacts DEF Base, Typed, Bodies, Collected
<1>4. {arrays[j].msg : j \in DOMAIN arrays} = 2..LastRead
  <2>1. ASSUME NEW j \in DOMAIN arrays PROVE arrays[j].msg \in 2..LastRead
    BY <1>1, <1>3
  <2>2. ASSUME NEW i \in 2..LastRead PROVE \E j \in DOMAIN arrays : i = arrays[j].msg
    <3>1. i - 1 \in DOMAIN arrays /\ (i - 1) + 1 = i
      BY <1>1, <1>3
    <3> QED
      BY <3>1, <1>3
  <2> QED
    BY <2>1, <2>2
<1> QED
  BY <1>2, <1>3, <1>4

(* A constructor that reports no error and dropped no array has read every  *)
(* batch before the end of the input, and the input is not cut: ENODATA is  *)
(* never a short read.                                                      *)
THEOREM ArrowOpenedMeansWhole == Spec => []OpenedMeansWhole
<1>1. Init => Base /\ AtEnd
  <2>1. Init => AtEnd
    BY DEF Init, AtEnd
  <2> QED
    BY <2>1, BaseInit
<1>2. Base /\ AtEnd /\ [Next]_vars => Base' /\ AtEnd'
  BY BaseStep, AtEndStep
<1> QED
  BY <1>1, <1>2, AtEndMeans, PTL DEF Spec

-----------------------------------------------------------------------------
(* The table.                                                               *)

(* A column is replaced before it is marked, and stays so.                  *)
LEMMA ReplacedStep == Base /\ Replaced /\ [Next]_vars => Replaced'
<1> SUFFICES ASSUME Base, Replaced, [Next]_vars PROVE Replaced'
  OBVIOUS
<1> DEFINE Before == Loop \cup {"open", "schema"}
<1>1. CASE pc \in Before /\ UNCHANGED converted
           /\ pc' \in Before \cup {"opened", "failed", "undefined"}
  <2>1. converted' = {}
    BY <1>1 DEF Replaced
  <2> QED
    BY <1>1, <2>1 DEF Replaced, Loop
<1>2. CASE pc' \notin Before \cup {"opened", "convert", "imported"}
  BY <1>2 DEF Replaced
<1>3. CASE Construct
  <2>1. UNCHANGED converted
    BY <1>3 DEF Construct, OpenFails, ReaderInit, ReadSchema, ReadBatchHeader, ReadBody, ShareFails,
       SetArrayView, DecodeArray, FinishBuilding, Unshare, AppendArray, ViewFails, iter
  <2>2. pc \in Before
    BY <1>3 DEF Construct, OpenFails, ReaderInit, ReadSchema, ReadBatchHeader, ReadBody, ShareFails,
       SetArrayView, DecodeArray, FinishBuilding, Unshare, AppendArray, ViewFails, Loop
  <2>3. pc' \in Before \cup {"opened", "failed", "undefined"}
    BY <1>3 DEF Construct, OpenFails, ReaderInit, ReadSchema, ReadBatchHeader, ReadBody, ShareFails,
       SetArrayView, SetViews, DecodeArray, FinishBuilding, Unshare, AppendArray, ViewFails,
       Fail, ReleaseStream, Loop
  <2> QED
    BY <1>1, <2>1, <2>2, <2>3
<1>4. CASE StartRows \/ NextRow \/ Delete \/ ReleaseTable
  <2>1. pc' \notin Before \cup {"opened", "convert", "imported"}
    BY <1>4 DEF StartRows, NextRow, CreateRow, Delete, ReleaseTable, Loop
  <2> QED
    BY <2>1, <1>2
<1>5. CASE UNCHANGED vars
  <2>1. UNCHANGED <<stream, pc, seen, pyerr, arrays, converted>>
    BY <1>5 DEF vars, input, reader, walk, iter
  <2> QED
    BY <2>1 DEF Replaced, OfColumn, Columns, Root, Msgs
<1>6. CASE ImportTable
  <2>1. UNCHANGED <<stream, seen, arrays, converted>> /\ views = Len(arrays)
        /\ pc' \in {"imported", "failed"} /\ pc \in {"opened", "convert"} /\ (~pyerr' => ~pyerr)
    BY <1>6 DEF ImportTable, input, reader, walk, Base, Collected
  <2>2. UNCHANGED Root /\ \A c : OfColumn(c)' = OfColumn(c) /\ Columns(c)' = Columns(c)
    BY <2>1 DEF OfColumn, Columns, Root, Msgs
  <2>3. DOMAIN arrays = 1..views
    BY <2>1 DEF Base, Typed
  <2>4. \A i \in DOMAIN arrays : \A c \in Columns(i) : <<i, c>> \in converted
    BY <1>6, <2>3 DEF ImportTable
  <2>5. ~pyerr' => \A i \in DOMAIN arrays : \A c \in DOMAIN Root.children :
           <<i, c>> \in converted => \A k \in OfColumn(c) : arrays[i].bufs[k] = 0
    BY <2>1 DEF Replaced
  <2> QED
    BY <2>1, <2>2, <2>4, <2>5 DEF Replaced, Loop
<1>7. CASE Convert
  <2>1. PICK i \in 1..views, k \in DOMAIN Root.children : ConvertColumn(i, k)
    BY <1>7 DEF Convert
  <2>2. /\ UNCHANGED <<stream, seen>> /\ views = Len(arrays)
        /\ converted' = converted \cup {<<i, k>>}
        /\ pc' \in {"convert", "failed"} /\ pc \in {"opened", "convert"}
    BY <2>1 DEF ConvertColumn, input, reader, walk, Base, Collected
  <2>3. UNCHANGED Root /\ \A c : OfColumn(c)' = OfColumn(c)
    BY <2>2 DEF OfColumn, Root, Msgs
  <2>4. CASE pc' = "failed" \/ pyerr'
    BY <2>2, <2>4 DEF Replaced, Loop
  <2>5. CASE ~(pc' = "failed" \/ pyerr')
    <3> DEFINE new == [n \in DOMAIN arrays[i].bufs |->
                          IF n \in OfColumn(k) THEN 0 ELSE arrays[i].bufs[n]]
    <3>1. /\ arrays' = [arrays EXCEPT ![i] = [arrays[i] EXCEPT !.bufs = new]] /\ pyerr' = pyerr
      BY <2>1, <2>5 DEF ConvertColumn
    <3>2. i \in DOMAIN arrays /\ arrays \in Seq(ArrayType) /\ arrays[i] \in ArrayType
      BY <2>1, <2>2 DEF Base, Typed
    <3>3. \A c : OfColumn(c) \subseteq DOMAIN arrays[i].bufs
      BY <3>2 DEF OfColumn, ArrayType
    <3>4. /\ \A n \in OfColumn(k) : new[n] = 0
          /\ \A n \in DOMAIN arrays[i].bufs : arrays[i].bufs[n] = 0 => new[n] = 0
      BY <3>3
    <3> HIDE DEF new
    <3>5. /\ DOMAIN arrays' = DOMAIN arrays /\ arrays'[i].bufs = new
          /\ \A j \in DOMAIN arrays : j # i => arrays'[j] = arrays[j]
      BY <3>1, <3>2 DEF ArrayType
    <3>6. ASSUME NEW j \in DOMAIN arrays, NEW c \in DOMAIN Root.children, <<j, c>> \in converted',
                 NEW n \in OfColumn(c)
          PROVE  arrays'[j].bufs[n] = 0
      <4>1. CASE <<j, c>> \in converted
        <5>1. arrays[j].bufs[n] = 0
          BY <4>1, <2>2, <2>5, <3>1, <3>6 DEF Replaced
        <5> QED
          BY <5>1, <3>3, <3>4, <3>5, <3>6
      <4>2. CASE <<j, c>> = <<i, k>>
        <5>1. j = i /\ c = k
          BY <4>2
        <5> QED
          BY <5>1, <3>4, <3>5, <3>6
      <4> QED
        BY <4>1, <4>2, <2>2, <3>6
    <3>7. pc' = "convert"
      BY <2>2, <2>5
    <3> QED
      BY <2>3, <3>5, <3>6, <3>7 DEF Replaced, Loop
  <2> QED
    BY <2>4, <2>5
<1> QED
  BY <1>3, <1>4, <1>5, <1>6, <1>7 DEF Next

(* A table that is imported has every column replaced that must be.         *)
LEMMA ReplacedMeans == Replaced => TableUniform
  BY DEF Replaced, TableUniform, Columns

-----------------------------------------------------------------------------
(* The rows.                                                                *)

(* A stream has finitely many batches.                                      *)
LEMMA BatchesFinite ==
    ASSUME Base
    PROVE  IsFiniteSet(Batches) /\ Cardinality(Batches) \in Nat
<1>1. PICK n : n = Len(Msgs)
  OBVIOUS
<1>2. n \in Nat /\ Batches \subseteq 1..n
  BY <1>1, BatchesRead, StreamFacts DEF Base, Typed
<1>3. IsFiniteSet(1..n)
  BY <1>2, FS_Interval
<1>4. IsFiniteSet(Batches)
  BY <1>2, <1>3, FS_Subset
<1> QED
  BY <1>4, FS_CardinalityType

(* The j-th batch of the stream is the message the j-th array comes from.   *)
LEMMA BatchHere ==
    ASSUME Base, NEW j \in 1..(LastRead - 1)
    PROVE  BatchNo(j) = j + 1
<1> DEFINE Under(i) == {k \in Batches : k < i}
<1>0. /\ LastRead \in Nat /\ j \in Nat /\ j + 1 \in 2..LastRead /\ j + 1 \in Batches
      /\ Batches \subseteq 1..Len(Msgs) /\ Len(Msgs) \in Nat
      /\ \A i \in Batches : i <= LastRead => i \in 2..LastRead
  <2>1. LastRead \in Nat /\ Len(Msgs) \in Nat
    BY StreamFacts DEF Base, Typed, Bodies
  <2> QED
    BY <2>1, BatchesRead
<1>1. IsFiniteSet(Batches)
  BY BatchesFinite
<1>2. ASSUME NEW i \in Batches PROVE IsFiniteSet(Under(i)) /\ Cardinality(Under(i)) \in Nat
  BY <1>1, FS_Subset, FS_CardinalityType
<1>3. Cardinality(Under(j + 1)) = j - 1
  <2>1. Under(j + 1) = 2..j
    <3>1. \A k \in 2..j : k \in 2..LastRead /\ k < j + 1
      BY <1>0
    <3>2. \A k \in 2..LastRead : k \in Batches
      BY BatchesRead
    <3>3. ASSUME NEW k \in Batches, k < j + 1 PROVE k \in 2..j
      <4>1. k \in Nat /\ k <= LastRead
        BY <1>0, <3>3
      <4>2. k \in 2..LastRead
        BY <4>1, <1>0
      <4> QED
        BY <4>2, <3>3, <1>0
    <3> QED
      BY <3>1, <3>2, <3>3
  <2>2. Cardinality(2..j) = IF 2 > j THEN 0 ELSE j - 2 + 1
    BY <1>0, FS_Interval
  <2>3. Cardinality(2..j) = j - 1
    BY <2>2, <1>0
  <2> HIDE DEF Under
  <2> QED
    BY <2>1, <2>3
<1>4. ASSUME NEW i \in Batches, NEW k \in Batches, i < k
      PROVE  Cardinality(Under(i)) < Cardinality(Under(k))
  <2>0. i \in Int /\ k \in Int /\ Batches \subseteq Int
    BY <1>0
  <2>1. Under(i) \subseteq Under(k) /\ i \in Under(k) /\ i \notin Under(i)
    <3>1. \A n \in Int : n < i => n < k
      BY <2>0, <1>4
    <3>2. ~(i < i)
      BY <2>0
    <3> QED
      BY <3>1, <3>2, <2>0, <1>4
  <2>2. IsFiniteSet(Under(k))
    BY <1>2
  <2> HIDE DEF Under
  <2>3. Cardinality(Under(i)) <= Cardinality(Under(k))
        /\ (Cardinality(Under(i)) = Cardinality(Under(k)) => Under(i) = Under(k))
    BY <2>1, <2>2, FS_Subset
  <2> QED
    BY <2>1, <2>3, <1>2
<1>5. ASSUME NEW i \in Batches, Cardinality(Under(i)) = j - 1 PROVE i = j + 1
  <2>1. ~(i < j + 1) /\ ~(j + 1 < i)
    <3> HIDE DEF Under
    <3> QED
      BY <1>0, <1>2, <1>3, <1>4, <1>5
  <2> QED
    BY <2>1, <1>0
<1>6. BatchNo(j) = CHOOSE i \in Batches : Cardinality(Under(i)) = j - 1
  BY DEF BatchNo
<1> HIDE DEF Under
<1> QED
  BY <1>0, <1>3, <1>5, <1>6

(* There are at least as many batches as were read.                         *)
LEMMA BatchesCounted ==
    ASSUME Base, LastRead > 0
    PROVE  /\ Cardinality(Batches) \in Nat /\ LastRead - 1 <= Cardinality(Batches)
           /\ Batches = 2..LastRead => Cardinality(Batches) = LastRead - 1
<1>0. LastRead \in Nat /\ Len(Msgs) \in Nat /\ Batches \subseteq 1..Len(Msgs)
  <2>1. LastRead \in Nat /\ Len(Msgs) \in Nat
    BY StreamFacts DEF Base, Typed, Bodies
  <2> QED
    BY <2>1, BatchesRead
<1>1. IsFiniteSet(Batches)
  BY BatchesFinite
<1>2. Cardinality(2..LastRead) = LastRead - 1
  <2>1. Cardinality(2..LastRead) = IF 2 > LastRead THEN 0 ELSE LastRead - 2 + 1
    BY <1>0, FS_Interval
  <2> QED
    BY <2>1, <1>0
<1>3. Cardinality(2..LastRead) <= Cardinality(Batches)
  BY <1>1, BatchesRead, FS_Subset
<1> QED
  BY <1>1, <1>2, <1>3, FS_CardinalityType

(* The rows of a batch that was read are those of its array.                *)
LEMMA RowsHere ==
    ASSUME Base, NEW b \in Nat, b < Len(arrays), NEW r
    PROVE  <<b, r>> \in AllRows <=> r \in Nat /\ r < arrays[b + 1].rows
<1>0. /\ Len(arrays) \in Nat /\ LastRead \in Nat /\ Len(arrays) < LastRead /\ LastRead > 0
      /\ b + 1 \in DOMAIN arrays /\ b + 1 \in Nat /\ arrays[b + 1].rows \in Nat
      /\ arrays[b + 1].rows = Msgs[(b + 1) + 1].rows
  <2>1. /\ LastRead \in 0..Len(Msgs) /\ Len(Msgs) \in Nat /\ arrays \in Seq(ArrayType)
        /\ (arrays # <<>> => Len(arrays) < LastRead)
        /\ \A j \in DOMAIN arrays : arrays[j].rows = Msgs[j + 1].rows
    BY StreamFacts DEF Base, Typed, Bodies, Collected
  <2>2. b + 1 \in DOMAIN arrays /\ arrays # <<>> /\ Len(arrays) \in Nat
    BY <2>1
  <2>3. arrays[b + 1] \in ArrayType
    BY <2>1, <2>2
  <2>4. Len(arrays) < LastRead /\ LastRead > 0
    BY <2>1, <2>2
  <2> QED
    BY <2>1, <2>2, <2>3, <2>4 DEF ArrayType
<1>1. b + 1 \in 1..(LastRead - 1) /\ b + 1 \in 1..Cardinality(Batches)
      /\ Cardinality(Batches) \in Nat
  <2>1. Cardinality(Batches) \in Nat /\ LastRead - 1 <= Cardinality(Batches)
    BY <1>0, BatchesCounted
  <2> QED
    BY <2>1, <1>0
<1>2. BatchNo(b + 1) = (b + 1) + 1
  <2>1. PICK j \in 1..(LastRead - 1) : j = b + 1
    BY <1>1
  <2>2. BatchNo(j) = j + 1
    BY BatchHere
  <2> QED
    BY <2>1, <2>2
<1>3. \A j \in 1..Cardinality(Batches) : \A s \in 0..(Msgs[BatchNo(j)].rows - 1) :
         <<j - 1, s>> = <<b, r>> <=> j = b + 1 /\ s = r
  BY <1>1
<1>4. <<b, r>> \in AllRows <=>
         \E j \in 1..Cardinality(Batches) : \E s \in 0..(Msgs[BatchNo(j)].rows - 1) :
            <<j - 1, s>> = <<b, r>>
  BY DEF AllRows, RowsOf
<1>5. <<b, r>> \in AllRows <=> r \in 0..(Msgs[BatchNo(b + 1)].rows - 1)
  BY <1>1, <1>3, <1>4
<1> QED
  BY <1>0, <1>2, <1>5

(* A row of the stream is a pair of numbers.                                *)
LEMMA RowPairs ==
    ASSUME Base, NEW x \in AllRows
    PROVE  \E b, r \in Nat : x = <<b, r>> /\ b < Cardinality(Batches)
<1>1. Cardinality(Batches) \in Nat
  BY BatchesFinite
<1>2. PICK j \in 1..Cardinality(Batches) : x \in RowsOf(j)
  BY DEF AllRows
<1>3. PICK r \in 0..(Msgs[BatchNo(j)].rows - 1) : x = <<j - 1, r>>
  BY <1>2 DEF RowsOf
<1>4. j - 1 \in Nat /\ j - 1 < Cardinality(Batches) /\ r \in Nat
  BY <1>1
<1> QED
  BY <1>3, <1>4

\* Row r of batch b is one of those up to the current row.
Passed(b, r) ==
    b \in 0..batchIndex /\ r < arrays[b + 1].rows /\ (b < batchIndex \/ r <= rowIndex)

(* CArrowChunkIterator::next returns the next row of the batch or the first *)
(* one of the next batch, or ends.                                          *)
LEMMA NextRowIs ==
    ASSUME Base, Returned, NextRow
    PROVE  \/ UNCHANGED rows /\ pc' \in {"failed", "exhausted"}
           \/ \E b, r \in Nat :
                 /\ pc' = "rows" /\ batchIndex' = b /\ rowIndex' = r
                 /\ rows' = Append(rows, <<b, r>>)
                 /\ b < Len(arrays) /\ rowCount' = arrays[b + 1].rows
                 /\ \/ b = batchIndex /\ r = rowIndex + 1 /\ r < rowCount
                    \/ b = batchIndex + 1 /\ r = 0 /\ rowIndex + 1 >= rowCount
<1>0. /\ pc = "rows" /\ Len(arrays) \in Nat
      /\ batchIndex \in -1..(Len(arrays) - 1) /\ rowIndex \in Int /\ rowCount \in Nat
      /\ batchIndex = -1 => rowIndex = -1 /\ rowCount = 0
      /\ batchIndex >= 0 => rowIndex >= 0 /\ rowCount = arrays[batchIndex + 1].rows
  BY DEF NextRow, Returned, Base, Typed
<1>1. CASE /\ rowIndex + 1 < rowCount /\ rowIndex' = rowIndex + 1
           /\ CreateRow(batchIndex, rowIndex + 1) /\ UNCHANGED <<batchIndex, rowCount>>
  <2>1. batchIndex \in Nat /\ rowIndex + 1 \in Nat /\ batchIndex < Len(arrays)
    BY <1>0, <1>1
  <2>2. CASE rows' = Append(rows, <<batchIndex, rowIndex + 1>>) /\ pc' = pc
    BY <1>0, <1>1, <2>1, <2>2
  <2>3. CASE UNCHANGED rows /\ pc' = "failed"
    BY <2>3
  <2> QED
    BY <1>1, <2>2, <2>3 DEF CreateRow
<1>2. CASE /\ rowIndex + 1 >= rowCount /\ batchIndex + 1 < Len(arrays)
           /\ batchIndex' = batchIndex + 1 /\ rowIndex' = 0
           /\ rowCount' = arrays[(batchIndex + 1) + 1].rows
           /\ CreateRow(batchIndex + 1, 0) \/ (pc' = "failed" /\ UNCHANGED rows)
  <2>1. batchIndex + 1 \in Nat /\ 0 \in Nat
    BY <1>0
  <2>2. CASE rows' = Append(rows, <<batchIndex + 1, 0>>) /\ pc' = pc
    BY <1>0, <1>2, <2>1, <2>2
  <2>3. CASE UNCHANGED rows /\ pc' = "failed"
    BY <2>3
  <2> QED
    BY <1>2, <2>2, <2>3 DEF CreateRow
<1>3. CASE pc' = "exhausted" /\ UNCHANGED rows
  BY <1>3
<1> QED
  BY <1>1, <1>2, <1>3 DEF NextRow

(* A row that is returned exists, comes after those before it, and makes    *)
(* one more row passed.                                                     *)
LEMMA RowAdded ==
    ASSUME Base, Returned, NextRow, AllHaveRows, pc' = "rows"
    PROVE  \E b, r \in Nat :
              /\ rows' = Append(rows, <<b, r>>) /\ b < Len(arrays) /\ r < arrays[b + 1].rows
              /\ batchIndex' = b /\ rowIndex' = r /\ rowCount' = arrays[b + 1].rows
              /\ \A c, q \in Nat : Passed(c, q) => c < b \/ (c = b /\ q < r)
              /\ \A c, q \in Nat :
                    Passed(c, q) \/ (c = b /\ q = r) <=>
                       c \in 0..b /\ q < arrays[c + 1].rows /\ (c < b \/ q <= r)
<1>1. PICK b, r \in Nat :
         /\ pc' = "rows" /\ batchIndex' = b /\ rowIndex' = r /\ rows' = Append(rows, <<b, r>>)
         /\ b < Len(arrays) /\ rowCount' = arrays[b + 1].rows
         /\ \/ b = batchIndex /\ r = rowIndex + 1 /\ r < rowCount
            \/ b = batchIndex + 1 /\ r = 0 /\ rowIndex + 1 >= rowCount
  BY NextRowIs
<1>2. /\ pc = "rows" /\ Len(arrays) \in Nat
      /\ batchIndex \in -1..(Len(arrays) - 1) /\ rowIndex \in Int /\ rowCount \in Nat
      /\ batchIndex = -1 => rowIndex = -1 /\ rowCount = 0
      /\ batchIndex >= 0 => rowIndex >= 0 /\ rowCount = arrays[batchIndex + 1].rows
      /\ batchIndex >= 0 => rowIndex < rowCount
  BY DEF NextRow, Returned, Base, Typed
<1>3. \A c \in Nat : c < Len(arrays) => arrays[c + 1].rows \in Nat /\ arrays[c + 1].rows > 0
  <2> SUFFICES ASSUME NEW c \in Nat, c < Len(arrays)
               PROVE  arrays[c + 1].rows \in Nat /\ arrays[c + 1].rows > 0
    OBVIOUS
  <2>1. /\ arrays \in Seq(ArrayType) /\ (arrays # <<>> => Len(arrays) < LastRead)
        /\ \A j \in DOMAIN arrays : arrays[j].rows = Msgs[j + 1].rows
    BY DEF Base, Typed, Collected
  <2>2. c + 1 \in DOMAIN arrays /\ arrays # <<>> /\ arrays[c + 1] \in ArrayType
    BY <2>1, <1>2
  <2>3. (c + 1) + 1 \in 2..LastRead
    <3>1. LastRead \in Nat
      BY StreamFacts DEF Base, Typed, Bodies
    <3> QED
      BY <3>1, <2>1, <2>2, <1>2
  <2>4. Msgs[(c + 1) + 1].rows > 0
    BY <2>3, BatchesRead DEF AllHaveRows
  <2> QED
    BY <2>1, <2>2, <2>4 DEF ArrayType
<1>4. r < arrays[b + 1].rows
  BY <1>1, <1>2, <1>3
<1>5. ASSUME NEW c \in Nat, NEW q \in Nat, Passed(c, q) PROVE c < b \/ (c = b /\ q < r)
  BY <1>1, <1>2, <1>5 DEF Passed
<1>6. ASSUME NEW c \in Nat, NEW q \in Nat
      PROVE  Passed(c, q) \/ (c = b /\ q = r) <=>
                c \in 0..b /\ q < arrays[c + 1].rows /\ (c < b \/ q <= r)
  <2>1. c <= b => arrays[c + 1].rows \in Nat
    BY <1>1, <1>2, <1>3
  <2> QED
    BY <1>1, <1>2, <1>4, <2>1 DEF Passed
<1>7. /\ \A c, q \in Nat : Passed(c, q) => c < b \/ (c = b /\ q < r)
      /\ \A c, q \in Nat : Passed(c, q) \/ (c = b /\ q = r) <=>
                              c \in 0..b /\ q < arrays[c + 1].rows /\ (c < b \/ q <= r)
  BY <1>5, <1>6
<1> WITNESS b \in Nat, r \in Nat
<1> QED
  BY <1>1, <1>4, <1>7, Zenon

(* The rows after a row is appended.                                        *)
LEMMA Appended ==
    ASSUME NEW s, s \in Seq(Nat \X Nat), NEW b \in Nat, NEW r \in Nat,
           NEW t, t = Append(s, <<b, r>>)
    PROVE  /\ t \in Seq(Nat \X Nat) /\ Len(s) \in Nat /\ DOMAIN s = 1..Len(s)
           /\ DOMAIN t = 1..(Len(s) + 1) /\ t[Len(s) + 1] = <<b, r>>
           /\ \A i \in DOMAIN s : i \in DOMAIN t /\ t[i] = s[i]
           /\ \A i \in DOMAIN t : i \in DOMAIN s \/ i = Len(s) + 1
<1>1. <<b, r>> \in Nat \X Nat
  OBVIOUS
<1> QED
  BY <1>1

(* Every step keeps the account of the rows that were returned.             *)
LEMMA ReturnedStep == Base /\ Returned /\ [Next]_vars => Returned'
<1> SUFFICES ASSUME Base, Returned, [Next]_vars PROVE Returned'
  OBVIOUS
<1> DEFINE Late == {"rows", "exhausted", "failed", "deleted"}
<1>1. CASE /\ UNCHANGED <<rows, batchIndex, rowIndex, rowCount>>
           /\ pc' # "rows" /\ (pc \in Late => pc' \in Late)
  BY <1>1 DEF Returned
<1>2. CASE UNCHANGED vars
  <2>1. UNCHANGED <<stream, pc, arrays, rows, batchIndex, rowIndex, rowCount>>
    BY <1>2 DEF vars, input, iter
  <2>2. AllHaveRows' = AllHaveRows
    BY <2>1 DEF AllHaveRows, Batches, EndOf, Msgs
  <2> QED
    BY <2>1, <2>2 DEF Returned
<1>3. CASE Construct
  <2>1. UNCHANGED <<rows, batchIndex, rowIndex, rowCount>>
    BY <1>3 DEF Construct, OpenFails, ReaderInit, ReadSchema, ReadBatchHeader, ReadBody, ShareFails,
       SetArrayView, DecodeArray, FinishBuilding, Unshare, AppendArray, ViewFails, iter
  <2>2. pc \notin Late
    BY <1>3 DEF Construct, OpenFails, ReaderInit, ReadSchema, ReadBatchHeader, ReadBody, ShareFails,
       SetArrayView, DecodeArray, FinishBuilding, Unshare, AppendArray, ViewFails
  <2>3. pc' # "rows"
    BY <1>3 DEF Construct, OpenFails, ReaderInit, ReadSchema, ReadBatchHeader, ReadBody, ShareFails,
       SetArrayView, SetViews, DecodeArray, FinishBuilding, Unshare, AppendArray, ViewFails,
       Fail, ReleaseStream
  <2> QED
    BY <2>1, <2>2, <2>3, <1>1
<1>4. CASE Convert \/ ImportTable \/ Delete \/ ReleaseTable
  <2>1. /\ UNCHANGED <<rows, batchIndex, rowIndex, rowCount>>
        /\ pc' # "rows" /\ (pc \in Late => pc' \in Late)
    BY <1>4 DEF Convert, ConvertColumn, ImportTable, Delete, ReleaseTable
  <2> QED
    BY <2>1, <1>1
<1>5. CASE StartRows
  <2>1. /\ UNCHANGED <<rows, batchIndex, rowIndex, rowCount, arrays>> /\ pc = "opened"
        /\ pc' = "rows"
        /\ rows = <<>> /\ batchIndex = -1 /\ rowIndex = -1 /\ rowCount = 0 /\ Len(arrays) \in Nat
    BY <1>5 DEF StartRows, iter, Returned, Base, Typed
  <2>2. DOMAIN rows = {} /\ 0..batchIndex = {} /\ batchIndex \in -1..(Len(arrays) - 1)
    BY <2>1
  <2>3. ~(batchIndex >= 0) /\ rowIndex \in Int /\ rowCount \in Nat
    BY <2>1
  <2> QED
    BY <2>1, <2>2, <2>3 DEF Returned
<1>6. CASE NextRow
  <2>0. rows \in Seq(Nat \X Nat) /\ UNCHANGED <<arrays, stream>> /\ pc = "rows"
        /\ Len(arrays) \in Nat
    BY <1>6 DEF NextRow, Returned, input, Base, Typed
  <2>1. CASE UNCHANGED rows /\ pc' \in {"failed", "exhausted"}
    BY <2>0, <2>1 DEF Returned
  <2>2. ASSUME NEW b \in Nat, NEW r \in Nat, pc' = "rows",
               batchIndex' = b, rowIndex' = r, rows' = Append(rows, <<b, r>>),
               b < Len(arrays), rowCount' = arrays[b + 1].rows
        PROVE  Returned'
    <3>1. rows' \in Seq(Nat \X Nat)
      BY <2>0, <2>2, Appended
    <3>2. arrays[b + 1].rows \in Nat
      <4>1. arrays \in Seq(ArrayType) /\ b + 1 \in DOMAIN arrays
        BY <2>0, <2>2 DEF Base, Typed
      <4>2. arrays[b + 1] \in ArrayType
        BY <4>1
      <4> QED
        BY <4>2 DEF ArrayType
    <3>3. /\ batchIndex' \in -1..(Len(arrays) - 1) /\ rowIndex' \in Int /\ rowCount' \in Nat
          /\ batchIndex' # -1 /\ rowIndex' >= 0
      BY <2>0, <2>2, <3>2
    <3>4. AllHaveRows' = AllHaveRows
      BY <2>0 DEF AllHaveRows, Batches, EndOf, Msgs
    <3>5. ASSUME AllHaveRows
          PROVE  /\ rowIndex' < rowCount'
                 /\ \A c, q \in Nat :
                       (\E i \in DOMAIN rows' : rows'[i] = <<c, q>>) <=>
                          /\ c \in 0..batchIndex' /\ q < arrays[c + 1].rows
                          /\ c < batchIndex' \/ q <= rowIndex'
      <4>1. PICK c0, r0 \in Nat :
              /\ rows' = Append(rows, <<c0, r0>>) /\ c0 < Len(arrays) /\ r0 < arrays[c0 + 1].rows
              /\ batchIndex' = c0 /\ rowIndex' = r0 /\ rowCount' = arrays[c0 + 1].rows
              /\ \A c, q \in Nat :
                    Passed(c, q) \/ (c = c0 /\ q = r0) <=>
                       c \in 0..c0 /\ q < arrays[c + 1].rows /\ (c < c0 \/ q <= r0)
        BY <1>6, <2>2, <3>5, RowAdded
      <4>2. c0 = b /\ r0 = r
        BY <4>1, <2>2
      <4>3. \A c, q \in Nat : (\E i \in DOMAIN rows : rows[i] = <<c, q>>) <=> Passed(c, q)
        BY <2>0, <3>5 DEF Returned, Passed
      <4>4. \A c, q \in Nat : (\E i \in DOMAIN rows' : rows'[i] = <<c, q>>) <=>
                                 (\E i \in DOMAIN rows : rows[i] = <<c, q>>) \/ (c = b /\ q = r)
        <5>1. PICK s, t : s = rows /\ t = rows'
          OBVIOUS
        <5>2. s \in Seq(Nat \X Nat) /\ t = Append(s, <<b, r>>)
          BY <5>1, <2>0, <2>2
        <5>3. /\ Len(s) \in Nat
              /\ DOMAIN t = 1..(Len(s) + 1) /\ t[Len(s) + 1] = <<b, r>>
              /\ \A i \in DOMAIN s : i \in DOMAIN t /\ t[i] = s[i]
              /\ \A i \in DOMAIN t : i \in DOMAIN s \/ i = Len(s) + 1
          BY <5>2, Appended
        <5>4. Len(s) + 1 \in DOMAIN t
          BY <5>3
        <5>5. \A c, q \in Nat : <<b, r>> = <<c, q>> <=> c = b /\ q = r
          OBVIOUS
        <5>6. \A c, q \in Nat : (\E i \in DOMAIN t : t[i] = <<c, q>>) <=>
                                 (\E i \in DOMAIN s : s[i] = <<c, q>>) \/ (c = b /\ q = r)
          BY <5>3, <5>4, <5>5
        <5> QED
          BY <5>1, <5>6
      <4>5. rowIndex' < rowCount'
        BY <4>1
      <4>6. \A c, q \in Nat : Passed(c, q) \/ (c = b /\ q = r) <=>
                       c \in 0..b /\ q < arrays[c + 1].rows /\ (c < b \/ q <= r)
        BY <4>1, <4>2
      <4>7. \A c, q \in Nat : (\E i \in DOMAIN rows' : rows'[i] = <<c, q>>) <=>
                       c \in 0..b /\ q < arrays[c + 1].rows /\ (c < b \/ q <= r)
        BY <4>3, <4>4, <4>6
      <4> QED
        BY <4>5, <4>7, <2>2
    <3> QED
      BY <2>0, <2>2, <3>1, <3>3, <3>4, <3>5 DEF Returned
  <2> QED
    BY <2>1, <2>2, <1>6, NextRowIs
<1> QED
  BY <1>2, <1>3, <1>4, <1>5, <1>6 DEF Next

(* Every step keeps the order of the rows, and the iterator ends only after *)
(* the last one.                                                            *)
LEMMA RowsStep == Base /\ AtEnd /\ Returned /\ RowsInOrder /\ [Next]_vars => RowsInOrder'
<1> SUFFICES ASSUME Base, AtEnd, Returned, RowsInOrder, [Next]_vars PROVE RowsInOrder'
  OBVIOUS
<1>0. UNCHANGED stream
  BY DEF Next, Construct, OpenFails, ReaderInit, ReadSchema, ReadBatchHeader, ReadBody, ShareFails,
     SetArrayView, DecodeArray, FinishBuilding, Unshare, AppendArray, ViewFails, StartRows, NextRow,
     Convert, ConvertColumn, ImportTable, Delete, ReleaseTable, vars, input
<1>1. AllRows' = AllRows /\ AllHaveRows' = AllHaveRows
  BY <1>0 DEF AllRows, RowsOf, BatchNo, AllHaveRows, Batches, EndOf, Msgs
<1>2. SUFFICES ASSUME AllHaveRows
               PROVE  /\ \A i \in DOMAIN rows' : rows'[i] \in AllRows
                      /\ \A i, j \in DOMAIN rows' : i < j => Precedes(rows'[i], rows'[j])
                      /\ \A i \in DOMAIN rows' : \A x \in AllRows :
                            Precedes(x, rows'[i]) => \E j \in DOMAIN rows' : rows'[j] = x
                      /\ pc' = "exhausted" /\ ~dropped' =>
                            \A x \in AllRows : \E j \in DOMAIN rows' : rows'[j] = x
  BY <1>1 DEF RowsInOrder, AllHaveRows, Precedes
<1>3. /\ \A i \in DOMAIN rows : rows[i] \in AllRows
      /\ \A i, j \in DOMAIN rows : i < j => Precedes(rows[i], rows[j])
      /\ \A i \in DOMAIN rows : \A x \in AllRows :
            Precedes(x, rows[i]) => \E j \in DOMAIN rows : rows[j] = x
      /\ pc = "exhausted" /\ ~dropped => \A x \in AllRows : \E j \in DOMAIN rows : rows[j] = x
  BY <1>2 DEF RowsInOrder, AllHaveRows
<1>4. CASE UNCHANGED rows /\ (pc' = "exhausted" => pc = "exhausted" /\ dropped' = dropped)
  BY <1>3, <1>4
<1>5. CASE UNCHANGED vars
  <2>1. UNCHANGED <<pc, rows, dropped>>
    BY <1>5 DEF vars, iter
  <2> QED
    BY <2>1, <1>4
<1>6. CASE Construct
  <2>1. UNCHANGED rows
    BY <1>6 DEF Construct, OpenFails, ReaderInit, ReadSchema, ReadBatchHeader, ReadBody, ShareFails,
       SetArrayView, DecodeArray, FinishBuilding, Unshare, AppendArray, ViewFails, iter
  <2>2. pc' # "exhausted"
    BY <1>6 DEF Construct, OpenFails, ReaderInit, ReadSchema, ReadBatchHeader, ReadBody, ShareFails,
       SetArrayView, SetViews, DecodeArray, FinishBuilding, Unshare, AppendArray, ViewFails,
       Fail, ReleaseStream
  <2> QED
    BY <2>1, <2>2, <1>4
<1>7. CASE StartRows \/ Convert \/ ImportTable \/ Delete \/ ReleaseTable
  <2>1. UNCHANGED rows /\ pc' # "exhausted"
    BY <1>7 DEF StartRows, Convert, ConvertColumn, ImportTable, Delete, ReleaseTable, iter
  <2> QED
    BY <2>1, <1>4
<1>8. ASSUME NextRow
      PROVE  /\ pc = "rows" /\ UNCHANGED <<arrays, dropped>> /\ Len(arrays) \in Nat
             /\ batchIndex \in -1..(Len(arrays) - 1) /\ rowIndex \in Int /\ rowCount \in Nat
             /\ batchIndex >= 0 => rowCount = arrays[batchIndex + 1].rows
             /\ \A c, q \in Nat : (\E i \in DOMAIN rows : rows[i] = <<c, q>>) <=> Passed(c, q)
  <2>1. pc = "rows" /\ UNCHANGED <<arrays, dropped>> /\ Len(arrays) \in Nat
    BY <1>8 DEF NextRow, Base, Typed
  <2>2. /\ batchIndex \in -1..(Len(arrays) - 1) /\ rowIndex \in Int /\ rowCount \in Nat
        /\ batchIndex >= 0 => rowCount = arrays[batchIndex + 1].rows
    BY <2>1 DEF Returned
  <2>3. \A c, q \in Nat : (\E i \in DOMAIN rows : rows[i] = <<c, q>>) <=> Passed(c, q)
    BY <2>1, <1>2 DEF Returned, Passed
  <2> QED
    BY <2>1, <2>2, <2>3
<1>9. CASE NextRow /\ pc' = "exhausted"
  <2>1. /\ rowIndex + 1 >= rowCount /\ batchIndex + 1 >= Len(arrays) /\ UNCHANGED rows
    BY <1>9 DEF NextRow, CreateRow
  <2>2. ASSUME ~dropped', NEW x \in AllRows PROVE \E j \in DOMAIN rows : rows[j] = x
    <3>1. /\ LastRead > 0 /\ cursor = EndAt(LastRead) /\ Len(arrays) = LastRead - 1
          /\ cursor = stream.size \/ (LastRead < Len(Msgs) /\ Msgs[LastRead + 1].header = 0)
      BY <1>8, <1>9, <2>2 DEF AtEnd
    <3>2. Cardinality(Batches) = Len(arrays)
      BY <3>1, NoneLeft, BatchesCounted
    <3>3. PICK c, q \in Nat : x = <<c, q>> /\ c < Len(arrays)
      BY <2>2, <3>2, RowPairs
    <3>4. q < arrays[c + 1].rows
      BY <2>2, <3>3, RowsHere
    <3>5. batchIndex = Len(arrays) - 1 /\ c <= batchIndex
      BY <1>8, <1>9, <2>1, <3>3
    <3>6. c = batchIndex => q <= rowIndex
      BY <1>8, <1>9, <2>1, <3>3, <3>4, <3>5
    <3>7. Passed(c, q)
      BY <1>8, <1>9, <3>3, <3>4, <3>5, <3>6 DEF Passed
    <3> QED
      BY <3>3, <3>7, <1>8, <1>9
  <2> QED
    BY <1>3, <2>1, <2>2
<1>10. CASE NextRow /\ pc' = "failed"
  <2>1. UNCHANGED rows
    BY <1>10, NextRowIs
  <2> QED
    BY <1>10, <2>1, <1>4
<1>11. CASE NextRow /\ pc' = "rows"
  <2>1. PICK b, r \in Nat :
           /\ rows' = Append(rows, <<b, r>>) /\ b < Len(arrays) /\ r < arrays[b + 1].rows
           /\ \A c, q \in Nat : Passed(c, q) => c < b \/ (c = b /\ q < r)
           /\ \A c, q \in Nat :
                 Passed(c, q) \/ (c = b /\ q = r) <=>
                    c \in 0..b /\ q < arrays[c + 1].rows /\ (c < b \/ q <= r)
    BY <1>2, <1>11, RowAdded
  <2>2. PICK s, t : s = rows /\ t = rows'
    OBVIOUS
  <2>3. s \in Seq(Nat \X Nat) /\ t = Append(s, <<b, r>>)
    BY <2>1, <2>2 DEF Returned
  <2>4. /\ Len(s) \in Nat /\ DOMAIN s = 1..Len(s)
        /\ DOMAIN t = 1..(Len(s) + 1) /\ t[Len(s) + 1] = <<b, r>>
        /\ \A i \in DOMAIN s : i \in DOMAIN t /\ t[i] = s[i]
        /\ \A i \in DOMAIN t : i \in DOMAIN s \/ i = Len(s) + 1
    BY <2>3, Appended
  <2> DEFINE n == Len(s) + 1
  <2>5. n \in DOMAIN t /\ n \notin DOMAIN s
    BY <2>4
  <2>6. <<b, r>> \in AllRows
    BY <2>1, RowsHere
  <2>7. ASSUME NEW i \in DOMAIN s PROVE Precedes(s[i], <<b, r>>)
    <3>1. PICK c, q \in Nat : s[i] = <<c, q>>
      <4>1. s[i] \in Nat \X Nat
        BY <2>3
      <4> QED
        BY <4>1
    <3>2. Passed(c, q)
      BY <3>1, <2>2, <1>8, <1>11
    <3>3. c < b \/ (c = b /\ q < r)
      BY <3>2, <2>1
    <3> QED
      BY <3>1, <3>3 DEF Precedes
  <2>8. ASSUME NEW x \in AllRows, Precedes(x, <<b, r>>) PROVE \E j \in DOMAIN s : s[j] = x
    <3>1. PICK c, q \in Nat : x = <<c, q>>
      BY <2>8, RowPairs
    <3>2. c < b \/ (c = b /\ q < r)
      BY <3>1, <2>8 DEF Precedes
    <3>3. c < Len(arrays)
      BY <3>2, <2>1, <1>8, <1>11
    <3>4. q < arrays[c + 1].rows
      BY <3>1, <3>3, <2>8, RowsHere
    <3>5. c \in 0..b /\ (c < b \/ q <= r) /\ ~(c = b /\ q = r)
      BY <3>2
    <3>6. Passed(c, q)
      BY <3>4, <3>5, <2>1
    <3> QED
      BY <3>1, <3>6, <2>2, <1>8, <1>11
  <2>9. \A i, j \in DOMAIN t : i < j => i \in DOMAIN s
    BY <2>4
  <2> HIDE DEF n
  <2>10. \A i \in DOMAIN t : t[i] \in AllRows
    BY <1>3, <2>2, <2>4, <2>6 DEF n
  <2>11. \A i, j \in DOMAIN t : i < j => Precedes(t[i], t[j])
    <3> SUFFICES ASSUME NEW i \in DOMAIN t, NEW j \in DOMAIN t, i < j PROVE Precedes(t[i], t[j])
      OBVIOUS
    <3>1. i \in DOMAIN s /\ t[i] = s[i]
      BY <2>4, <2>9
    <3>2. CASE j \in DOMAIN s
      BY <3>1, <3>2, <2>2, <2>4, <1>3
    <3>3. CASE j = n
      BY <3>1, <3>3, <2>4, <2>7 DEF n
    <3> QED
      BY <3>2, <3>3, <2>4 DEF n
  <2>12. \A i \in DOMAIN t : \A x \in AllRows :
            Precedes(x, t[i]) => \E j \in DOMAIN t : t[j] = x
    <3> SUFFICES ASSUME NEW i \in DOMAIN t, NEW x \in AllRows, Precedes(x, t[i])
                 PROVE  \E j \in DOMAIN s : s[j] = x
      BY <2>4
    <3>1. CASE i \in DOMAIN s
      BY <3>1, <2>2, <2>4, <1>3
    <3>2. CASE i = n
      BY <3>2, <2>4, <2>8 DEF n
    <3> QED
      BY <3>1, <3>2, <2>4 DEF n
  <2>13. pc' # "exhausted"
    BY <1>11
  <2> QED
    BY <2>2, <2>10, <2>11, <2>12, <2>13
<1>12. CASE NextRow
  BY <1>9, <1>10, <1>11, <1>12, NextRowIs
<1> QED
  BY <1>5, <1>6, <1>7, <1>12 DEF Next

(* Rows come in the order of the stream, none twice and none left out, and  *)
(* a table has the same columns replaced in every batch: both ways of       *)
(* reading give the stream once, in order and in one form.                  *)
THEOREM ArrowReadInOrder == Spec => []ReadInOrder
<1> DEFINE Inv == Base /\ AtEnd /\ Replaced /\ Returned /\ RowsInOrder
<1>1. Init => Inv
  <2> SUFFICES ASSUME Init PROVE Inv
    OBVIOUS
  <2>1. pc = "open" /\ rows = <<>> /\ converted = {} /\ batchIndex = -1 /\ rowIndex = -1
        /\ rowCount = 0
    BY DEF Init
  <2>2. rows \in Seq(Nat \X Nat) /\ DOMAIN rows = {}
    BY <2>1
  <2> QED
    BY <2>1, <2>2, BaseInit DEF AtEnd, Replaced, Returned, RowsInOrder
<1>2. Inv /\ [Next]_vars => Inv'
  BY BaseStep, AtEndStep, ReplacedStep, ReturnedStep, RowsStep
<1>3. Inv => ReadInOrder
  BY ReplacedMeans DEF ReadInOrder
<1> QED
  BY <1>1, <1>2, <1>3, PTL DEF Spec
=============================================================================
