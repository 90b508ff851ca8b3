------------------------------ MODULE ShardReads ------------------------------
(***************************************************************************)
(* How a rank reads its part of a matrix from a file of weights            *)
(* (src/crates/ferrl/src/sharded_safetensors.rs).  The part is a band of   *)
(* rows or of columns, and it is found by comparing shapes.  The bytes are *)
(* copied as ranges; in a file whose digests have been bound, chunk by     *)
(* chunk, each chunk checked as a whole before any of it is used.          *)
(*                                                                         *)
(* A byte is named by its position in the file.  A matrix has its full     *)
(* shape <<rows, columns>>, the bytes of an element, and its start.        *)
(***************************************************************************)
EXTENDS Integers, Sequences

CONSTANT ChunkBytes      \* AUTH_CHUNK_BYTES

Smaller(a, b) == IF a < b THEN a ELSE b
Greater(a, b) == IF a < b THEN b ELSE a

(***************************************************************************)
(* Which bytes.                                                            *)
(***************************************************************************)
CutsRows(m, want, world) == want[1] * world = m.full[1] /\ want[2] = m.full[2]
CutsColumns(m, want, world) == want[1] = m.full[1] /\ want[2] * world = m.full[2]

\* The requested shape is the whole matrix, or tells along which axis it is cut.
Readable(m, want, world) ==
  \/ want = m.full
  \/ world > 1 /\ CutsRows(m, want, world) # CutsColumns(m, want, world)

ByteRange(from, into, len) == [from |-> from, into |-> into, len |-> len]

RowBand(m, want, rank) ==
  <<ByteRange(m.start + (rank * want[1]) * (m.full[2] * m.element), 0, want[1] * (m.full[2] * m.element))>>

ColumnBand(m, want, rank) ==
  LET width == want[2] * m.element
  IN  [row \in 1 .. want[1] |->
         ByteRange(m.start + (row - 1) * (m.full[2] * m.element) + rank * width, (row - 1) * width, width)]

Ranges(m, want, world, rank) ==
  IF want = m.full THEN RowBand(m, want, 0)
  ELSE IF CutsRows(m, want, world) THEN RowBand(m, want, rank)
  ELSE ColumnBand(m, want, rank)

\* read_authenticated_mappings refuses ranges that are not in order.
Ordered(ranges) ==
  \A i \in 1 .. Len(ranges) - 1 : ranges[i].from + ranges[i].len <= ranges[i + 1].from

(***************************************************************************)
(* The sweep over the chunks.  Its state is the first range that is not    *)
(* done, the chunk to be read next, the chunks read, and what has been     *)
(* copied: pairs of a place in the output and a byte of the file.          *)
(***************************************************************************)
Chunks(fileLen) == (fileLen + ChunkBytes - 1) \div ChunkBytes

EndOf(range) == range.from + range.len
ChunkStart(chunk) == chunk * ChunkBytes
ChunkEnd(chunk, fileLen) == Smaller(ChunkStart(chunk) + ChunkBytes, fileLen)

\* The first range, from the next one on, that this chunk does not finish.
Unfinished(ranges, s, end) ==
  CHOOSE i \in s.next .. Len(ranges) + 1 :
    /\ i > Len(ranges) \/ ranges[i].from >= end \/ EndOf(ranges[i]) > end
    /\ \A j \in s.next .. i - 1 : ranges[j].from < end /\ EndOf(ranges[j]) <= end

Overlap(range, chunk, end) ==
  LET lo == Greater(range.from, ChunkStart(chunk))
  IN  {<<range.into + (b - range.from), b>> : b \in lo .. Smaller(EndOf(range), end) - 1}

ReadChunk(ranges, fileLen, s) ==
  LET end == ChunkEnd(s.chunk, fileLen)
      i == Unfinished(ranges, s, end)
      goesOn == i <= Len(ranges) /\ ranges[i].from < end
      touched == s.next .. (IF goesOn THEN i ELSE i - 1)
  IN  IF s.chunk >= Chunks(fileLen) THEN [s EXCEPT !.missing = TRUE]
      ELSE [next |-> i,
            chunk |-> IF goesOn \/ i > Len(ranges) THEN s.chunk + 1 ELSE ranges[i].from \div ChunkBytes,
            read |-> Append(s.read, s.chunk),
            copied |-> s.copied \cup UNION {Overlap(ranges[j], s.chunk, end) : j \in touched},
            missing |-> FALSE]

Sweep(ranges, fileLen) ==
  LET bound == Chunks(fileLen) + 1
      after[n \in 0 .. bound] ==
        IF n = 0 THEN [next |-> 1, chunk |-> ranges[1].from \div ChunkBytes, read |-> <<>>,
                       copied |-> {}, missing |-> FALSE]
        ELSE IF after[n - 1].next > Len(ranges) \/ after[n - 1].missing THEN after[n - 1]
        ELSE ReadChunk(ranges, fileLen, after[n - 1])
  IN  after[bound]
=============================================================================
