------------------------------ MODULE BlockFile ------------------------------
(***************************************************************************)
(* A block file (block/format.rs, file.rs, name.rs): how the span's chunks   *)
(* are laid out, how one series is read back, and what the directory's file  *)
(* names say.  A file is a sequence of cells: one for the header, each index *)
(* entry, each summary entry and the trailer, and one per unit of a chunk.   *)
(* A CRC is the very content it covers: collisions are left out.             *)
(***************************************************************************)
EXTENDS Integers, Sequences, FiniteSets, SequencesExt

CONSTANTS BlockSeries,        \* the series' ids, naturals
          MaxSeq,             \* bound: chunks of a series, 1..MaxSeq
          ChunkLengths,       \* lengths of a chunk, in cells
          IndexBlockEntries,  \* INDEX_BLOCK_ENTRIES: 1,024
          MaxFileChunks,      \* bound: chunks of a file
          MaxFaults           \* bound: faults of one file

VARIABLES written,   \* the chunks handed to the encoder, in order
          file,      \* the file's cells; <<>> before it is encoded
          faults     \* how many faults it has met

fileVars == <<written, file, faults>>

ThisSpan == [tier |-> "raw", span |-> 1]
OtherSpan == [tier |-> "raw", span |-> 2]    \* a file that may lie under this one's name
HeaderLen1 == 1    \* HEADER_LEN, TRAILER_LEN, and each entry: a cell
Junk == [kind |-> "junk"]

-----------------------------------------------------------------------------
(* Encoding.                                                               *)

\* A chunk's bytes: told apart by whose they are.
BytesOf(c, of) == [i \in 1..c.length |-> [kind |-> "data", of |-> of, id |-> c.id, seq |-> c.seq, at |-> i]]

\* chunk_crc: over whose the chunk is, then its bytes.
ChunkCrc(of, id, seq, bytes) == <<of, id, seq, bytes>>

\* put_index_entry.
IndexCell(of, c, bytes, at) ==
    [kind |-> "index", id |-> c.id, seq |-> c.seq, offset |-> at, length |-> c.length,
     crc |-> ChunkCrc(of, c.id, c.seq, bytes)]

IndexBlocks(entries) == (Len(entries) + IndexBlockEntries - 1) \div IndexBlockEntries
BlockOf(cells, i) ==
    SubSeq(cells, (i - 1) * IndexBlockEntries + 1,
           IF i * IndexBlockEntries < Len(cells) THEN i * IndexBlockEntries ELSE Len(cells))

\* summary_bytes: per index block its first series, place and CRC.
SummaryCells(index, indexOffset) ==
    [i \in 1..IndexBlocks(index) |->
        [kind |-> "summary", first |-> BlockOf(index, i)[1].id,
         offset |-> indexOffset + (i - 1) * IndexBlockEntries, crc |-> BlockOf(index, i)]]

ChunkBefore(a, b) == a.id < b.id \/ (a.id = b.id /\ a.seq < b.seq)
Ordered(chunks) == \A i \in 1..(Len(chunks) - 1) : ChunkBefore(chunks[i], chunks[i + 1])

\* encode_block.
EncodeBlock(of, chunks) ==
    LET data == [i \in 1..Len(chunks) |-> BytesOf(chunks[i], of)]
        at(i) == HeaderLen1 + Len(FlattenSeq(SubSeq(data, 1, i - 1)))
        indexOffset == at(Len(chunks) + 1)
        header == [kind |-> "header", of |-> of, count |-> Len(chunks), indexOffset |-> indexOffset]
        index == [i \in 1..Len(chunks) |-> IndexCell(of, chunks[i], data[i], at(i))]
        summary == SummaryCells(index, indexOffset)
    IN  <<header>> \o FlattenSeq(data) \o index \o summary
            \o <<[kind |-> "trailer", offset |-> indexOffset + Len(index), crc |-> <<header, summary>>]>>

-----------------------------------------------------------------------------
(* Reading.  Offsets count from 0.                                         *)

BlockDamaged == [ok |-> FALSE]
ReadAt(cells, offset, len) == SubSeq(cells, offset + 1, offset + len)

\* laid_out: the header's and the summary's fields agree.
LaidOut(header, entries, summaryOffset) ==
    /\ header.indexOffset >= HeaderLen1
    /\ header.indexOffset + header.count = summaryOffset
    /\ Len(entries) = (header.count + IndexBlockEntries - 1) \div IndexBlockEntries
    /\ \A i \in 1..Len(entries) :
           entries[i].offset = header.indexOffset + (i - 1) * IndexBlockEntries
    /\ \A i \in 1..(Len(entries) - 1) : entries[i].first <= entries[i + 1].first

\* read_summary, read_header and BlockSummary::parse, for a file named for `of`.
ReadSummary(of, cells) ==
    LET header == cells[1]
        trailer == cells[Len(cells)]
        entries == ReadAt(cells, trailer.offset, Len(cells) - 1 - trailer.offset)
    IN  IF \/ Len(cells) < 2
           \/ trailer.kind # "trailer" \/ header.kind # "header"   \* BadMagic
           \/ header.of # of                                       \* WrongSpan
           \/ trailer.offset > Len(cells) - 1
           \/ trailer.crc # <<header, entries>>                    \* Checksum
           \/ ~LaidOut(header, entries, trailer.offset)
        THEN BlockDamaged
        ELSE [ok |-> TRUE, of |-> of, count |-> header.count, indexOffset |-> header.indexOffset,
              entries |-> entries]

\* mutant: the successor must start after the series.
IndexBlocksForStrict(summary, id) ==
    {i \in 1..Len(summary.entries) :
        /\ summary.entries[i].first <= id
        /\ i < Len(summary.entries) => summary.entries[i + 1].first > id}

\* index_blocks_for: a series may go over several index blocks.
IndexBlocksFor(summary, id) ==
    {i \in 1..Len(summary.entries) :
        /\ summary.entries[i].first <= id
        /\ i < Len(summary.entries) => summary.entries[i + 1].first >= id}

\* An index block's cells: bytes that are no entry read as one of no series.
IndexCells(summary, i, cells) ==
    LET count == IF summary.count - (i - 1) * IndexBlockEntries < IndexBlockEntries
                 THEN summary.count - (i - 1) * IndexBlockEntries ELSE IndexBlockEntries
        read == ReadAt(cells, summary.entries[i].offset, count)
    IN  [j \in 1..Len(read) |-> IF read[j].kind = "index" THEN read[j]
                                ELSE [kind |-> "index", id |-> 0, seq |-> j, offset |-> HeaderLen1,
                                      length |-> 0, crc |-> <<>>]]

\* mutant: an index block is checked for its order alone.
IndexBlockUnchecked(summary, i, cells) == Ordered(IndexCells(summary, i, cells))

\* decode_index_block: against its CRC, its order and the data region.
IndexBlockOk(summary, i, cells) ==
    LET index == IndexCells(summary, i, cells)
    IN  /\ index = summary.entries[i].crc
        /\ Ordered(index) /\ index[1].id = summary.entries[i].first
        /\ \A j \in 1..Len(index) :
               index[j].offset >= HeaderLen1 /\ index[j].offset + index[j].length <= summary.indexOffset

\* check_chunk.
ChunkOk(of, entry, bytes) == ChunkCrc(of, entry.id, entry.seq, bytes) = entry.crc

\* read_series: every index block that may hold the series, every chunk of it there.
ReadSeries(of, cells, id) ==
    LET summary == ReadSummary(of, cells)
        blocks == IndexBlocksFor(summary, id)
        found == SelectSeq(FlattenSeq([i \in 1..Len(summary.entries) |->
                     IF i \in blocks THEN IndexCells(summary, i, cells) ELSE <<>>]), LAMBDA e : e.id = id)
        bytes(e) == ReadAt(cells, e.offset, e.length)
    IN  IF ~summary.ok THEN BlockDamaged
        ELSE IF \/ \E i \in blocks : ~IndexBlockOk(summary, i, cells)
                \/ \E i \in 1..Len(found) : ~ChunkOk(of, found[i], bytes(found[i]))
        THEN BlockDamaged
        ELSE [ok |-> TRUE, chunks |-> [i \in 1..Len(found) |->
                 [seq |-> found[i].seq, bytes |-> bytes(found[i])]]]

-----------------------------------------------------------------------------
FileInit == written = <<>> /\ file = <<>> /\ faults = 0

\* The handoff gives the chunks in (SeriesId, seq) order; out of order they are refused.
HandChunk(c) ==
    /\ file = <<>> /\ Len(written) < MaxFileChunks
    /\ Ordered(Append(written, c)) /\ written' = Append(written, c)
    /\ UNCHANGED <<file, faults>>

EncodeFile ==
    /\ file = <<>> /\ written # <<>> /\ file' = EncodeBlock(ThisSpan, written)
    /\ UNCHANGED <<written, faults>>

\* External: what a disk may do to a file.  A cell becomes another of this file or of another
\* span's file with the same layout, or junk; the file is cut short, or is that other file.
FaultCells == Range(file) \cup Range(EncodeBlock(OtherSpan, written)) \cup {Junk}
CellFault(i, cell) ==
    /\ faults < MaxFaults /\ file # <<>> /\ file' = [file EXCEPT ![i] = cell]
    /\ faults' = faults + 1 /\ UNCHANGED written
CutFault(len) ==
    /\ faults < MaxFaults /\ file # <<>> /\ file' = SubSeq(file, 1, len)
    /\ faults' = faults + 1 /\ UNCHANGED written

OtherFile ==
    /\ faults < MaxFaults /\ file # <<>> /\ file' = EncodeBlock(OtherSpan, written)
    /\ faults' = faults + 1 /\ UNCHANGED written

FileNext ==
    \/ \E id \in BlockSeries, seq \in 1..MaxSeq, n \in ChunkLengths :
           HandChunk([id |-> id, seq |-> seq, length |-> n])
    \/ EncodeFile
    \/ \E i \in 1..Len(file) : \E cell \in FaultCells : CellFault(i, cell)
    \/ \E len \in 1..Len(file) : CutFault(len)
    \/ OtherFile

-----------------------------------------------------------------------------
ChunksOf(id) ==
    LET mine == SelectSeq(written, LAMBDA c : c.id = id)
    IN  [i \in 1..Len(mine) |-> [seq |-> mine[i].seq, bytes |-> BytesOf(mine[i], ThisSpan)]]

\* Every chunk of a series is found, however its entries fall over the index blocks.
SeriesReadWhole ==
    file # <<>> /\ faults = 0 =>
        \A id \in BlockSeries : ReadSeries(ThisSpan, file, id) = [ok |-> TRUE, chunks |-> ChunksOf(id)]

\* Of a damaged file a series is read exactly, or not at all: never another series' chunk,
\* never one of another span, and never with a chunk missing.
DamageNeverMisleads ==
    \A id \in BlockSeries :
        LET read == ReadSeries(ThisSpan, file, id)
        IN  file # <<>> /\ read.ok => read.chunks = ChunksOf(id)
=============================================================================
