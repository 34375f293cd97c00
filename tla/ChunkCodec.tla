----------------------------- MODULE ChunkCodec -----------------------------
(***************************************************************************)
(* The store's chunk codec (codec/bits.rs, raw.rs, rollup.rs): an open chunk *)
(* codes each item as it is pushed; its bytes are stored, decoded and        *)
(* reopened.  Bytes are runs of bits, so that a byte of a varint is a        *)
(* continuation bit and VarBits bits, in a header or in a bit stream.  Words *)
(* have WordBits bits, and the steps of the two codes are scaled with them.  *)
(***************************************************************************)
EXTENDS Integers, Sequences, SequencesExt

CONSTANTS WordBits,      \* 64
          VarBits,       \* 7
          DodWidths,     \* <<3, 7, 12, 32>>
          ValueWidths,   \* <<6, 13, 20, 32, 64>>; the last is WordBits
          MaxRawItems, MaxRawBytes,     \* MAX_RAW_POINTS, MAX_RAW_CHUNK_BYTES
          MaxBuckets,    \* RollupTier::max_buckets
          ItemTimes, ItemValues,        \* what points are pushed
          ItemBuckets                   \* what buckets are pushed

VARIABLES chunk,     \* the open chunk
          pushed     \* history: the items it accepted

codecVars == <<chunk, pushed>>

ByteBits == VarBits + 1
Words == 2 ^ WordBits

-----------------------------------------------------------------------------
(* Bits and varints.                                                       *)

\* BitWriter::push: the low bits, most significant first.
ToBits(value, width) == [i \in 1..width |-> (value \div 2 ^ (width - i)) % 2]

RECURSIVE BitsValue(_, _, _)
BitsValue(bits, pos, width) ==
    IF width = 0 THEN 0 ELSE 2 * BitsValue(bits, pos, width - 1) + bits[pos + width]

\* BitReader::read.
ReadBits(bits, pos, width) ==
    IF pos + width > Len(bits) THEN [ok |-> FALSE, value |-> 0, pos |-> pos]
    ELSE [ok |-> TRUE, value |-> BitsValue(bits, pos, width), pos |-> pos + width]

SignExtend(field, width) == IF field >= 2 ^ (width - 1) THEN field - 2 ^ width ELSE field
Unsigned(value) == value % Words
Signed(value) == SignExtend(value % Words, WordBits)

Zigzag(value) == IF value >= 0 THEN 2 * value ELSE -2 * value - 1
Unzigzag(code) == IF code % 2 = 0 THEN code \div 2 ELSE -(code \div 2) - 1

VarGroups == (WordBits + VarBits - 1) \div VarBits

\* write_varint, and write_bit_varint: groups of VarBits, low first, a bit saying more follow.
RECURSIVE WriteVarint(_)
WriteVarint(value) ==
    IF value < 2 ^ VarBits THEN <<0>> \o ToBits(value, VarBits)
    ELSE <<1>> \o ToBits(value, VarBits) \o WriteVarint(value \div 2 ^ VarBits)

VarintLenShort(value) ==  \* mutant: the top bit is not counted
    LET bits == CHOOSE n \in 1..WordBits : 2 ^ n >= value /\ (n = 1 \/ 2 ^ (n - 1) < value)
    IN  (bits + VarBits - 1) \div VarBits

\* varint_len, in bytes: from the bits of the value, at least one.
VarintLen(value) ==
    LET bits == CHOOSE n \in 1..WordBits : 2 ^ n > value /\ (n = 1 \/ 2 ^ (n - 1) <= value)
    IN  (bits + VarBits - 1) \div VarBits

\* read_varint, and read_bit_varint: one group, and the next while a bit says so.
RECURSIVE ReadGroup(_, _, _, _)
ReadGroup(bits, pos, group, acc) ==
    LET read == ReadBits(bits, pos, ByteBits)
        value == acc + (read.value % 2 ^ VarBits) * 2 ^ (VarBits * group)
    IN  IF ~read.ok \/ group = VarGroups \/ value >= Words THEN [read EXCEPT !.ok = FALSE]
        ELSE IF read.value < 2 ^ VarBits THEN [read EXCEPT !.value = value]
        ELSE ReadGroup(bits, read.pos, group + 1, value)
ReadVarint(bits, pos) == ReadGroup(bits, pos, 0, 0)

-----------------------------------------------------------------------------
(* The two step codes: zero is one bit; step k is k ones, a zero unless it *)
(* is the last step, and a field of its width.                              *)

WriteStep(widths, step, field) ==
    [i \in 1..step |-> 1] \o (IF step < Len(widths) THEN <<0>> ELSE <<>>) \o ToBits(field, widths[step])

RECURSIVE ReadOnes(_, _, _, _)
ReadOnes(bits, pos, max, ones) ==
    IF ones = max THEN [ok |-> TRUE, value |-> ones, pos |-> pos]
    ELSE LET b == ReadBits(bits, pos, 1)
         IN  IF ~b.ok THEN b
             ELSE IF b.value = 1 THEN ReadOnes(bits, b.pos, max, ones + 1)
             ELSE [ok |-> TRUE, value |-> ones, pos |-> b.pos]

\* The field of a step, with its width; a step of no ones is the value zero.
ReadStepField(widths, bits, ones) ==
    IF ~ones.ok \/ ones.value = 0 THEN [ones EXCEPT !.value = 0] @@ [width |-> 1]
    ELSE ReadBits(bits, ones.pos, widths[ones.value]) @@ [width |-> widths[ones.value]]
ReadStep(widths, bits, pos) == ReadStepField(widths, bits, ReadOnes(bits, pos, Len(widths), 0))

\* dod_step: the steps that hold a delta of deltas.
FitsDodLoose(dod, width) == dod >= -(2 ^ (width - 1)) /\ dod <= 2 ^ (width - 1)  \* mutant: inclusive
FitsDod(dod, width) == dod >= -(2 ^ (width - 1)) /\ dod < 2 ^ (width - 1)
DodSteps(dod) == {k \in 1..Len(DodWidths) : FitsDod(dod, DodWidths[k])}
DodCodes(dod) == dod = 0 \/ DodSteps(dod) # {}
LeastOf(steps) == CHOOSE k \in steps : \A j \in steps : k <= j
WriteDod(dod) ==
    IF dod = 0 THEN <<0>>
    ELSE LET k == LeastOf(DodSteps(dod)) IN WriteStep(DodWidths, k, dod % 2 ^ DodWidths[k])
SignedStep(read) == [read EXCEPT !.value = IF @ = 0 THEN 0 ELSE SignExtend(@, read.width)]
ReadDod(bits, pos) == SignedStep(ReadStep(DodWidths, bits, pos))

ValueStep(value) == LeastOf({k \in 1..Len(ValueWidths) : value < 2 ^ ValueWidths[k]})
WriteValue(value) == IF value = 0 THEN <<0>> ELSE WriteStep(ValueWidths, ValueStep(value), value)
ReadValue(bits, pos) == ReadStep(ValueWidths, bits, pos)

ReadField(field, bits, pos) ==
    CASE field = "byte" -> ReadBits(bits, pos, ByteBits)
      [] field = "varint" -> ReadVarint(bits, pos)
      [] field = "dod" -> ReadDod(bits, pos)
      [] field = "value" -> ReadValue(bits, pos)

\* Fields one after the other; one that cannot be read refuses them all.
ReadAlso(read, got) == [ok |-> read.ok /\ got.ok, pos |-> got.pos, values |-> Append(read.values, got.value)]
ReadFields(fields, bits, pos) ==
    FoldLeft(LAMBDA read, field : ReadAlso(read, ReadField(field, bits, read.pos)),
             [ok |-> TRUE, pos |-> pos, values |-> <<>>], fields)

-----------------------------------------------------------------------------
(* The chunks.  A raw chunk codes values by `encoding`; a rollup chunk     *)
(* codes an average's step and the spread about it.                         *)

NewChunk(kind) ==
    [kind |-> kind, count |-> 0, first |-> <<>>, last |-> <<>>, bits |-> <<>>,
     tsStep |-> IF kind = "rollup" THEN 1 ELSE 0, valueStep |-> 0]

MaxItemsOf(kind) == IF kind = "rollup" THEN MaxBuckets ELSE MaxRawItems
TimeOf(kind, item) == IF kind = "rollup" THEN item.index ELSE item.ts
ValueOf(kind, item) == IF kind = "rollup" THEN item.avg ELSE item.value

\* write_spread.
WriteSpread(bucket) ==
    WriteValue(Unsigned(bucket.avg - bucket.min)) \o WriteValue(Unsigned(bucket.max - bucket.avg))
        \o WriteVarint(bucket.count)
Spread(kind, item) == IF kind = "rollup" THEN WriteSpread(item) ELSE <<>>

HeaderLen(count, kind, first) ==
    1 + VarintLen(count) + VarintLen(TimeOf(kind, first)) + VarintLen(Zigzag(ValueOf(kind, first)))
InBytes(bits) == (Len(bits) + ByteBits - 1) \div ByteBits

Refuses(c, item) ==
    LET step == TimeOf(c.kind, item) - TimeOf(c.kind, c.last)
        dod == step - c.tsStep
    IN  \/ c.kind = "rollup" /\ ~(item.min <= item.avg /\ item.avg <= item.max /\ item.count > 0)
        \/ c.count > 0 /\ (step <= 0 \/ c.count >= MaxItemsOf(c.kind) \/ ~DodCodes(dod))

Code(c, item) ==
    LET step == Signed(ValueOf(c.kind, item) - ValueOf(c.kind, c.last))
    IN  Zigzag(IF c.kind = "dod" THEN Signed(step - c.valueStep) ELSE step)

\* What an accepted item adds to the bit stream.
Added(c, item) ==
    (IF c.count = 0 THEN <<>>
     ELSE WriteDod(TimeOf(c.kind, item) - TimeOf(c.kind, c.last) - c.tsStep) \o WriteValue(Code(c, item)))
        \o Spread(c.kind, item)

\* A raw chunk takes a point only while it encodes within MAX_RAW_CHUNK_BYTES.
TooLong(c, item) ==
    /\ c.kind # "rollup" /\ c.count > 0
    /\ HeaderLen(c.count + 1, c.kind, c.first) + InBytes(c.bits \o Added(c, item)) > MaxRawBytes

\* RawChunk::push and RollupChunk::push of an accepted item.
Pushed(c, item) ==
    [c EXCEPT !.count = @ + 1, !.last = item, !.bits = @ \o Added(c, item),
              !.first = IF c.count = 0 THEN item ELSE @,
              !.tsStep = IF c.count = 0 THEN @ ELSE TimeOf(c.kind, item) - TimeOf(c.kind, c.last),
              !.valueStep = IF c.count = 0 \/ c.kind = "rollup" THEN @
                            ELSE Signed(item.value - c.last.value)]
Accepts(c, item) == ~Refuses(c, item) /\ ~TooLong(c, item)

FormatByte(kind) == ToBits(IF kind = "rollup" THEN 2 ELSE 1, ByteBits)
Padded(bits) == bits \o [i \in 1..(InBytes(bits) * ByteBits - Len(bits)) |-> 0]

Encode(c) ==
    FormatByte(c.kind) \o WriteVarint(c.count) \o WriteVarint(TimeOf(c.kind, c.first))
        \o WriteVarint(Zigzag(ValueOf(c.kind, c.first))) \o Padded(c.bits)

EncodedLen(c) == HeaderLen(c.count, c.kind, c.first) + InBytes(c.bits)

-----------------------------------------------------------------------------
(* Decoding.                                                               *)

Bad == [ok |-> FALSE, items |-> <<>>]

\* read_spread: the bucket about an average; a field past the word is refused.
SpreadAbout(index, avg, read) ==
    LET min == avg - read.values[1]
        max == avg + read.values[2]
        count == read.values[3]
    IN  [ok |-> read.ok /\ count > 0 /\ min >= -(Words \div 2) /\ max < Words \div 2, pos |-> read.pos,
         item |-> [index |-> index, avg |-> avg, min |-> min, max |-> max, count |-> count]]

ItemAt(kind, bits, pos, ts, value) ==
    IF kind = "rollup"
    THEN SpreadAbout(ts, value, ReadFields(<<"value", "value", "varint">>, bits, pos))
    ELSE [ok |-> TRUE, pos |-> pos, item |-> [ts |-> ts, value |-> value]]

ValueStepAfter(kind, step, code) == IF kind = "dod" THEN Signed(step + code) ELSE code

\* An item read is the last one, and the steps to it are the steps before the next.
Took(d, ts, value, tsStep, valueStep, read) ==
    [ok |-> tsStep > 0 /\ ts < Words /\ read.ok, pos |-> read.pos, items |-> Append(d.items, read.item),
     ts |-> ts, value |-> value, tsStep |-> tsStep, valueStep |-> valueStep]

\* The next item, by its steps: its time is after the last one, and inside a word.
StepBy(kind, bits, d, pos, tsStep, valueStep) ==
    LET ts == d.ts + tsStep
        value == Signed(d.value + valueStep)
    IN  Took(d, ts, value, tsStep, valueStep, ItemAt(kind, bits, pos, ts, value))
NextItem(kind, bits, d, read) ==
    IF ~read.ok THEN [d EXCEPT !.ok = FALSE]
    ELSE StepBy(kind, bits, d, read.pos, d.tsStep + read.values[1],
                ValueStepAfter(kind, d.valueStep, Unzigzag(read.values[2])))
DecodeNext(kind, bits, d) ==
    IF d.ok THEN NextItem(kind, bits, d, ReadFields(<<"dod", "value">>, bits, d.pos)) ELSE d

\* The first item, from the header.
DecodeFirst(kind, bits, ts, value, read) ==
    [ok |-> read.ok, pos |-> read.pos, items |-> <<read.item>>,
     ts |-> ts, value |-> value, tsStep |-> NewChunk(kind).tsStep, valueStep |-> 0]

DecodeItems(kind, bits, count, ts, value) ==
    FoldLeft(LAMBDA d, i : DecodeNext(kind, bits, d),
             DecodeFirst(kind, bits, ts, value, ItemAt(kind, bits, 0, ts, value)),
             [i \in 1..(count - 1) |-> i])

\* mutant: bytes after the items are let through.
AtEndLax(stream, pos) == TRUE

\* BitReader::bytes_read, against the bytes there are.
AtEnd(stream, pos) == InBytes(SubSeq(stream, 1, pos)) * ByteBits = Len(stream)

\* decode_raw and decode_rollup: the header, the items, and no byte after them.
Whole(bits, d) == IF d.ok /\ AtEnd(bits, d.pos) THEN [ok |-> TRUE, items |-> d.items] ELSE Bad
DecodeBody(kind, bytes, header) ==
    LET count == header.values[2]
        bits == SubSeq(bytes, header.pos + 1, Len(bytes))
    IN  IF ~header.ok \/ header.values[1] # (IF kind = "rollup" THEN 2 ELSE 1)
           \/ count = 0 \/ count > MaxItemsOf(kind)
        THEN Bad
        ELSE Whole(bits, DecodeItems(kind, bits, count, header.values[3], Unzigzag(header.values[4])))
Decode(kind, bytes) ==
    DecodeBody(kind, bytes, ReadFields(<<"byte", "varint", "varint", "varint">>, bytes, 0))

\* RawChunk::reopen and RollupChunk::reopen.
Reopen(kind, bytes) == FoldLeft(Pushed, NewChunk(kind), Decode(kind, bytes).items)

-----------------------------------------------------------------------------
CodecInit == pushed = <<>> /\ \E kind \in {"delta", "dod", "rollup"} : chunk = NewChunk(kind)

Items(kind) == IF kind = "rollup" THEN ItemBuckets ELSE [ts : ItemTimes, value : ItemValues]

PushItem(item) ==
    /\ Accepts(chunk, item) /\ chunk' = Pushed(chunk, item) /\ pushed' = Append(pushed, item)

CodecNext == \E item \in Items(chunk.kind) : PushItem(item)

-----------------------------------------------------------------------------
\* Whatever was pushed, the bytes decode to exactly it and reopen to the chunk as it was, steps
\* included, so that a tail's chunk goes on where it stopped, at the ends of the word too.
ReopensAsItWas ==
    pushed # <<>> => /\ Decode(chunk.kind, Encode(chunk)).items = pushed
                     /\ Reopen(chunk.kind, Encode(chunk)) = chunk

\* A raw chunk never encodes past its bound, which is decided before a point is written, from
\* lengths that are the real ones.
EncodesWithinBound ==
    pushed # <<>> =>
        /\ Len(Encode(chunk)) = EncodedLen(chunk) * ByteBits
        /\ chunk.kind # "rollup" /\ chunk.count > 1 => EncodedLen(chunk) <= MaxRawBytes

\* Bytes cut short anywhere, and bytes with one more after them, decode to no chunk.
CutsRefused ==
    pushed # <<>> =>
        LET bytes == Encode(chunk)
        IN  /\ \A n \in 0..(EncodedLen(chunk) - 1) : ~Decode(chunk.kind, SubSeq(bytes, 1, n * ByteBits)).ok
            /\ ~Decode(chunk.kind, bytes \o ToBits(0, ByteBits)).ok
=============================================================================
