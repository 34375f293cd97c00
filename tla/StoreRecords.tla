----------------------------- MODULE StoreRecords -----------------------------
(***************************************************************************)
(* What the store writes down besides chunks: series keys and records        *)
(* (series.rs, name.rs, bytes.rs), block rows (block/record.rs), block file  *)
(* names (block/name.rs, file.rs) and scaled values (value.rs).  A byte is a *)
(* number; widths are scaled: a length, a version, a code and a generation   *)
(* take one byte, a span start too.                                          *)
(***************************************************************************)
EXTENDS Integers, Sequences, FiniteSets, SequencesExt

CONSTANTS SystemKeys, MetricNames,  \* byte sequences to name series with
          MaxSystemKey, MaxMetricName,           \* MAX_SYSTEM_KEY_BYTES, MAX_METRIC_NAME_BYTES
          Gens,                     \* generations, each a byte
          Grid,                     \* [tier -> span length], in the order of RecTiers
          RecTiers,                 \* Tier::ALL, a sequence
          BlockNames,               \* [tier, span, rewrite] the writer may write
          Strays,                   \* names an operator may leave in a tier's directory
          MaxSpanNumber, MaxRewrite,             \* u64::MAX, u32::MAX
          KindTable,                \* [kind -> [over, by, max]]: value.rs's table
          Samples                   \* natural values, in thousandths

VARIABLES records,   \* the series records written
          dir,       \* the directory: names by tier
          linked,    \* history: the blocks linked and not unlinked
          sampled    \* the value last scaled

recVars == <<records, dir, linked, sampled>>

Control == 0                        \* the control character
Invalid == [ok |-> FALSE]

-----------------------------------------------------------------------------
(* Names and keys.                                                         *)

\* MetricName::try_from and SystemKey::try_from (check_length).
ValidMetric(name) == Len(name) \in 1..MaxMetricName /\ Control \notin Range(name)
ValidSystem(key) == Len(key) \in 1..MaxSystemKey

PrefixUnsized(system, generation) == system \o <<generation>>  \* mutant: no length before it

\* SeriesKey::prefix and to_bytes: the system's length, the system, the generation, the metric.
KeyPrefix(system, generation) == <<Len(system)>> \o system \o <<generation>>
KeyBytes(key) == KeyPrefix(key.system, key.generation) \o key.metric

\* SeriesKey::from_bytes.
KeyFrom(bytes) ==
    LET n == bytes[1]
        system == SubSeq(bytes, 2, n + 1)
        metric == SubSeq(bytes, n + 3, Len(bytes))
    IN  IF bytes = <<>> \/ Len(bytes) < n + 2 \/ ~ValidSystem(system) \/ ~ValidMetric(metric)
        THEN Invalid
        ELSE [ok |-> TRUE, key |-> [system |-> system, generation |-> bytes[n + 2], metric |-> metric]]

-----------------------------------------------------------------------------
(* Records.  A span slot is one byte 0, or a byte 1 and the start.          *)

NoSpan == -1
SlotBytes(span) == IF span = NoSpan THEN <<0>> ELSE <<1, span>>

\* SeriesRecord::to_bytes.
RecordBytes(r) ==
    <<1, r.code>> \o FlattenSeq([i \in 1..3 |-> SlotBytes(r.spans[i])])
        \o <<Len(KeyBytes(r.key))>> \o KeyBytes(r.key)

\* read_span: an optional start on its tier's grid.
SlotAt(bytes, i) ==
    IF bytes = <<>> \/ bytes[1] \notin {0, 1} THEN Invalid
    ELSE IF bytes[1] = 0 THEN [ok |-> TRUE, span |-> NoSpan, rest |-> Tail(bytes)]
    ELSE IF Len(bytes) < 2 \/ bytes[2] % Grid[RecTiers[i]] # 0 THEN Invalid
    ELSE [ok |-> TRUE, span |-> bytes[2], rest |-> SubSeq(bytes, 3, Len(bytes))]

KeyLenTrusted(bytes) == bytes # <<>>  \* mutant: what follows the key is not looked at

\* The key's length is what is left.
KeyLenOk(bytes) == bytes # <<>> /\ Len(bytes) - 1 = bytes[1]

\* SeriesRecord::from_bytes.
RecordFrom(bytes) ==
    LET s1 == SlotAt(SubSeq(bytes, 3, Len(bytes)), 1)
        s2 == SlotAt(s1.rest, 2)
        s3 == SlotAt(s2.rest, 3)
        key == KeyFrom(Tail(s3.rest))
    IN  IF Len(bytes) < 2 \/ bytes[1] # 1 \/ bytes[2] \notin 1..7 THEN Invalid
        ELSE IF ~s1.ok THEN Invalid ELSE IF ~s2.ok THEN Invalid ELSE IF ~s3.ok THEN Invalid
        ELSE IF ~KeyLenOk(s3.rest) THEN Invalid ELSE IF ~key.ok THEN Invalid
        ELSE [ok |-> TRUE, record |-> [code |-> bytes[2], spans |-> <<s1.span, s2.span, s3.span>>,
                                       key |-> key.key]]

\* A block's row: what its file holds, each field of fixed width.
BlockRow(b) == [format |-> 1, rewrite |-> b.rewrite, length |-> 5, chunks |-> 1, tombstoned |-> 0]

\* BlockRecord::to_bytes.
BlockRowBytes(row) == <<1, row.format, row.rewrite, row.length, row.chunks, row.tombstoned>>

\* BlockRecord::from_bytes: a version it knows, every field, and nothing after them.
BlockRowFrom(bytes) ==
    IF Len(bytes) # 6 \/ bytes[1] # 1 THEN Invalid
    ELSE [ok |-> TRUE, row |-> [format |-> bytes[2], rewrite |-> bytes[3], length |-> bytes[4],
                                chunks |-> bytes[5], tombstoned |-> bytes[6]]]

-----------------------------------------------------------------------------
(* Block file names: digits, ".r" and digits, ".blk", ".tmp".               *)

Digit == [d \in 0..9 |-> <<"0", "1", "2", "3", "4", "5", "6", "7", "8", "9">>[d + 1]]
Spelled(n) == IF n < 10 THEN <<Digit[n]>> ELSE <<Digit[n \div 10], Digit[n % 10]>>  \* n < 100
ValueOfDigits(digits) == FoldLeft(LAMBDA acc, c : 10 * acc + (CHOOSE d \in 0..9 : Digit[d] = c), 0, digits)

\* BlockName::file_name and temporary_name.
FileName(b) ==
    Spelled(b.span) \o (IF b.rewrite = 0 THEN <<>> ELSE <<".r">> \o Spelled(b.rewrite)) \o <<".blk">>
TemporaryName(b) == Append(FileName(b), ".tmp")

CanonicalLax(digits, max) ==  \* mutant: a leading zero is read over
    digits # <<>> /\ Range(digits) \subseteq Range(Digit) /\ ValueOfDigits(digits) <= max

\* canonical: the one spelling of a number, within its width.
Canonical(digits, max) ==
    /\ digits # <<>> /\ Range(digits) \subseteq Range(Digit)
    /\ digits = <<"0">> \/ digits[1] # "0"
    /\ ValueOfDigits(digits) <= max

\* parse_stem.
ParseStem(tier, stem) ==
    LET at == {i \in 1..Len(stem) : stem[i] = ".r"}
        cut == IF at = {} THEN Len(stem) + 1 ELSE CHOOSE i \in at : \A j \in at : i <= j
        span == SubSeq(stem, 1, cut - 1)
        rewrite == SubSeq(stem, cut + 1, Len(stem))
    IN  IF \/ ~Canonical(span, MaxSpanNumber) \/ ValueOfDigits(span) % Grid[tier] # 0
           \/ at # {} /\ (~Canonical(rewrite, MaxRewrite) \/ ValueOfDigits(rewrite) = 0)
        THEN Invalid
        ELSE [ok |-> TRUE, block |-> [tier |-> tier, span |-> ValueOfDigits(span),
                                      rewrite |-> IF at = {} THEN 0 ELSE ValueOfDigits(rewrite)]]

\* BlockName::classify.
Classify(tier, name) ==
    LET n == Len(name)
        temporary == n > 1 /\ name[n] = ".tmp" /\ name[n - 1] = ".blk"
        stem == ParseStem(tier, SubSeq(name, 1, IF temporary THEN n - 2 ELSE n - 1))
    IN  IF n = 0 \/ ~stem.ok \/ ~(temporary \/ name[n] = ".blk") THEN [kind |-> "foreign"]
        ELSE IF temporary THEN [kind |-> "temporary"] ELSE [kind |-> "block", block |-> stem.block]

\* BlockDir::scan.
ScannedBlocks ==
    {Classify(e[1], e[2]).block : e \in {x \in dir : Classify(x[1], x[2]).kind = "block"}}

-----------------------------------------------------------------------------
(* Values.                                                                  *)

Half(n) == n \div 2

\* to_stored: times or over the kind's factor, rounded.
ToStored(kind, natural) ==
    LET k == KindTable[kind]
        unit == IF k.over THEN 1000 * k.by ELSE 1000
    IN  IF k.over THEN (natural + Half(unit)) \div unit ELSE (natural * k.by + Half(unit)) \div unit

ScalesUnbounded(kind, natural) == natural >= 0  \* mutant: the upper bound is not checked

\* scale_value's domain, and check_scaled's.
Scales(kind, natural) == natural >= 0 /\ natural <= KindTable[kind].max
ScaledOk(kind, stored) == stored >= 0 /\ stored <= ToStored(kind, KindTable[kind].max)

\* ValueKind::natural, in thousandths times the factor.
Natural(kind, stored) ==
    LET k == KindTable[kind] IN IF k.over THEN stored * k.by * 1000 ELSE (stored * 1000) \div k.by

-----------------------------------------------------------------------------
NoSample == [kind |-> "none"]
RecInit == records = {} /\ dir = {} /\ linked = {} /\ sampled = NoSample

\* A series is recorded under its key.
PutSeries(system, generation, metric, code, spans) ==
    /\ Cardinality(records) < 2 /\ ValidSystem(system) /\ ValidMetric(metric)
    /\ records' = records \cup {[key |-> [system |-> system, generation |-> generation, metric |-> metric],
                                 code |-> code, spans |-> spans]}
    /\ UNCHANGED <<dir, linked, sampled>>

\* BlockDir::write up to its link: the temporary exists; the writer may stop here.
WriteTemporary(b) ==
    /\ <<b.tier, TemporaryName(b)>> \notin dir
    /\ dir' = dir \cup {<<b.tier, TemporaryName(b)>>} /\ UNCHANGED <<records, linked, sampled>>

\* The hard link, refused where the name exists, and the temporary removed.
LinkBlock(b) ==
    /\ <<b.tier, TemporaryName(b)>> \in dir
    /\ dir' = (dir \ {<<b.tier, TemporaryName(b)>>}) \cup {<<b.tier, FileName(b)>>}
    /\ linked' = IF <<b.tier, FileName(b)>> \in dir THEN linked ELSE linked \cup {b}
    /\ UNCHANGED <<records, sampled>>

UnlinkBlock(b) ==
    /\ b \in linked /\ dir' = dir \ {<<b.tier, FileName(b)>>} /\ linked' = linked \ {b}
    /\ UNCHANGED <<records, sampled>>

\* BlockDir::remove_temporaries, at an open.
RemoveTemporaries ==
    /\ dir' = {e \in dir : Classify(e[1], e[2]).kind # "temporary"}
    /\ dir' # dir /\ UNCHANGED <<records, linked, sampled>>

\* External: an operator copies a file in.
PutStray(tier, name) ==
    /\ \A t \in Range(RecTiers), n \in Strays : <<t, n>> \notin dir    \* bound: one
    /\ dir' = dir \cup {<<tier, name>>} /\ UNCHANGED <<records, linked, sampled>>

\* scale_value.
ScaleValue(kind, natural) ==
    /\ Scales(kind, natural)
    /\ sampled' = [kind |-> kind, natural |-> natural, stored |-> ToStored(kind, natural)]
    /\ UNCHANGED <<records, dir, linked>>

Slots == {<<NoSpan, NoSpan, NoSpan>>, <<0, Grid[RecTiers[2]], NoSpan>>}

\* Bound: the three parts share nothing, and are exercised one at a time.
RecNext ==
    \/ /\ dir = {} /\ sampled = NoSample
       /\ \E s \in SystemKeys, g \in Gens, n \in MetricNames, c \in {1, 7}, sp \in Slots :
              PutSeries(s, g, n, c, sp)
    \/ /\ records = {} /\ sampled = NoSample
       /\ \/ \E b \in BlockNames : WriteTemporary(b) \/ LinkBlock(b) \/ UnlinkBlock(b)
          \/ RemoveTemporaries
          \/ \E t \in Range(RecTiers), n \in Strays : PutStray(t, n)
    \/ /\ records = {} /\ dir = {}
       /\ \E k \in DOMAIN KindTable, v \in Samples : ScaleValue(k, v)

-----------------------------------------------------------------------------
\* A generation's keys are exactly those its prefix starts, whatever bytes the system keys hold:
\* a range over the prefix takes no other system's series.
PrefixesExact ==
    \A r, q \in records :
        IsPrefix(KeyPrefix(r.key.system, r.key.generation), KeyBytes(q.key))
            <=> (r.key.system = q.key.system /\ r.key.generation = q.key.generation)

\* A record and a block's row read back as they were written, so that a span's row names the file
\* that was linked; cut short or with a byte more they do not read at all.
RecordsReadBack ==
    /\ \A b \in linked :
          LET bytes == BlockRowBytes(BlockRow(b))
          IN /\ FileName([b EXCEPT !.rewrite = BlockRowFrom(bytes).row.rewrite]) = FileName(b)
             /\ BlockRowFrom(bytes).row = BlockRow(b)
             /\ \A n \in 0..(Len(bytes) - 1) : ~BlockRowFrom(SubSeq(bytes, 1, n)).ok
             /\ ~BlockRowFrom(Append(bytes, 1)).ok
    /\ \A r \in records :
          /\ RecordFrom(RecordBytes(r)) = [ok |-> TRUE, record |-> r]
          /\ \A n \in 0..(Len(RecordBytes(r)) - 1) : ~RecordFrom(SubSeq(RecordBytes(r), 1, n)).ok
          /\ ~RecordFrom(Append(RecordBytes(r), 1)).ok

\* The directory names the blocks linked and no others: a copy spelled another way, a temporary
\* a crash left, or a name off the grid is no block, so reconciliation unlinks none of them as one.
ScanExact == ScannedBlocks = linked

\* A value accepted is accepted again when its stored form is read, and comes back within half
\* of its kind's unit, at the ends of the kind's range too.
ScaledReadsBack ==
    sampled # NoSample =>
        LET k == KindTable[sampled.kind]
            error == Natural(sampled.kind, sampled.stored) - sampled.natural
            half == IF k.over THEN 500 * k.by ELSE 500 \div k.by + 1
        IN  ScaledOk(sampled.kind, sampled.stored) /\ error <= half /\ -error <= half
=============================================================================
