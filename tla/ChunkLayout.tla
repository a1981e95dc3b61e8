---------------------------- MODULE ChunkLayout -----------------------------
(***************************************************************************)
(* The bytes of a model, from the ingest's packer to the SDK's entries:    *)
(* ingest/dianome_ingest (chunker.py, layout.py, manifest.py) and          *)
(* packages/sdk/src (manifest.ts, assemble.ts).                            *)
(*                                                                         *)
(* A chunk is its content: a non-empty sequence of at most ChunkSize bytes *)
(* is at once the chunk, its name and what the store keeps under it, since *)
(* equal contents have equal SHA-256 names. A tensor is a record           *)
(* [group, rank, linear, rows, cols, fill]: its layer group, its place in  *)
(* the role order, whether it is a two-dimensional linear weight, its      *)
(* shape (rows = 1 for a vector) and what its bytes are (fill 0: zeros).   *)
(***************************************************************************)
EXTENDS Integers, Sequences, SequencesExt, FiniteSetsExt

CONSTANTS
  ChunkSize,         \* bytes of a full chunk (8 MiB in the code)
  Align,             \* alignment of entries and parts (256 in the code)
  Q4Group,           \* columns that share a q4 scale (128 in the code)
  BlockRows          \* rows of one block of a streamed tensor

ASSUME LayoutAssumption ==
  /\ {ChunkSize, Align, Q4Group, BlockRows} \subseteq Nat \ {0}
  /\ ChunkSize % Align = 0

Zeros(n) == [i \in 1..n |-> 0]

-----------------------------------------------------------------------------
(* chunker.py: one stream, cut.                                            *)

\* A StreamChunker: the unfinished chunk, the list so far, the names the
\* packing has seen, and what was handed to the sink, in order.
Chunker(seen) == [buf |-> <<>>, out |-> <<>>, seen |-> seen, sunk |-> <<>>]

\* Seeded fault: a chunk already seen in this stream or an earlier one is
\* given to the sink again.
EmitTwice(c, data) ==
  [c EXCEPT !.buf = <<>>, !.out = Append(@, data),
            !.seen = @ \cup {data}, !.sunk = Append(@, data)]

\* _emit: to the sink if new, to the stream's list always.
Emit(c, data) ==
  [c EXCEPT !.buf = <<>>, !.out = Append(@, data), !.seen = @ \cup {data},
            !.sunk = IF data \in c.seen THEN @ ELSE Append(@, data)]

\* write: every chunk the piece fills is emitted, the rest waits in the buffer.
Write(c, piece) ==
  LET whole == c.buf \o piece
      count == Len(whole) \div ChunkSize
      full  == [k \in 1..count |->
                  SubSeq(whole, (k - 1) * ChunkSize + 1, k * ChunkSize)]
  IN  [FoldLeft(Emit, c, full) EXCEPT
         !.buf = SubSeq(whole, count * ChunkSize + 1, Len(whole))]

\* finish: the last chunk may be shorter; an empty stream has none.
Finish(c) == IF c.buf = <<>> THEN c ELSE Emit(c, c.buf)

\* The stream position of a writer.
Position(c) == Len(FlattenSeq(c.out)) + Len(c.buf)

PadTo(c, target) ==
  IF target > Position(c) THEN Write(c, Zeros(target - Position(c))) ELSE c

-----------------------------------------------------------------------------
(* layout.py: where an entry and its parts lie.                            *)

AlignUp(n) == ((n + Align - 1) \div Align) * Align

\* storage_kind: only two-dimensional linear weights are quantized; embed and
\* lm_head are q8 in both quantized variants.
StorageKind(t, variant) ==
  IF variant = "fp16" \/ ~t.linear THEN "fp16"
  ELSE IF t.group \in {"embed", "lm_head"} THEN "q8" ELSE variant

\* The sizes of an entry's parts, in order.
PartSizes(kind, t) ==
  CASE kind = "fp16" -> <<2 * t.rows * t.cols>>
    [] kind = "q8"   -> <<t.rows * t.cols, 2 * t.rows>>
    [] kind = "q4"   -> LET groups == t.rows * (t.cols \div Q4Group)
                        IN  <<(t.rows * t.cols) \div 2, 2 * groups, groups>>

\* Seeded fault: the parts follow each other with no padding between them.
PlanEntryUnaligned(kind, t) ==
  FoldLeft(LAMBDA plan, size :
             [parts  |-> Append(plan.parts, [offset |-> plan.length, length |-> size]),
              length |-> plan.length + size],
           [parts |-> <<>>, length |-> 0], PartSizes(kind, t))

\* plan_entry: each part aligned, no padding after the last. An fp16 entry
\* has no parts; here it has one, all of it.
PlanEntry(kind, t) ==
  FoldLeft(LAMBDA plan, size :
             [parts  |-> Append(plan.parts, [offset |-> AlignUp(plan.length),
                                             length |-> size]),
              length |-> AlignUp(plan.length) + size],
           [parts |-> <<>>, length |-> 0], PartSizes(kind, t))

\* Seeded fault: the bytes of a segment are counted from the stream's start.
SegmentsForShifted(chunks, start, length) ==
  LET Cut(acc, chunk) ==
        LET from == Max({start, acc.pos})
            upto == Min({start + length, acc.pos + Len(chunk)})
        IN  [pos  |-> acc.pos + Len(chunk),
             segs |-> IF upto > from
                      THEN Append(acc.segs, [chunk |-> chunk, offset |-> from % ChunkSize,
                                             length |-> Len(chunk)])
                      ELSE acc.segs]
  IN  FoldLeft(Cut, [pos |-> 0, segs |-> <<>>], chunks).segs

\* segments_for: [start, start + length) of a stream, mapped to its chunks.
SegmentsFor(chunks, start, length) ==
  LET Cut(acc, chunk) ==
        LET from == Max({start, acc.pos})
            upto == Min({start + length, acc.pos + Len(chunk)})
        IN  [pos  |-> acc.pos + Len(chunk),
             segs |-> IF upto > from
                      THEN Append(acc.segs, [chunk |-> chunk, offset |-> from - acc.pos,
                                             length |-> upto - from])
                      ELSE acc.segs]
  IN  FoldLeft(Cut, [pos |-> 0, segs |-> <<>>], chunks).segs

-----------------------------------------------------------------------------
(* layout.py: packing.                                                     *)

\* What a part of a tensor's encoding holds, row after row: a byte tells its
\* tensor, its part and its place, unless the tensor is all zeros.
PartBytes(kind, t, part) ==
  [i \in 1..PartSizes(kind, t)[part] |->
     IF t.fill = 0 THEN 0 ELSE 1000 * t.fill + 100 * part + i]

\* The first part is written block by block (iter_fp16_blocks); a vector is
\* one block.
RowBlocks(kind, t) ==
  LET bytes == PartBytes(kind, t, 1)
      row   == Len(bytes) \div t.rows
      count == (t.rows + BlockRows - 1) \div BlockRows
  IN  [b \in 1..count |->
         SubSeq(bytes, (b - 1) * BlockRows * row + 1, Min({b * BlockRows, t.rows}) * row)]

\* The body of pack_model's loop over a group's tensors, for one variant.
PackTensor(w, t, variant) ==
  LET kind    == StorageKind(t, variant)
      plan    == PlanEntry(kind, t)
      aligned == PadTo(w.c, AlignUp(Position(w.c)))
      start   == Position(aligned)
      weights == FoldLeft(Write, aligned, RowBlocks(kind, t))
      whole   == FoldLeft(LAMBDA c, part :
                            Write(PadTo(c, start + plan.parts[part].offset),
                                  PartBytes(kind, t, part)),
                          weights, [part \in 1..(Len(plan.parts) - 1) |-> part + 1])
  IN  [c |-> whole,
       entries |-> Append(w.entries, [tensor |-> t, kind |-> kind, start |-> start,
                                      plan |-> plan])]

\* Every variant of a group is written in lock-step, but each stream has its
\* own chunker and only `seen` is shared: the model writes them one by one.
PackGroup(tensors, variant, seen) ==
  LET w == FoldLeft(LAMBDA acc, t : PackTensor(acc, t, variant),
                    [c |-> Chunker(seen), entries |-> <<>>], tensors)
  IN  [c |-> Finish(w.c), entries |-> w.entries]

\* assign_groups: the group's tensors in role order; the stray lm_head of a
\* tied model is ignored.
GroupTensors(tensors, g, tied) ==
  IF g = "lm_head" /\ tied THEN <<>>
  ELSE SetToSortSeq({t \in tensors : t.group = g},
                    LAMBDA a, b : a.rank < b.rank)

\* What pack_model holds between two groups: the names seen, everything the
\* sink was given, and the groups of each variant so far.
PackStart(variants) ==
  [seen |-> {}, sunk |-> <<>>, packed |-> [v \in ToSet(variants) |-> <<>>]]

\* The loop's body for group g. A tied head takes embed's entry.
PackNext(acc, g, tensors, tied, variants) ==
  LET TiedHead(v) == [name |-> g, tied |-> TRUE, chunks |-> <<>>,
                      entries |-> <<acc.packed[v][1].entries[1]>>]
      Pack(a, v) ==
        LET group == PackGroup(GroupTensors(tensors, g, tied), v, a.seen)
        IN  [seen   |-> group.c.seen,
             sunk   |-> a.sunk \o group.c.sunk,
             packed |-> [a.packed EXCEPT ![v] =
               Append(@, [name |-> g, tied |-> FALSE, chunks |-> group.c.out,
                          entries |-> group.entries])]]
  IN  IF g = "lm_head" /\ tied
      THEN [acc EXCEPT !.packed = [v \in DOMAIN @ |-> Append(@[v], TiedHead(v))]]
      ELSE FoldLeft(Pack, acc, variants)

-----------------------------------------------------------------------------
(* manifest.py, to_manifest: what is published.                            *)

BytesOf(chunks) == Len(FlattenSeq(chunks))

\* The stream an entry's segments point into: embed's for a tied group.
RefChunks(packedGroups, group) ==
  IF group.tied THEN packedGroups[1].chunks ELSE group.chunks

ToManifest(packedGroups) ==
  LET GroupOf(group) ==
        [name |-> group.name, tied |-> group.tied, chunks |-> group.chunks,
         bytes |-> BytesOf(group.chunks),
         entries |-> [e \in DOMAIN group.entries |->
           [tensor   |-> group.entries[e].tensor,
            kind     |-> group.entries[e].kind,
            parts    |-> group.entries[e].plan.parts,
            segments |-> SegmentsFor(RefChunks(packedGroups, group),
                                     group.entries[e].start,
                                     group.entries[e].plan.length)]]]
      groups == [g \in DOMAIN packedGroups |-> GroupOf(packedGroups[g])]
  IN  [groups |-> groups,
       table  |-> UNION {ToSet(group.chunks) : group \in ToSet(groups)},
       bytes  |-> FoldLeft(LAMBDA sum, group : sum + group.bytes, 0, groups)]

\* pack_file_stream: a file of raw bytes, read chunk by chunk.
PackFile(bytes) ==
  LET c == Finish(Write(Chunker({}), bytes))
  IN  [bytes |-> BytesOf(c.out), chunks |-> c.out,
       segments |-> [i \in DOMAIN c.out |->
                       [chunk |-> c.out[i], offset |-> 0, length |-> Len(c.out[i])]]]

-----------------------------------------------------------------------------
(* manifest.ts, validateManifest: the part that relates numbers.           *)

SegmentFits(seg, table) ==
  /\ seg.chunk \in table
  /\ seg.offset \in 0..(ChunkSize - 1) /\ seg.length \in 1..ChunkSize
  /\ seg.offset + seg.length <= Len(seg.chunk)

SegmentBytes(segments) == FoldLeft(LAMBDA sum, s : sum + s.length, 0, segments)

PartsValid(e) ==
  e.kind # "fp16" =>
    \A part \in ToSet(e.parts) : part.offset % Align = 0 /\ part.length >= 1

GroupValid(group, table) ==
  /\ group.entries # <<>>
  /\ ToSet(group.chunks) \subseteq table
  /\ group.bytes = BytesOf(group.chunks)
  /\ group.tied => group.chunks = <<>>
  /\ \A e \in ToSet(group.entries) :
       /\ e.segments # <<>>
       /\ \A s \in ToSet(e.segments) : SegmentFits(s, table)
       /\ PartsValid(e)

ValidateModel(m) ==
  /\ \A chunk \in m.table : Len(chunk) \in 1..ChunkSize
  /\ m.groups # <<>>
  /\ \A group \in ToSet(m.groups) : GroupValid(group, m.table)
  /\ m.bytes = FoldLeft(LAMBDA sum, group : sum + group.bytes, 0, m.groups)

\* checkFile: no lower bound on the number of segments.
ValidateFile(f) ==
  /\ f.bytes = BytesOf(f.chunks)
  /\ \A s \in ToSet(f.segments) : SegmentFits(s, ToSet(f.chunks))
  /\ f.bytes = SegmentBytes(f.segments)

-----------------------------------------------------------------------------
(* manifest.py, _verify_variants: `dianome verify` of a published variant. *)

\* The place of the entry in its group's stream, as the verifier finds it:
\* the first occurrence of the first segment's chunk.
FirstPlace(refChunks, e) ==
  (Min({i \in DOMAIN refChunks : refChunks[i] = e.segments[1].chunk}) - 1) * ChunkSize
    + e.segments[1].offset

\* The loop over an entry's segments.
Contiguous(refChunks, e) ==
  LET pos(i) == FirstPlace(refChunks, e) + SegmentBytes(SubSeq(e.segments, 1, i - 1))
  IN  \A i \in DOMAIN e.segments :
        /\ (pos(i) \div ChunkSize) + 1 \in DOMAIN refChunks
        /\ refChunks[(pos(i) \div ChunkSize) + 1] = e.segments[i].chunk
        /\ e.segments[i].offset = pos(i) % ChunkSize
        /\ e.segments[i].offset + e.segments[i].length <= Len(e.segments[i].chunk)

EntryVerified(refChunks, e, variant) ==
  LET plan == PlanEntry(StorageKind(e.tensor, variant), e.tensor)
  IN  /\ e.kind = StorageKind(e.tensor, variant)
      /\ SegmentBytes(e.segments) = plan.length
      /\ e.parts = plan.parts
      /\ e.segments[1].chunk \in ToSet(refChunks)
      /\ FirstPlace(refChunks, e) % Align = 0
      /\ Contiguous(refChunks, e)

VerifyVariant(m, groupOrder, tied, variant) ==
  /\ [g \in DOMAIN m.groups |-> m.groups[g].name] = groupOrder
  /\ m.bytes = FoldLeft(LAMBDA sum, group : sum + group.bytes, 0, m.groups)
  /\ \A g \in DOMAIN m.groups :
       LET group == m.groups[g]
           ref   == IF group.tied THEN m.groups[1].chunks ELSE group.chunks
       IN  /\ group.bytes = BytesOf(group.chunks)
           /\ group.name = "lm_head" => group.tied = tied
           /\ group.tied => group.chunks = <<>> /\ group.bytes = 0
           /\ \A e \in ToSet(group.entries) : EntryVerified(ref, e, variant)

-----------------------------------------------------------------------------
(* assemble.ts: entries from the chunks a load holds.                      *)

Failed == [ok |-> FALSE]

\* assembleBytes, over the chunks the loader holds. No segment at all, a
\* chunk not held, or a segment past its chunk is an error.
AssembleBytes(segments, held) ==
  IF /\ segments # <<>>
     /\ \A s \in ToSet(segments) : s.chunk \in held /\ s.offset + s.length <= Len(s.chunk)
  THEN [ok     |-> TRUE,
        bytes  |-> FlattenSeq([i \in DOMAIN segments |->
                     SubSeq(segments[i].chunk, segments[i].offset + 1,
                            segments[i].offset + segments[i].length)]),
        viewAt |-> IF Len(segments) = 1 THEN segments[1].offset ELSE 0]
  ELSE Failed

\* assembleEntry: the parts are views of the entry.
AssembleEntry(e, held) ==
  LET a == AssembleBytes(e.segments, held)
  IN  IF a.ok /\ \A p \in ToSet(e.parts) : p.offset + p.length <= Len(a.bytes)
      THEN [ok     |-> TRUE,
            viewAt |-> a.viewAt,
            parts  |-> [p \in DOMAIN e.parts |->
                          SubSeq(a.bytes, e.parts[p].offset + 1,
                                 e.parts[p].offset + e.parts[p].length)]]
      ELSE Failed
=============================================================================
