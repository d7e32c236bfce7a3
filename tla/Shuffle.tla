------------------------------- MODULE Shuffle -------------------------------
(***************************************************************************)
(* What happens to the records of an output port with keys on their way to *)
(* a scatter-gather or a broadcast port: the buffers (src/memory/          *)
(* serialized_buffer.cpp, src/tasks/shuffle/shuffle_buffer.hpp and the     *)
(* buffers of src/api), the partitioning and sorting of a shuffle, the     *)
(* value sort and the gather (src/tasks).  When these tasks run is the     *)
(* subject of Dataflow; here it is what they compute.                      *)
(*                                                                         *)
(* Data are sequences of bytes and offsets count from zero.  In a          *)
(* partitioned fragment a size takes one cell, as a byte does.             *)
(***************************************************************************)
EXTENDS RadixSort

CONSTANTS
  Inputs,         \* what is written: sequences of records [key, value]
  HashFunctions,  \* from keys to partitions: hash_byte_sequence, abstractly
  PartitionCount,
  DefaultBufferSize, DefaultRecordsPerBuffer,  \* of the Configuration
  MaxFragments,   \* bound: buffers that the processor flushes
  Garbage,        \* what reads outside of the data may give
  None

Partitions == 0 .. PartitionCount - 1

VARIABLES
  input, hash, garbage,  \* chosen once
  todo,          \* records that the processor has not yet written
  fragments,     \* the buffers it flushed
  unpartitioned, \* fragments whose ShufflePartitionCommand has not run
  partitioned,   \* m_partitioned_buffers
  barrier,       \* has the ShuffleBarrierCommand run?
  grouped,       \* by partition, the output of the ShuffleSortCommand
  sorted,        \* by partition, the output of the ValueSortCommand
  gathered       \* the output of the GatherPhysicalCommand

vars == <<input, hash, garbage, todo, fragments, unpartitioned, partitioned, barrier,
          grouped, sorted, gathered>>

-----------------------------------------------------------------------------
(* SerializedBuffer: where the parts of a buffer lie.                      *)

SizeofSize == 8
MaxAlign   == 16

AlignCeil(x, align) == align * ((x + align - 1) \div align)

\* Mutant: the data begin right behind the header.
DataAtUnaligned(header, size) == header + size

DataAt(header, size) == AlignCeil(header + size, MaxAlign)

\* The layout of allocate_value_only_buffer, allocate_key_value_buffer and
\* allocate_grouped_buffer for up to `records' records with `size' bytes, and
\* `groups' keys with `key_size' bytes.
Layout(kind, records, size, groups, key_size) ==
  LET keys_data      == DataAt(16, 16)
      keys_offsets   == keys_data + AlignCeil(key_size, SizeofSize)
      values_header  == IF kind = "grouped" THEN keys_offsets + (groups + 1) * SizeofSize ELSE 16
      values_data    == DataAt(values_header, 24)
      values_offsets == values_data + AlignCeil(size, SizeofSize)
      table          == values_offsets + (records + 1) * SizeofSize
      buffer_size    == table + SizeofSize * (CASE kind = "value_only" -> 0
                                                [] kind = "key_value"  -> records
                                                [] kind = "grouped"    -> groups + 1)
  IN  [kind |-> kind, buffer_size |-> buffer_size,
       keys_data |-> IF kind = "grouped" THEN keys_data ELSE None,
       keys_offsets |-> IF kind = "grouped" THEN keys_offsets ELSE None,
       values_data |-> values_data, values_offsets |-> values_offsets,
       table |-> IF kind = "value_only" THEN None ELSE table,
       \* the headers
       key_buffer_size |-> values_header - 16,
       value_buffer_size |-> buffer_size - values_header,
       keys_data_size |-> keys_offsets - keys_data, groups |-> groups,
       values_data_size |-> values_offsets - values_data, records |-> records]

\* What the constructor of SerializedBuffer finds in a memory, from its headers.
Parse(h) ==
  LET has_keys       == h.key_buffer_size > 0
      tail           == 16 + h.key_buffer_size + h.value_buffer_size
      keys_data      == AlignCeil(16 + 16, MaxAlign)
      keys_offsets   == keys_data + h.keys_data_size
      values_header  == IF has_keys THEN keys_offsets + SizeofSize * (h.groups + 1) ELSE 16
      values_data    == AlignCeil(values_header + 24, MaxAlign)
      values_offsets == values_data + h.values_data_size
      table          == values_offsets + SizeofSize * (h.records + 1)
  IN  [kind |-> IF table = tail THEN "value_only" ELSE IF has_keys THEN "grouped" ELSE "key_value",
       keys_data |-> IF has_keys THEN keys_data ELSE None,
       keys_offsets |-> IF has_keys THEN keys_offsets ELSE None,
       values_data |-> values_data, values_offsets |-> values_offsets,
       table |-> IF table = tail THEN None ELSE table]

-----------------------------------------------------------------------------
(* The writer and the gather.                                              *)

Bytes(r)    == r.key \o r.value
Slice(data, from, to) == SubSeq(data, from + 1, to)

\* The offsets 0 <= s1 <= s1 + s2 ... of items with these sizes.
RunningSums(base, sizes) ==
  FoldLeft(LAMBDA sums, n : Append(sums, Last(sums) + n), <<base>>, sizes)

\* OutputWriter::allocate_buffer of a port with keys.
AllocateBuffer(min_data_size, min_record_count) ==
  Layout("key_value", Max({min_record_count, DefaultRecordsPerBuffer}),
         Max({min_data_size, DefaultBufferSize}), 0, 0)

\* The processor writes records to a new buffer, behind `base' unused bytes, and
\* flushes it; it may ask for a larger buffer.  flush_buffer ignores an empty one.
WriteFragment ==
  \E n \in 1 .. Len(todo) : \E ask \in BOOLEAN :
    LET records == SubSeq(todo, 1, n)
        base    == Len(fragments) % 2
        offsets == RunningSums(base, [i \in 1 .. n |-> Len(Bytes(records[i]))])
        layout  == IF ask THEN AllocateBuffer(Last(offsets), n) ELSE AllocateBuffer(0, 0)
    IN  /\ Len(fragments) + 1 < MaxFragments \/ n = Len(todo)
        /\ n <= layout.records /\ Last(offsets) <= layout.values_data_size
        /\ fragments' = Append(fragments,
             [layout |-> layout, record_count |-> n, offsets |-> offsets,
              data |-> [i \in 1 .. base |-> 0]
                         \o FlattenSeq([i \in 1 .. n |-> Bytes(records[i])]),
              key_lengths |-> [i \in 1 .. n |-> Len(records[i].key)]])
        /\ unpartitioned' = unpartitioned \cup {Len(fragments) + 1}
        /\ todo' = SubSeq(todo, n + 1, Len(todo))
        /\ UNCHANGED <<input, hash, garbage, partitioned, barrier, grouped, sorted, gathered>>

\* Mutant: the offsets of a source are taken as they are.
AppendSerializedBufferRaw(dst, src) ==
  LET at == Last(dst.offsets) IN
  [dst EXCEPT
     !.offsets = @ \o [i \in 1 .. src.record_count |-> at + src.offsets[i + 1]],
     !.data = @ \o Slice(src.data, src.offsets[1], src.offsets[src.record_count + 1]),
     !.record_count = @ + src.record_count]

AppendSerializedBuffer(dst, src) ==
  LET at == Last(dst.offsets) IN
  [dst EXCEPT
     !.offsets = @ \o [i \in 1 .. src.record_count |-> at + src.offsets[i + 1] - src.offsets[1]],
     !.data = @ \o Slice(src.data, src.offsets[1], src.offsets[src.record_count + 1]),
     !.record_count = @ + src.record_count]

SumSeq(s) == FoldLeft(+, 0, s)

\* The gather of a broadcast port runs when its sources are done.
RunGather ==
  /\ todo = <<>> /\ gathered = None
  /\ LET count == SumSeq([f \in DOMAIN fragments |-> fragments[f].record_count])
         size  == SumSeq([f \in DOMAIN fragments |->
                     fragments[f].offsets[fragments[f].record_count + 1] - fragments[f].offsets[1]])
     IN  gathered' = FoldLeft(AppendSerializedBuffer,
                       [layout |-> Layout("value_only", count, size, 0, 0),
                        offsets |-> <<0>>, data |-> <<>>, record_count |-> 0], fragments)
  /\ UNCHANGED <<input, hash, garbage, todo, fragments, unpartitioned, partitioned, barrier,
                 grouped, sorted>>

-----------------------------------------------------------------------------
(* The shuffle: partitioning.                                              *)

HeaderCells == 2

RecordOf(f, i) == Slice(f.data, f.offsets[i], f.offsets[i + 1])
KeyOf(f, i)    == SubSeq(RecordOf(f, i), 1, f.key_lengths[i])

PartitionOf(f, i) == hash[KeyOf(f, i)]

\* The first pass counts what each partition needs.
PartitionOffsets(f) ==
  RunningSums(0, [q \in 1 .. PartitionCount |->
    SumSeq([i \in 1 .. f.record_count |->
      IF PartitionOf(f, i) = q - 1 THEN f.offsets[i + 1] - f.offsets[i] + HeaderCells ELSE 0])])

StoreCells(data, at, cells) ==
  [i \in DOMAIN data |-> IF i - at \in DOMAIN cells THEN cells[i - at] ELSE data[i]]

\* The second pass stores each record at the current offset of its partition.
StoreRecord(f, dst, i) ==
  LET p == PartitionOf(f, i) IN
  [data |-> StoreCells(dst.data, dst.cur[p + 1],
              <<f.offsets[i + 1] - f.offsets[i], f.key_lengths[i]>> \o RecordOf(f, i)),
   cur  |-> [dst.cur EXCEPT ![p + 1] = @ + Len(RecordOf(f, i)) + HeaderCells]]

PartitionFragment(k) ==
  LET f       == fragments[k]
      offsets == PartitionOffsets(f)
      size    == f.offsets[f.record_count + 1] - f.offsets[1] + HeaderCells * f.record_count
      dst     == FoldLeft(LAMBDA d, i : StoreRecord(f, d, i),
                          [data |-> [i \in 1 .. size |-> garbage], cur |-> offsets],
                          [i \in 1 .. f.record_count |-> i])
  IN  /\ unpartitioned' = unpartitioned \ {k}
      /\ partitioned' = Append(partitioned, [offsets |-> offsets, data |-> dst.data])
      /\ UNCHANGED <<input, hash, garbage, todo, fragments, barrier, grouped, sorted, gathered>>

\* All sources are done and partitioned: the sort tasks are created.
Barrier ==
  /\ todo = <<>> /\ unpartitioned = {} /\ ~barrier
  /\ barrier' = TRUE
  /\ UNCHANGED <<input, hash, garbage, todo, fragments, unpartitioned, partitioned, grouped,
                 sorted, gathered>>

-----------------------------------------------------------------------------
(* The shuffle: sorting and grouping.                                      *)

\* The records between two offsets of a partitioned fragment.
RECURSIVE Walk(_, _, _)
Walk(data, at, end) ==
  IF at = end THEN <<>> ELSE <<at>> \o Walk(data, at + data[at + 1] + HeaderCells, end)

RecordPointers(buffers, p) ==
  FlattenSeq([f \in DOMAIN buffers |->
    LET ats == Walk(buffers[f].data, buffers[f].offsets[p + 1], buffers[f].offsets[p + 2])
    IN  [i \in DOMAIN ats |-> <<f, ats[i]>>]])

\* One turn of the loop that writes the groups: a key unless it equals the one to
\* the left, then the value.
AddRecord(mem, s, dst, i) ==
  LET ptr     == s.pointers.front[i]
      cells   == mem[ptr[1]]
      key_at  == ptr[2] + HeaderCells
      key_end == key_at + cells[ptr[2] + 2]
      value   == Slice(cells, key_end, key_at + cells[ptr[2] + 1])
      opened  == [dst EXCEPT !.keys = @ \o Slice(cells, key_at, key_end),
                             !.keys_offsets = Append(@, Last(@) + key_end - key_at),
                             !.group_offsets = Append(@, Last(@))]
      group   == IF i \in s.equals_to_left THEN dst ELSE opened
  IN  [group EXCEPT !.values = @ \o value,
                    !.values_offsets = Append(@, Last(@) + Len(value)),
                    !.group_offsets[Len(group.group_offsets)] = @ + Len(value)]

SortRecords(p) ==
  LET mem      == [f \in DOMAIN partitioned |-> partitioned[f].data]
      pointers == RecordPointers(partitioned, p)
      count    == Len(pointers)
      nothing  == [i \in 1 .. count |-> 0]
      s        == MsdRadixSort(mem, garbage,
                    [equals_to_left |-> {},
                     cache |-> [front |-> nothing, back |-> nothing],
                     pointers |-> [front |-> pointers, back |-> nothing]], 1, count, 0, FALSE)
      keys     == (1 .. count) \ s.equals_to_left
      KeyLen(i) == GetKeyLength(mem, s.pointers.front[i])
      ValueLen(i) == GetCell(mem, garbage, s.pointers.front[i], 0) - KeyLen(i)
      SumOf(S, size(_)) == SumSeq([i \in 1 .. count |-> IF i \in S THEN size(i) ELSE 0])
      dst      == FoldLeft(LAMBDA d, i : AddRecord(mem, s, d, i),
                    [keys |-> <<>>, keys_offsets |-> <<0>>, values |-> <<>>,
                     values_offsets |-> <<0>>, group_offsets |-> <<0>>],
                    [i \in 1 .. count |-> i])
  IN  /\ barrier /\ grouped[p] = None
      /\ grouped' = [grouped EXCEPT ![p] = dst @@
           [layout |-> Layout("grouped", count, SumOf(1 .. count, ValueLen),
                              Cardinality(keys), SumOf(keys, KeyLen)),
            record_count |-> count]]
      /\ UNCHANGED <<input, hash, garbage, todo, fragments, unpartitioned, partitioned, barrier,
                     sorted, gathered>>

-----------------------------------------------------------------------------
(* The value sort.  The comparator sees a pointer to a value, not its      *)
(* length, and compares the bytes there.  std::sort may leave equal values *)
(* in any order; their bytes are the same, so here they keep theirs.       *)

ByteAt(data, at) == IF at < Len(data) THEN data[at + 1] ELSE garbage

\* The values that the inner loop finds for a group, from value v on.
GroupValues(b, v, g) ==
  {w \in v .. b.record_count : \A u \in v .. w : b.values_offsets[u] < b.group_offsets[g + 1]}

\* Mutant: the comparator gets its arguments the wrong way round.
BeforeSwapped(b, v, w) ==
  LET x == ByteAt(b.values, b.values_offsets[v])
      y == ByteAt(b.values, b.values_offsets[w])
  IN  y < x \/ (x = y /\ v < w)

Before(b, v, w) ==
  LET x == ByteAt(b.values, b.values_offsets[v])
      y == ByteAt(b.values, b.values_offsets[w])
  IN  x < y \/ (x = y /\ v < w)

\* One turn of the outer loop: t holds the output and the next value.
SortGroup(b, t, g) ==
  LET order == SetToSortSeq(GroupValues(b, t.v, g), LAMBDA v, w : Before(b, v, w))
      Value(v) == Slice(b.values, b.values_offsets[v], b.values_offsets[v + 1])
      parts == [i \in DOMAIN order |-> Value(order[i])]
  IN  [v |-> t.v + Len(order),
       values |-> t.values \o FlattenSeq(parts),
       offsets |-> SubSeq(t.offsets, 1, Len(t.offsets) - 1)
                     \o RunningSums(Last(t.offsets), [i \in DOMAIN parts |-> Len(parts[i])])]

\* Keys and group offsets are copied; the record count of the output stays zero.
ValueSort(p) ==
  LET b      == grouped[p]
      groups == b.layout.groups
      t      == FoldLeft(LAMBDA r, g : SortGroup(b, r, g),
                         [v |-> 1, values |-> <<>>, offsets |-> <<0>>],
                         [g \in 1 .. groups |-> g])
  IN  /\ b # None /\ sorted[p] = None
      /\ sorted' = [sorted EXCEPT ![p] =
           [b EXCEPT !.layout = Layout("grouped", b.record_count, b.layout.values_data_size,
                                       groups, b.layout.keys_data_size),
                     !.values = t.values, !.values_offsets = t.offsets, !.record_count = 0]]
      /\ UNCHANGED <<input, hash, garbage, todo, fragments, unpartitioned, partitioned, barrier,
                     grouped, gathered>>

Init ==
  /\ input \in Inputs /\ hash \in HashFunctions /\ garbage \in Garbage
  /\ todo = input
  /\ fragments = <<>> /\ unpartitioned = {} /\ partitioned = <<>> /\ barrier = FALSE
  /\ grouped = [p \in Partitions |-> None] /\ sorted = [p \in Partitions |-> None]
  /\ gathered = None

Next ==
  \/ WriteFragment \/ RunGather \/ Barrier
  \/ \E k \in unpartitioned : PartitionFragment(k)
  \/ \E p \in Partitions : SortRecords(p) \/ ValueSort(p)

Spec == Init /\ [][Next]_vars

-----------------------------------------------------------------------------
(* What a processor reads through an InputBuffer.                          *)

KeyOffsetTable(b)   == b.keys_offsets
ValueOffsetTable(b) == b.group_offsets
RecordCount(b)      == b.layout.groups
ReadKey(b, g)       == Slice(b.keys, KeyOffsetTable(b)[g], KeyOffsetTable(b)[g + 1])
ReadValues(b, g)    == Slice(b.values, ValueOffsetTable(b)[g], ValueOffsetTable(b)[g + 1])

Buffers == {fragments[f] : f \in DOMAIN fragments}
             \cup {grouped[p] : p \in Partitions} \cup {sorted[p] : p \in Partitions}
             \cup {gathered}

GroupBuffers == {b \in {grouped[p] : p \in Partitions} \cup {sorted[p] : p \in Partitions} : b # None}

\* No buffer holds more than it was allocated for: the first passes over the
\* records, which size the buffers, agree with the passes that fill them.
FilledWithin(b) ==
  /\ b.record_count <= b.layout.records
  /\ IF b \in GroupBuffers
       THEN /\ Len(b.keys) <= b.layout.keys_data_size
            /\ Len(b.values) <= b.layout.values_data_size
            /\ Len(b.keys_offsets) = b.layout.groups + 1
            /\ Len(b.group_offsets) = b.layout.groups + 1
            /\ Len(b.values_offsets) <= b.layout.records + 1
       ELSE Len(b.data) <= b.layout.values_data_size

\* A task that receives a buffer as a plain memory finds every part of it where
\* the task that allocated it put it, takes it for the same kind of buffer, and
\* no part was filled beyond what was allocated for it.
LayoutAgrees ==
  \A b \in Buffers \ {None} :
    /\ LET found == Parse(b.layout) IN \A part \in DOMAIN found : found[part] = b.layout[part]
    /\ FilledWithin(b)

\* The bytes of a gathered buffer, cut at its offsets, are the input's records,
\* each once and in the order of the fragments, whatever offset the processor's
\* own buffers began at.
GatherExact ==
  gathered # None =>
    /\ gathered.record_count = Len(input)
    /\ \A i \in 1 .. Len(input) :
         Slice(gathered.data, gathered.offsets[i], gathered.offsets[i + 1]) = Bytes(input[i])

InputKeys(p) == {k \in {input[i].key : i \in DOMAIN input} : hash[k] = p}

\* A multiset of bytes, by their numbers.
CountBytes(bytes) == [b \in {bytes[i] : i \in DOMAIN bytes} |-> Cardinality({i \in DOMAIN bytes : bytes[i] = b})]

ValuesOf(k) ==
  FlattenSeq([i \in DOMAIN input |-> IF input[i].key = k THEN input[i].value ELSE <<>>])

\* A scatter-gather port shows every key of its partition in exactly one group,
\* with the bytes of all the values written with this key and of no other:
\* through buckets, quick sort and the runs of equal blocks, in whatever order
\* the fragments were partitioned, sorted by value or not.
GroupsExact ==
  \A p \in Partitions : \A b \in {grouped[p], sorted[p]} \ {None} :
    /\ RecordCount(b) = Cardinality(InputKeys(p))
    /\ \A k \in InputKeys(p) : \E g \in 1 .. RecordCount(b) :
         ReadKey(b, g) = k /\ CountBytes(ReadValues(b, g)) = CountBytes(ValuesOf(k))

\* In the output of a value sort the values of a group are in the comparator's
\* order, also where values of length zero share their offset with another.
ValuesSorted ==
  \A b \in {sorted[p] : p \in Partitions} \ {None} :
    \A g \in 1 .. RecordCount(b) : \A i, j \in 1 .. Len(ReadValues(b, g)) :
      i < j => ReadValues(b, g)[i] <= ReadValues(b, g)[j]
=============================================================================
