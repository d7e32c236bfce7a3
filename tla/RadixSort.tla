------------------------------ MODULE RadixSort ------------------------------
(***************************************************************************)
(* The sort behind a shuffle (src/tasks/shuffle/msd_radix_sort.hpp):       *)
(* records are sorted by blocks of their keys, taken as big-endian numbers *)
(* padded with zeros, and marked where a key equals the one to the left.   *)
(*                                                                         *)
(* The memory is a sequence of partitioned fragments; a fragment is a      *)
(* sequence of cells, in which a record is its length, the length of its   *)
(* key, and its bytes.  A pointer is <<fragment, cell>>, cells counted from *)
(* zero.  Reads behind the end of a fragment give any value.               *)
(*                                                                         *)
(* The state of the sort, s, holds equals_to_left, and the caches and      *)
(* pointers of the two pairs of arrays, "front" and "back".                *)
(***************************************************************************)
EXTENDS Integers, FiniteSets, SequencesExt

CONSTANTS
  CACHE_SIZE,            \* sizeof(cache_type): bytes of a key in a block
  RADIX_SORT_THRESHOLD   \* fewer records are sorted by quick_sort

\* An even size: at the end of a block what is left is back in the front arrays.
ASSUME CacheAssumption == CACHE_SIZE \in Nat \ {0} /\ CACHE_SIZE % 2 = 0

BucketSize == 256

GetCell(mem, garbage, ptr, i) ==
  IF ptr[2] + i < Len(mem[ptr[1]]) THEN mem[ptr[1]][ptr[2] + i + 1] ELSE garbage

GetKeyLength(mem, ptr) == mem[ptr[1]][ptr[2] + 2]

\* Once k is past the end of the key, key_len - k wraps around: the block is read
\* from whatever follows the key.
GetBlock(mem, garbage, ptr, k) ==
  LET key_len == GetKeyLength(mem, ptr)
      Byte(i) == IF k <= key_len /\ key_len - k < CACHE_SIZE /\ k + i >= key_len THEN 0
                 ELSE GetCell(mem, garbage, ptr, 2 + k + i)
  IN  FoldLeft(LAMBDA block, i : block * BucketSize + Byte(i - 1), 0,
               [i \in 1 .. CACHE_SIZE |-> i])

-----------------------------------------------------------------------------
(* quick_sort on the n elements from lo of the front arrays.               *)

Swap(s, i, j) ==
  LET Exchange(f) == [f EXCEPT ![i] = f[j], ![j] = f[i]]
  IN  [s EXCEPT !.cache.front = Exchange(@), !.pointers.front = Exchange(@)]

Median(a, b, c) == a + b + c - Min({a, b, c}) - Max({a, b, c})

\* The loop: l and r move towards each other and what they stop at is swapped.
RECURSIVE PartitionLoop(_, _, _, _)
PartitionLoop(s, l0, r0, pivot) ==
  LET cache == s.cache.front
      l == CHOOSE i \in l0 .. r0 + 1 :
             /\ \A k \in l0 .. i - 1 : cache[k] < pivot
             /\ ~(cache[i] < pivot)
      r == CHOOSE i \in l0 - 1 .. r0 :
             /\ \A k \in i + 1 .. r0 : cache[k] > pivot
             /\ ~(cache[i] > pivot)
  IN  IF l >= r THEN [s |-> s, l |-> l, r |-> r]
      ELSE PartitionLoop(Swap(s, l, r), l + 1, r - 1, pivot)

RECURSIVE QuickSort(_, _, _)
QuickSort(s, lo, n) ==
  LET cache == s.cache.front IN
  CASE n <= 1 -> s
    [] n = 2  -> IF cache[lo] > cache[lo + 1] THEN Swap(s, lo, lo + 1) ELSE s
    [] n > 2  ->
         LET pivot == Median(cache[lo], cache[lo + n \div 2], cache[lo + n - 1])
             split == PartitionLoop(s, lo, lo + n - 1, pivot)
             left  == QuickSort(split.s, lo, split.l - lo)
         IN  QuickSort(left, split.r + 1, lo + n - (split.r + 1))

-----------------------------------------------------------------------------
\* The records of a range by their digit at this depth, in the order in which
\* the counting sort leaves them.
Digit(block, depth) ==
  (block \div BucketSize ^ (CACHE_SIZE - 1 - (depth % CACHE_SIZE))) % BucketSize

Buckets(cache, range, depth) ==
  LET digits == SetToSortSeq({Digit(cache[i], depth) : i \in range}, <)
  IN  [b \in DOMAIN digits |->
         SetToSortSeq({i \in range : Digit(cache[i], depth) = digits[b]}, <)]

\* The maximal runs of equal blocks, as <<first, length>>.
Runs(cache, lo, n) ==
  LET range  == lo .. lo + n - 1
      starts == SetToSortSeq({i \in range : i = lo \/ cache[i] # cache[i - 1]}, <)
  IN  [k \in DOMAIN starts |->
         <<starts[k], (IF k = Len(starts) THEN lo + n ELSE starts[k + 1]) - starts[k]>>]

\* The arrays a call sorts from, and its work arrays.
Current(swapped) == IF swapped THEN "back" ELSE "front"

\* The blocks of the range at this depth are read into the current cache.
LoadBlocks(mem, garbage, s, range, depth, cur) ==
  [s EXCEPT !.cache[cur] =
     [i \in range |-> GetBlock(mem, garbage, s.pointers[cur][i], depth)] @@ @]

\* Elements order[1], order[2], ... of the current arrays are stored from lo on
\* in the other ones.
Spread(s, lo, order, cur, other) ==
  LET range == lo .. lo + Len(order) - 1
      Store(to, from) == [i \in range |-> from[order[i - lo + 1]]] @@ to
  IN  [s EXCEPT !.cache[other] = Store(@, s.cache[cur]),
                !.pointers[other] = Store(@, s.pointers[cur])]

\* Mutant: what is in the back arrays is sorted there and left there.
ToFrontNever(s, lo, n, swapped) == s

\* quick_sort works on the front arrays, where the caller looks for the result.
ToFront(s, lo, n, swapped) ==
  IF swapped THEN Spread(s, lo, [i \in 1 .. n |-> lo + i - 1], "back", "front") ELSE s

MarkEqual(s, range, lo, cur) ==
  [s EXCEPT !.equals_to_left =
     @ \cup {i \in range \ {lo} : s.cache[cur][i] = s.cache[cur][i - 1]}]

NextBlock(depth) == CACHE_SIZE * (depth \div CACHE_SIZE + 1)

RECURSIVE MsdRadixSort(_, _, _, _, _, _, _)
MsdRadixSort(mem, garbage, s, lo, n, depth, swapped) ==
  LET range    == lo .. lo + n - 1
      cur      == Current(swapped)
      at_block == depth % CACHE_SIZE = 0
      finished == at_block /\ \A i \in range : depth >= GetKeyLength(mem, s.pointers[cur][i])
      loaded   == IF at_block THEN LoadBlocks(mem, garbage, s, range, depth, cur) ELSE s
      quick    == QuickSort(ToFront(loaded, lo, n, swapped), lo, n)
      buckets  == Buckets(loaded.cache[cur], range, depth)
      Start(b) == lo + Len(FlattenSeq(SubSeq(buckets, 1, b - 1)))
  IN  IF n = 0 THEN s
      ELSE IF finished THEN MarkEqual(s, range, lo, cur)
      ELSE IF n < RADIX_SORT_THRESHOLD
      THEN FoldLeft(LAMBDA t, run : IF run[2] < 2 THEN t
                      ELSE MsdRadixSort(mem, garbage, t, run[1], run[2], NextBlock(depth), FALSE),
                    quick, Runs(quick.cache.front, lo, n))
      ELSE FoldLeft(LAMBDA t, b : MsdRadixSort(mem, garbage, t, Start(b), Len(buckets[b]),
                                               depth + 1, ~swapped),
                    Spread(loaded, lo, FlattenSeq(buckets), cur, Current(~swapped)),
                    [b \in DOMAIN buckets |-> b])
=============================================================================
