------------------------------ MODULE MCShuffle ------------------------------
(* An instance of Shuffle for TLC.                                         *)
EXTENDS Shuffle

Record(key, value) == [key |-> key, value |-> value]

\* Keys without zero bytes, of any length; and keys of one length with zeros.
TextRecords  == {Record(<<>>, <<2>>), Record(<<1, 1>>, <<>>), Record(<<1, 1, 2>>, <<1>>)}
FixedRecords == {Record(<<0, 0, 1>>, <<>>), Record(<<0, 0, 0>>, <<3>>), Record(<<0, 0, 0>>, <<1>>)}

SomeInputs == UNION {[1 .. 4 -> R] : R \in {TextRecords, FixedRecords}}
SomeKeys   == {r.key : r \in TextRecords \cup FixedRecords}
SomeHashes == {[k \in SomeKeys |-> 0],
               [k \in SomeKeys |-> IF k \in {<<1, 1>>, <<0, 0, 0>>} THEN 1 ELSE 0]}
SomeBytes  == {7}
=============================================================================
