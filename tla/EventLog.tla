------------------------------- MODULE EventLog -------------------------------
(***************************************************************************)
(* The profile log of one thread: ProfileEventLogger and its chain of      *)
(* fixed-size blocks (src/logging/profile_event_logger.cpp).               *)
(*                                                                         *)
(* An event is its kind followed by its fields, the timestamp first.  It   *)
(* is stored as bytes: a magic number of 4 bytes and 8 bytes per field.    *)
(* The memory of a block is the sequence of the words of 4 bytes that were *)
(* written.  m_current_block is the sequence of blocks, the newest first,  *)
(* and empty when logging is disabled.                                     *)
(***************************************************************************)
EXTENDS Integers, Sequences

CONSTANT LOG_BLOCK_SIZE

\* The fields of each kind of event, timestamp included.
FieldCount ==
  [create_physical_task |-> 3, physical_dependency |-> 3,
   begin_preparation |-> 2, end_preparation |-> 2,
   begin_execution |-> 2, end_execution |-> 2,
   allocate_memory |-> 4, release_memory |-> 2, lock_memory |-> 2, unlock_memory |-> 2]

SizeOf(kind) == 4 + 8 * FieldCount[kind]

\* An event of any kind fits into an empty block.
ASSUME BlockAssumption ==
  LOG_BLOCK_SIZE \in Nat /\ \A kind \in DOMAIN FieldCount : SizeOf(kind) <= LOG_BLOCK_SIZE

\* What a thread logs is an event without its timestamp.
IsMessage(m) ==
  /\ m[1] \in DOMAIN FieldCount
  /\ m = [i \in 1 .. FieldCount[m[1]] |-> m[i]]

LogBlock == [written |-> 0, data |-> <<>>]

Enabled  == <<LogBlock>>
Disabled == <<>>

\* BinaryLogger::write: the magic number, and two words per field.
Bytes(event) ==
  [i \in 1 .. 1 + 2 * FieldCount[event[1]] |-> event[i \div 2 + 1]]

\* Mutant: a block is left only when it is full to the last byte.
FitsAnyway(block, event) == block.written < LOG_BLOCK_SIZE

Fits(block, event) == LOG_BLOCK_SIZE - block.written >= SizeOf(event[1])

Write(block, event) ==
  [written |-> block.written + SizeOf(event[1]),
   data    |-> block.data \o Bytes(event)]

WriteBinary(log, event) ==
  IF log = Disabled THEN log
  ELSE IF Fits(Head(log), event) THEN <<Write(Head(log), event)>> \o Tail(log)
  ELSE <<Write(LogBlock, event)>> \o log

WordAt(block, p) == block.data[p \div 4 + 1]

\* BinaryLogger::to_json at offset p: the magic number tells how many fields
\* follow.
EventAt(block, p) ==
  [i \in 1 .. 1 + FieldCount[WordAt(block, p)] |->
     WordAt(block, IF i = 1 THEN p ELSE p + 4 + 8 * (i - 2))]

\* The loop over a block, after n turns: at which offset, and what it has printed.
\* No event is smaller than one of two fields, which bounds the turns.
BlockToJson(block) ==
  LET turns == block.written \div SizeOf("begin_execution")
      after[n \in 0 .. turns] ==
        IF n = 0 THEN [p |-> 0, jsons |-> <<>>]
        ELSE LET last == after[n - 1]
             IN  IF last.p >= block.written THEN last
                 ELSE [p     |-> last.p + SizeOf(WordAt(block, last.p)),
                       jsons |-> Append(last.jsons, EventAt(block, last.p))]
  IN  after[turns].jsons

\* The blocks are visited from the newest and printed from the oldest.
ToJson(log) ==
  LET upto[n \in 0 .. Len(log)] ==
        IF n = 0 THEN <<>> ELSE BlockToJson(log[n]) \o upto[n - 1]
  IN upto[Len(log)]
=============================================================================
