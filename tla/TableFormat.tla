----------------------------- MODULE TableFormat -----------------------------
(***************************************************************************)
(* A table (table/): how TableBuilder lays sorted keys out in blocks with  *)
(* prefix compression and restart points, an index of separators and a     *)
(* filter, and how Block::Iter and Table::InternalGet find them again.     *)
(* The value of an entry is known by its internal key and left out.  An    *)
(* offset in a block counts entries, an offset in a file counts the key    *)
(* bytes written and one byte for each entry and each restart point.       *)
(***************************************************************************)
EXTENDS Comparator

CONSTANTS block_restart_interval,
          block_size,
          kFilterBase,        \* 2048: bytes of file covered by one filter
          bits, Hash(_)       \* of a bloom filter, and the hash of a user key

-----------------------------------------------------------------------------
(* BlockBuilder.                                                           *)

NewBlock == [entries |-> <<>>, restarts |-> <<0>>, counter |-> 0, last_key |-> <<>>]

BlockAdd(b, key, value, interval) ==
  LET restart == b.counter >= interval
      shared == IF restart THEN 0 ELSE CommonPrefix(b.last_key, key)
      entry == [shared |-> shared, delta |-> SubSeq(key, shared + 1, Len(key)), value |-> value]
  IN  [entries |-> Append(b.entries, entry),
       restarts |-> IF restart THEN Append(b.restarts, Len(b.entries)) ELSE b.restarts,
       counter |-> (IF restart THEN 0 ELSE b.counter) + 1,
       last_key |-> key]

CurrentSizeEstimate(b) ==
  FoldLeft(LAMBDA sum, e : sum + Len(e.delta) + 1, Len(b.restarts), b.entries)

BlockFinish(b) == [entries |-> b.entries, restarts |-> b.restarts]

-----------------------------------------------------------------------------
(* FilterBlockBuilder and the bloom filter: one filter for every           *)
(* kFilterBase bytes of file offsets, each a set of bits.                  *)

NewFilterBlock == [keys |-> <<>>, offsets |-> <<>>, result |-> <<>>]

(* Double hashing with k = 2 probes.                                       *)
Probes(key) == LET h == Hash(key)
                   delta == h \div 2
               IN  {h % bits, (h + delta) % bits}
CreateFilter(user_keys) == UNION {Probes(k) : k \in user_keys}

(* InternalFilterPolicy hands the policy of the user the user keys.        *)
InternalCreateFilter(keys) == CreateFilter({ExtractUserKey(k) : k \in ToSet(keys)})

GenerateFilter(f) ==
  [keys |-> <<>>,
   offsets |-> Append(f.offsets, Len(f.result)),
   result |-> IF f.keys = <<>> THEN f.result ELSE Append(f.result, InternalCreateFilter(f.keys))]

\* Mutant: one filter too few before a block that begins a new range.
StartBlockLate(f, offset) ==
  LET missing == offset \div kFilterBase - Len(f.offsets) - 1
  IN  FoldLeft(LAMBDA g, i : GenerateFilter(g), f, [i \in 1 .. missing |-> i])

StartBlock(f, offset) ==
  LET missing == offset \div kFilterBase - Len(f.offsets)
  IN  FoldLeft(LAMBDA g, i : GenerateFilter(g), f, [i \in 1 .. missing |-> i])

FilterAddKey(f, key) == [f EXCEPT !.keys = Append(@, key)]

FilterFinish(f) ==
  LET g == IF f.keys = <<>> THEN f ELSE GenerateFilter(f)
  IN  [result |-> g.result, offsets |-> Append(g.offsets, Len(g.result))]

(* FilterBlockReader::KeyMayMatch: an empty filter matches nothing, an     *)
(* offset past the last filter matches everything.                         *)
KeyMayMatch(filter, offset, key) ==
  LET index == offset \div kFilterBase + 1
      start == filter.offsets[index]
      limit == filter.offsets[index + 1]
  IN  index < Len(filter.offsets) =>
        start < limit /\ Probes(ExtractUserKey(key)) \subseteq filter.result[start + 1]

-----------------------------------------------------------------------------
(* TableBuilder.                                                           *)

NewTable == [blocks |-> <<>>, offset |-> 0, data |-> NewBlock, index |-> NewBlock,
             last_key |-> <<>>, pending |-> {}, filter |-> NewFilterBlock]

(* An index entry waits until the first key of the next block is known.    *)
AddIndexEntry(t, key) ==
  [t EXCEPT !.index = BlockAdd(@, key, CHOOSE h \in t.pending : TRUE, 1), !.pending = {}]

(* WriteBlock and WriteRawBlock: the handle of the block is pending.       *)
WriteBlock(t) ==
  [t EXCEPT !.blocks = Append(@, BlockFinish(t.data)),
            !.pending = {[block |-> Len(t.blocks) + 1, offset |-> t.offset]},
            !.offset = @ + CurrentSizeEstimate(t.data),
            !.data = NewBlock]

Flush(t) ==
  LET u == WriteBlock(t)
  IN  IF t.data.entries = <<>> THEN t ELSE [u EXCEPT !.filter = StartBlock(@, u.offset)]

TableAdd(t, key) ==
  LET u == IF t.pending = {} THEN t
           ELSE AddIndexEntry(t, FindShortestSeparator(t.last_key, key))
      v == [u EXCEPT !.filter = FilterAddKey(@, key), !.last_key = key,
                     !.data = BlockAdd(@, key, <<>>, block_restart_interval)]
  IN  IF CurrentSizeEstimate(v.data) >= block_size THEN Flush(v) ELSE v

TableFinish(t) ==
  LET u == Flush(t)
      v == IF u.pending = {} THEN u ELSE AddIndexEntry(u, FindShortSuccessor(u.last_key))
  IN  [blocks |-> v.blocks, index |-> BlockFinish(v.index), filter |-> FilterFinish(v.filter),
       metaindex_offset |-> v.offset]

BuildTable(keys) == TableFinish(FoldLeft(TableAdd, NewTable, keys))

-----------------------------------------------------------------------------
(* Block::Iter.                                                            *)

NumRestarts(b) == Len(b.restarts)
DecodeEntry(b, offset) == b.entries[offset + 1]

NewBlockIter(b) == [current |-> Len(b.entries), restart_index |-> NumRestarts(b),
                    key |-> <<>>, next |-> 0]
BlockValid(b, it) == it.current < Len(b.entries)
BlockValue(b, it) == DecodeEntry(b, it.current).value
GetRestartPoint(b, index) == b.restarts[index + 1]

SeekToRestartPoint(b, it, index) ==
  [it EXCEPT !.key = <<>>, !.restart_index = index, !.next = GetRestartPoint(b, index)]

ParseNextKey(b, it) ==
  LET current == it.next
      entry == DecodeEntry(b, current)
      passed == {r \in it.restart_index + 1 .. NumRestarts(b) - 1 :
                   GetRestartPoint(b, r) < current}
  IN  IF current >= Len(b.entries)
      THEN [it EXCEPT !.current = Len(b.entries), !.restart_index = NumRestarts(b)]
      ELSE [current |-> current, next |-> current + 1,
            key |-> SubSeq(it.key, 1, entry.shared) \o entry.delta,
            restart_index |-> Max(passed \cup {it.restart_index})]

(* ParseNextKey until the entry that ends at the offset end.               *)
RECURSIVE ParseUpTo(_, _, _)
ParseUpTo(b, it, end) ==
  IF it.next >= end THEN it ELSE ParseUpTo(b, ParseNextKey(b, it), end)

BlockPrev(b, it) ==
  LET before == {r \in 0 .. it.restart_index : r < NumRestarts(b) /\ GetRestartPoint(b, r) < it.current}
  IN  IF before = {} THEN [it EXCEPT !.current = Len(b.entries), !.restart_index = NumRestarts(b)]
      ELSE ParseUpTo(b, SeekToRestartPoint(b, it, Max(before)), it.current)

(* The last restart point with a key < target, by binary search; the keys  *)
(* at restart points share nothing.                                        *)
RestartBefore(b, target) ==
  LET n == NumRestarts(b)
      Search[left \in 0 .. n, right \in -1 .. n] ==
        LET mid == (left + right + 1) \div 2
        IN  IF left >= right THEN left
            ELSE IF Before(DecodeEntry(b, GetRestartPoint(b, mid)).delta, target)
                 THEN Search[mid, right] ELSE Search[left, mid - 1]
  IN  Search[0, n - 1]

RECURSIVE ParseToTarget(_, _, _)
ParseToTarget(b, it, target) ==
  LET i == ParseNextKey(b, it)
  IN  IF ~BlockValid(b, i) \/ ~Before(i.key, target) THEN i ELSE ParseToTarget(b, i, target)

BlockSeek(b, it, target) ==
  ParseToTarget(b, SeekToRestartPoint(b, it, RestartBefore(b, target)), target)
BlockSeekToFirst(b, it) == ParseNextKey(b, SeekToRestartPoint(b, it, 0))
BlockSeekToLast(b, it) ==
  IF b.entries = <<>> THEN ParseNextKey(b, SeekToRestartPoint(b, it, 0))
  ELSE ParseUpTo(b, SeekToRestartPoint(b, it, NumRestarts(b) - 1), Len(b.entries))

-----------------------------------------------------------------------------
(* What cannot be read of a table is a set: numbers of blocks, Whole when  *)
(* the footer or the index cannot be read, Meta when the filter cannot.    *)
Whole == 0
Meta == -1

(* ReadBlock: the read, its length, the checksum or the compression may    *)
(* be wrong.                                                               *)
ReadBlock(bad, block) == block \notin bad

(* Table::Open reads the footer and the index.                             *)
Open(bad) == ReadBlock(bad, Whole)

(* ReadMeta and ReadFilter: a table whose filter cannot be read is used    *)
(* without one.                                                            *)
ReadMeta(t, bad) == IF ReadBlock(bad, Meta) THEN {t.filter} ELSE {}

(* Table::InternalGet: the entry handed to the saver, if any, and whether  *)
(* the read of its block failed.                                           *)
InternalGet(t, bad, k) ==
  LET iiter == BlockSeek(t.index, NewBlockIter(t.index), k)
      handle == BlockValue(t.index, iiter)
      block == t.blocks[handle.block]
      it == BlockSeek(block, NewBlockIter(block), k)
      Nothing(ok) == [saved |-> {}, ok |-> ok]
  IN  IF \/ ~BlockValid(t.index, iiter)
         \/ \E filter \in ReadMeta(t, bad) : ~KeyMayMatch(filter, handle.offset, k)
      THEN Nothing(TRUE)
      ELSE IF ~ReadBlock(bad, handle.block) THEN Nothing(FALSE)
      ELSE IF ~BlockValid(block, it) THEN Nothing(TRUE)
      ELSE [saved |-> {it.key}, ok |-> TRUE]

(* Table::ApproximateOffsetOf.                                             *)
ApproximateOffsetOf(t, key) ==
  LET iiter == BlockSeek(t.index, NewBlockIter(t.index), key)
  IN  IF BlockValid(t.index, iiter) THEN BlockValue(t.index, iiter).offset ELSE t.metaindex_offset

=============================================================================
