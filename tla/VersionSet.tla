----------------------------- MODULE VersionSet -----------------------------
(***************************************************************************)
(* LevelDB's versions (db/version_set.cc): which tables hold the database, *)
(* how a read finds its way through them, how an edit turns one version    *)
(* into the next, and which tables a compaction takes and what it writes.  *)
(* A table's description is a FileMetaData record; the size of a file      *)
(* counts its entries.  A version is a sequence of files per level.        *)
(***************************************************************************)
EXTENDS DbFormat, Sequences, SequencesExt, FiniteSetsExt

CONSTANTS kNumLevels,                       \* 7 in db/dbformat.h
          kL0_CompactionTrigger,            \* 4
          kMaxMemCompactLevel,              \* 2
          kTargetFileSize,                  \* size limit of a table
          kMaxGrandParentOverlapBytes,      \* 10 tables
          kExpandedCompactionByteSizeLimit, \* 25 tables
          kMaxBytesLevel1                   \* size limit of level 1; 5 tables

Levels == 0 .. kNumLevels - 1

FileMetaData(number, table) ==
  [number |-> number, file_size |-> Len(table),
   smallest |-> Head(table), largest |-> Last(table)]

EmptyVersion == [l \in Levels |-> <<>>]

(* MaxBytesForLevel multiplies by ten from one level to the next.          *)
MaxBytesForLevel(level) == kMaxBytesLevel1 * (IF level <= 1 THEN 1 ELSE 10 ^ (level - 1))

TotalFileSize(files) == FoldLeft(LAMBDA sum, f : sum + f.file_size, 0, files)
SumSizes(files, indices) == FoldSet(LAMBDA i, sum : sum + files[i].file_size, 0, indices)

NoKey == InternalKey(NULL, 0, 0)

-----------------------------------------------------------------------------
(* Searching a version.                                                    *)

(* The number of files whose largest key is before key, by binary search.  *)
FindFile(files, key) ==
  LET n == Len(files)
      Search[left \in 0 .. n, right \in 0 .. n] ==
        LET mid == (left + right) \div 2 IN
        IF left >= right THEN right
        ELSE IF Before(files[mid + 1].largest, key) THEN Search[mid + 1, right]
             ELSE Search[left, mid]
  IN  Search[0, n]

AfterFile(user_key, f) == user_key # NULL /\ user_key > f.largest.user_key
BeforeFile(user_key, f) == user_key # NULL /\ user_key < f.smallest.user_key

\* Mutant: takes the file that FindFile returns for one past the range.
SomeFileBeginsInRange(disjoint_sorted_files, files, smallest, largest) ==
  \E f \in ToSet(files) : ~BeforeFile(smallest, f) /\ ~BeforeFile(largest, f)
                          /\ f.smallest.user_key # smallest

SomeFileOverlapsRange(disjoint_sorted_files, files, smallest, largest) ==
  IF disjoint_sorted_files
  THEN LET index == IF smallest = NULL THEN 0
                    ELSE FindFile(files, LookupKey(smallest, kMaxSequenceNumber))
       IN  /\ index < Len(files)
           /\ ~BeforeFile(largest, files[index + 1])
  ELSE \E f \in ToSet(files) : ~AfterFile(smallest, f) /\ ~BeforeFile(largest, f)

OverlapInLevel(v, level, smallest, largest) ==
  SomeFileOverlapsRange(level > 0, v[level], smallest, largest)

(* Level-0 files whose range holds user_key, newest first.                 *)
NewestFirst(files, user_key) ==
  LET hit == {f \in ToSet(files) : ~AfterFile(user_key, f) /\ ~BeforeFile(user_key, f)}
  IN  [i \in 1 .. Cardinality(hit) |->
         CHOOSE f \in hit : Cardinality({g \in hit : g.number > f.number}) = i - 1]

(* The files that may hold the newest entry a lookup key can see, in the   *)
(* order in which Version::Get and ForEachOverlapping look at them.        *)
SearchOrder(v, lkey) ==
  LET InLevel(level) ==
        IF level = 0 THEN NewestFirst(v[0], lkey.user_key)
        ELSE LET index == FindFile(v[level], lkey) IN
             IF index < Len(v[level]) /\ ~BeforeFile(lkey.user_key, v[level][index + 1])
             THEN <<v[level][index + 1]>> ELSE <<>>
      Tag(level) == [i \in 1 .. Len(InLevel(level)) |-> <<level, InLevel(level)[i]>>]
  IN  FlattenSeq([l \in 1 .. kNumLevels |-> Tag(l - 1)])

(* Seeking lkey in a sorted table and keeping the entry when its user key  *)
(* is the one looked for (SaveValue): one entry or none.                   *)
TableGet(table, lkey) ==
  LET n == Cardinality({i \in DOMAIN table : Before(table[i], lkey)}) + 1
  IN  IF n <= Len(table) /\ table[n].user_key = lkey.user_key
      THEN {table[n]} ELSE {}

(* Version::Get: the entry of the first file that has one.                 *)
VersionGet(v, tables, lkey) ==
  LET order == SearchOrder(v, lkey)
      hits == {i \in DOMAIN order : TableGet(tables[order[i][2].number], lkey) # {}}
      first == CHOOSE i \in hits : \A j \in hits : i <= j
      nread == IF hits = {} THEN Len(order) ELSE first
  IN  [entry |-> IF hits = {} THEN {} ELSE TableGet(tables[order[first][2].number], lkey),
       seek_file |-> IF nread > 1 THEN {order[1]} ELSE {}]

(* RecordReadSample charges the first of two or more matching files.       *)
ReadSample(v, lkey) ==
  LET order == SearchOrder(v, lkey) IN IF Len(order) > 1 THEN {order[1]} ELSE {}

(* All files of a level that overlap the user keys [begin, end].  Level-0  *)
(* files may overlap each other: the range grows with every file it takes. *)
GetOverlappingInputs(v, level, begin, end) ==
  LET Overlaps(r, f) == ~AfterFile(r[1], f) /\ ~BeforeFile(r[2], f)
      Low(b, f) == IF b # NULL /\ f.smallest.user_key < b THEN f.smallest.user_key ELSE b
      High(e, f) == IF e # NULL /\ f.largest.user_key > e THEN f.largest.user_key ELSE e
      Grow(r, f) == IF Overlaps(r, f) THEN <<Low(r[1], f), High(r[2], f)>> ELSE r
      Pass(r, f) == FoldLeft(Grow, r, v[level])
      range == IF level = 0 THEN FoldLeft(Pass, <<begin, end>>, v[level]) ELSE <<begin, end>>
  IN  SelectSeq(v[level], LAMBDA f : Overlaps(range, f))

(* How deep a new table with these user keys may be placed.                *)
PickLevelForMemTableOutput(v, smallest, largest) ==
  LET MayPush(level) ==        \* from level to level + 1
        /\ ~OverlapInLevel(v, level + 1, smallest, largest)
        /\ \/ level + 2 >= kNumLevels
           \/ TotalFileSize(GetOverlappingInputs(v, level + 2, smallest, largest))
                <= kMaxGrandParentOverlapBytes
      reach == {l \in 0 .. kMaxMemCompactLevel : \A m \in 0 .. l - 1 : MayPush(m)}
  IN  IF OverlapInLevel(v, 0, smallest, largest) THEN 0
      ELSE CHOOSE l \in reach : \A m \in reach : m <= l

-----------------------------------------------------------------------------
(* Edits.  An edit names the files a version loses and gains per level, a  *)
(* compaction pointer, and the counters a recovery needs.                  *)

VersionEdit(deleted, added, pointers) ==
  [deleted_files |-> deleted, new_files |-> added, compact_pointers |-> pointers]

BySmallestKey(f, g) ==
  \/ Before(f.smallest, g.smallest)
  \/ f.smallest = g.smallest /\ f.number < g.number

(* Builder::Apply and SaveTo: the files of the base less the deleted ones, *)
(* merged in order with the new ones.                                      *)
ApplyEdit(v, edit) ==
  [level \in Levels |->
     LET kept == {f \in ToSet(v[level]) : <<level, f.number>> \notin edit.deleted_files}
         files == kept \cup {n[2] : n \in {m \in edit.new_files : m[1] = level}}
     IN  [i \in 1 .. Cardinality(files) |->
            CHOOSE f \in files : Cardinality({g \in files : BySmallestKey(g, f)}) = i - 1]]

ApplyPointers(compact_pointer, edit) ==
  [level \in Levels |-> IF level \in DOMAIN edit.compact_pointers
                         THEN edit.compact_pointers[level] ELSE compact_pointer[level]]

LiveFiles(v) == UNION {{f.number : f \in ToSet(v[level])} : level \in Levels}

(* Finalize: the level most in need of compaction.  The score of a level   *)
(* is Load / Limit; the first level of the largest score is taken.         *)
Load(v, level) == IF level = 0 THEN Len(v[0]) ELSE TotalFileSize(v[level])
Limit(level) == IF level = 0 THEN kL0_CompactionTrigger ELSE MaxBytesForLevel(level)

CompactionLevel(v) ==
  CHOOSE l \in 0 .. kNumLevels - 2 : \A m \in 0 .. kNumLevels - 2 :
     LET x == Load(v, l) * Limit(m)
         y == Load(v, m) * Limit(l)
     IN  x > y \/ (x = y /\ l <= m)

SizeCompaction(v) == Load(v, CompactionLevel(v)) >= Limit(CompactionLevel(v))

-----------------------------------------------------------------------------
(* Compactions.                                                            *)

Smallest(files) == CHOOSE k \in {f.smallest : f \in ToSet(files)} :
                     \A f \in ToSet(files) : ~Before(f.smallest, k)
Largest(files) == CHOOSE k \in {f.largest : f \in ToSet(files)} :
                    \A f \in ToSet(files) : ~Before(k, f.largest)

(* The files of a level in the range of another set of files.              *)
InRangeOf(v, level, files) ==
  GetOverlappingInputs(v, level, Smallest(files).user_key, Largest(files).user_key)

Compaction(v, level, inputs0, inputs1, grandparents) ==
  [level |-> level, version |-> v, inputs0 |-> inputs0, inputs1 |-> inputs1,
   grandparents |-> grandparents, largest |-> Largest(inputs0)]

(* The inputs of level + 1, the growth of the inputs of level that they    *)
(* allow, and the grandparents.                                            *)
SetupOtherInputs(v, level, inputs0) ==
  LET inputs1 == InRangeOf(v, level + 1, inputs0)
      expanded0 == InRangeOf(v, level, inputs0 \o inputs1)
      expanded1 == InRangeOf(v, level + 1, expanded0)
      expand == /\ inputs1 # <<>>
                /\ Len(expanded0) > Len(inputs0)
                /\ TotalFileSize(inputs1) + TotalFileSize(expanded0)
                     < kExpandedCompactionByteSizeLimit
                /\ Len(expanded1) = Len(inputs1)
      in0 == IF expand THEN expanded0 ELSE inputs0
      in1 == IF expand THEN expanded1 ELSE inputs1
  IN  Compaction(v, level, in0, in1,
                 IF level + 2 < kNumLevels THEN InRangeOf(v, level + 2, in0 \o in1) ELSE <<>>)

\* Mutant: takes one file of level 0 and leaves those that overlap it.
PickSingleFile(v, compact_pointer, file_to_compact) ==
  LET level == CompactionLevel(v)
      after == SelectSeq(v[level], LAMBDA f : \/ compact_pointer[level] = NoKey
                                             \/ Before(compact_pointer[level], f.largest))
      picked == IF after = <<>> THEN v[level][1] ELSE after[1]
  IN  IF SizeCompaction(v) THEN {SetupOtherInputs(v, level, <<picked>>)}
      ELSE {SetupOtherInputs(v, s[1], <<s[2]>>) : s \in file_to_compact}

(* The compaction the version needs, if it needs one: a set of at most one.*)
PickCompaction(v, compact_pointer, file_to_compact) ==
  LET level == CompactionLevel(v)
      after == SelectSeq(v[level], LAMBDA f : \/ compact_pointer[level] = NoKey
                                             \/ Before(compact_pointer[level], f.largest))
      picked == IF after = <<>> THEN v[level][1] ELSE after[1]
      From(l, f) == SetupOtherInputs(v, l, IF l = 0 THEN InRangeOf(v, 0, <<f>>) ELSE <<f>>)
  IN  IF SizeCompaction(v) THEN {From(level, picked)}
      ELSE {From(s[1], s[2]) : s \in file_to_compact}

(* A manual compaction: the files in range, at most about one table's size *)
(* of them above level 0.                                                  *)
CompactRange(v, level, begin, end) ==
  LET inputs == GetOverlappingInputs(v, level, begin, end)
      Enough(i) == TotalFileSize(SubSeq(inputs, 1, i)) >= kTargetFileSize
      cut == {i \in DOMAIN inputs : Enough(i)}
      n == IF level = 0 \/ cut = {} THEN Len(inputs) ELSE CHOOSE i \in cut : \A j \in cut : i <= j
  IN  IF inputs = <<>> THEN {} ELSE {SetupOtherInputs(v, level, SubSeq(inputs, 1, n))}

IsTrivialMove(c) ==
  /\ Len(c.inputs0) = 1
  /\ c.inputs1 = <<>>
  /\ TotalFileSize(c.grandparents) <= kMaxGrandParentOverlapBytes

InputDeletions(c) ==
  {<<c.level, f.number>> : f \in ToSet(c.inputs0)}
    \cup {<<c.level + 1, f.number>> : f \in ToSet(c.inputs1)}

\* Mutant: looks one level too deep.
IsBaseLevelBelowNext(c, user_key) ==
  \A level \in c.level + 3 .. kNumLevels - 1 : \A f \in ToSet(c.version[level]) :
     AfterFile(user_key, f) \/ BeforeFile(user_key, f)

(* No deeper level than the output's can hold the user key.                *)
IsBaseLevelForKey(c, user_key) ==
  \A level \in c.level + 2 .. kNumLevels - 1 : \A f \in ToSet(c.version[level]) :
     AfterFile(user_key, f) \/ BeforeFile(user_key, f)

(* MakeInputIterator: the entries of the inputs, merged.                   *)
MakeInputIterator(c, tables) ==
  Sorted(UNION {ToSet(tables[f.number]) : f \in ToSet(c.inputs0 \o c.inputs1)})

(* What the loop of DoCompactionWork remembers: the outputs it closed, the *)
(* open one, the last user key and sequence number, and how far it came    *)
(* among the grandparents.                                                 *)
CompactionState ==
  [outputs |-> <<>>, builder |-> <<>>, user_key |-> NULL, last_sequence |-> 0,
   grandparent_index |-> 0, seen_key |-> FALSE, overlapped_bytes |-> 0]

(* An output is closed if one is open.                                     *)
FinishOutput(s) ==
  IF s.builder = <<>> THEN s
  ELSE [s EXCEPT !.outputs = Append(@, s.builder), !.builder = <<>>]

(* The output so far overlaps too many of the grandparents that key leaves *)
(* behind.                                                                 *)
StopBefore(c, s, key) ==
  LET passed == {i \in s.grandparent_index + 1 .. Len(c.grandparents) :
                   Before(c.grandparents[i].largest, key)}
      bytes == s.overlapped_bytes + IF s.seen_key THEN SumSizes(c.grandparents, passed) ELSE 0
      stop == bytes > kMaxGrandParentOverlapBytes
      t == [s EXCEPT !.grandparent_index = @ + Cardinality(passed),
                     !.seen_key = TRUE, !.overlapped_bytes = IF stop THEN 0 ELSE bytes]
  IN  IF stop THEN FinishOutput(t) ELSE t

(* An entry hidden by a newer one for every snapshot, or a deletion that   *)
(* has nothing below it to hide.                                           *)
Drop(c, smallest_snapshot, s, key) ==
  \/ s.user_key = key.user_key /\ s.last_sequence <= smallest_snapshot
  \/ /\ key.type = kTypeDeletion
     /\ key.sequence <= smallest_snapshot
     /\ IsBaseLevelForKey(c, key.user_key)

AddToOutput(s, key) ==
  LET t == [s EXCEPT !.builder = Append(@, key)]
  IN  IF Len(t.builder) >= kTargetFileSize THEN FinishOutput(t) ELSE t

(* The loop of DoCompactionWork over the merged input: what it drops and   *)
(* where it closes an output file.  The result is the sequence of outputs. *)
CompactionOutputs(c, tables, smallest_snapshot) ==
  LET Step(s, key) ==
        LET t == StopBefore(c, s, key)
            u == IF Drop(c, smallest_snapshot, t, key) THEN t ELSE AddToOutput(t, key)
        IN  [u EXCEPT !.user_key = key.user_key, !.last_sequence = key.sequence]
  IN  FinishOutput(FoldLeft(Step, CompactionState, MakeInputIterator(c, tables))).outputs

=============================================================================
