------------------------------- MODULE DBIter -------------------------------
(***************************************************************************)
(* An iterator over the database and the iterators it stands on:           *)
(*   DBIter            (db/db_iter.cc)  user keys visible at a snapshot    *)
(*   MergingIterator   (table/merger.cc)  one child per source             *)
(*   TwoLevelIterator  (table/two_level_iterator.cc)  blocks of a table,   *)
(*                     or tables of a level                                *)
(*   Block::Iter, LevelFileNumIterator, MemTableIterator, EmptyIterator    *)
(* An iterator is a record; its kind stands for its class, and the methods *)
(* of the Iterator interface are operators on it.  What it iterates over   *)
(* does not change: the files of a version and the memtables it pins are   *)
(* immutable up to its snapshot.  A block or a table may be unreadable.    *)
(***************************************************************************)
EXTENDS TableFormat

CONSTANTS Keys,          \* user keys
          Contents       \* the databases, see Init

VARIABLES mem,           \* the memtable's internal keys, sorted
          files,         \* ghost: the internal keys of each table
          visible,       \* ghost: the entries a reader at the snapshot sees, in order
          tables,        \* tables by number
          level0,        \* numbers of the level-0 tables
          level1,        \* numbers of the tables of level 1, in order
          bad,           \* what cannot be read: <<table, block>>, <<table, Whole>>, <<table, Meta>>
          sequence,      \* sequence_: the snapshot
          iter,          \* iter_
          db,            \* DBIter's own state
          call           \* ghost: the last call, its target, and where the iterator was

data == <<mem, files, visible, tables, level0, level1, bad, sequence>>
vars == <<data, iter, db, call>>

-----------------------------------------------------------------------------
None == [kind |-> "none"]
ErrorIterator == [kind |-> "error"]
BlockIterator(t, b) ==
  [kind |-> "block", table |-> t, block |-> b,
   it |-> NewBlockIter(IF b = 0 THEN tables[t].index ELSE tables[t].blocks[b])]
MemTableIterator == [kind |-> "mem", pos |-> 0]
LevelFileNumIterator == [kind |-> "files", pos |-> Len(level1)]
TwoLevelIterator(index) ==
  [kind |-> "two", index |-> index, data |-> None, handle |-> 0, ok |-> TRUE]
MergingIterator(children) ==
  [kind |-> "merge", children |-> children, current |-> 0, direction |-> "forward"]

Bad(t) == {b[2] : b \in {c \in bad : c[1] = t}}

(* TableCache: a table that cannot be opened is not kept, and every call   *)
(* that needs it fails.                                                    *)
FindTable(t) == Open(Bad(t))
TableIterator(t) == IF FindTable(t) THEN TwoLevelIterator(BlockIterator(t, Whole)) ELSE ErrorIterator
TableCacheGet(t, k) ==
  IF FindTable(t) THEN InternalGet(tables[t], Bad(t), k) ELSE [saved |-> {}, ok |-> FALSE]

(* The two functions that turn an index entry into an iterator.            *)
BlockReader(t, block) == IF ReadBlock(Bad(t), block) THEN BlockIterator(t, block) ELSE ErrorIterator
GetFileIterator(t) == TableIterator(t)
BlockFunction(index, handle) ==
  IF index.kind = "files" THEN GetFileIterator(handle) ELSE BlockReader(index.table, handle)

(* Version::AddIterators and NewInternalIterator.                          *)
NewConcatenatingIterator == TwoLevelIterator(LevelFileNumIterator)
AddIterators(list) ==
  list \o [i \in DOMAIN level0 |-> TableIterator(level0[i])]
       \o (IF level1 = <<>> THEN <<>> ELSE <<NewConcatenatingIterator>>)
NewMergingIterator(list) ==
  CASE Len(list) = 0 -> None
    [] Len(list) = 1 -> list[1]
    [] OTHER -> MergingIterator(list)
InternalIterator == NewMergingIterator(AddIterators(<<MemTableIterator>>))

BlockOf(x) == IF x.block = 0 THEN tables[x.table].index ELSE tables[x.table].blocks[x.block]
FileAt(x) == level1[x.pos + 1]
LargestKey(t) == LET b == Last(tables[t].blocks)
                 IN  BlockSeekToLast(b, NewBlockIter(b)).key

(* The value of an index entry, a block or file number.                    *)
Handle(x) == IF x.kind = "files" THEN FileAt(x) ELSE BlockValue(BlockOf(x), x.it).block

-----------------------------------------------------------------------------
(* The Iterator interface.                                                 *)
RECURSIVE Valid(_)
Valid(x) ==
  CASE x.kind \in {"none", "error"} -> FALSE
    [] x.kind = "block" -> BlockValid(BlockOf(x), x.it)
    [] x.kind = "mem" -> x.pos \in DOMAIN mem
    [] x.kind = "files" -> x.pos < Len(level1)
    [] x.kind = "two" -> Valid(x.data)
    [] x.kind = "merge" -> x.current # 0

RECURSIVE Key(_)
Key(x) ==
  CASE x.kind = "block" -> x.it.key
    [] x.kind = "mem" -> mem[x.pos]
    [] x.kind = "two" -> Key(x.data)
    [] x.kind = "merge" -> Key(x.children[x.current])

RECURSIVE OK(_)
OK(x) ==          \* status().ok()
  CASE x.kind \in {"none", "block", "mem", "files"} -> TRUE
    [] x.kind = "error" -> FALSE
    [] x.kind = "two" -> OK(x.index) /\ OK(x.data) /\ x.ok
    [] x.kind = "merge" -> \A c \in ToSet(x.children) : OK(c)

(* The five ways to move; k matters to "Seek" only.                        *)
RECURSIVE Move(_, _, _)
Seek(x, k) == Move("Seek", x, k)
SeekToFirst(x) == Move("SeekToFirst", x, <<>>)
SeekToLast(x) == Move("SeekToLast", x, <<>>)
NextOf(x) == Move("Next", x, <<>>)
PrevOf(x) == Move("Prev", x, <<>>)

-----------------------------------------------------------------------------
(* TwoLevelIterator.                                                       *)
SetDataIterator(x, d) == [x EXCEPT !.ok = @ /\ OK(x.data), !.data = d]

InitDataBlock(x) ==
  LET handle == Handle(x.index) IN
  IF ~Valid(x.index) THEN SetDataIterator(x, None)
  ELSE IF x.data # None /\ handle = x.handle THEN x
  ELSE [SetDataIterator(x, BlockFunction(x.index, handle)) EXCEPT !.handle = handle]

OnData(x, op, k) == IF x.data = None THEN x ELSE [x EXCEPT !.data = Move(op, @, k)]

(* Forward with "Next" and "SeekToFirst", backward with "Prev" and         *)
(* "SeekToLast".                                                           *)
RECURSIVE SkipEmptyDataBlocks(_, _, _)
SkipEmptyDataBlocks(x, step, enter) ==
  LET y == InitDataBlock([x EXCEPT !.index = Move(step, @, <<>>)])
  IN  IF Valid(x.data) THEN x
      ELSE IF ~Valid(x.index) THEN SetDataIterator(x, None)
      ELSE SkipEmptyDataBlocks(OnData(y, enter, <<>>), step, enter)

TwoLevelMove(op, x, k) ==
  LET y == IF op \in {"Next", "Prev"} THEN x
           ELSE InitDataBlock([x EXCEPT !.index = Move(op, @, k)])
      z == OnData(y, op, k)
  IN  IF op \in {"SeekToLast", "Prev"} THEN SkipEmptyDataBlocks(z, "Prev", "SeekToLast")
      ELSE SkipEmptyDataBlocks(z, "Next", "SeekToFirst")

-----------------------------------------------------------------------------
(* MergingIterator.                                                        *)
ValidChildren(cs) == {i \in DOMAIN cs : Valid(cs[i])}

(* The first child with the smallest key; the last one with the largest.   *)
FindSmallest(x) ==
  LET V == ValidChildren(x.children)
      K(i) == Key(x.children[i])
      least == {i \in V : \A j \in V : ~Before(K(j), K(i))}
  IN  [x EXCEPT !.current = IF V = {} THEN 0 ELSE Min(least), !.direction = "forward"]
FindLargest(x) ==
  LET V == ValidChildren(x.children)
      K(i) == Key(x.children[i])
      greatest == {i \in V : \A j \in V : ~Before(K(i), K(j))}
  IN  [x EXCEPT !.current = IF V = {} THEN 0 ELSE Max(greatest), !.direction = "reverse"]

\* Mutant: a child without a key after the current one is left invalid.
BeforeValidKey(c, key) ==
  LET d == Seek(c, key) IN IF Valid(d) THEN PrevOf(d) ELSE d

(* A child is put just after, or just before, the key of the merge.        *)
After(c, key) ==
  LET d == Seek(c, key) IN IF Valid(d) /\ Key(d) = key THEN NextOf(d) ELSE d
BeforeKey(c, key) ==
  LET d == Seek(c, key) IN IF Valid(d) THEN PrevOf(d) ELSE SeekToLast(d)

(* Next and Prev move the current child, and the others when the direction *)
(* changes.                                                                *)
MergeChild(op, x, i, k) ==
  LET c == x.children[i] IN
  CASE op \notin {"Next", "Prev"} \/ i = x.current -> Move(op, c, k)
    [] op = "Next" /\ i # x.current -> IF x.direction = "forward" THEN c ELSE After(c, Key(x))
    [] op = "Prev" /\ i # x.current -> IF x.direction = "reverse" THEN c ELSE BeforeKey(c, Key(x))

MergingMove(op, x, k) ==
  LET y == [x EXCEPT !.children = <<>> \o [i \in DOMAIN @ |-> MergeChild(op, x, i, k)]]
  IN  IF op \in {"SeekToLast", "Prev"} THEN FindLargest(y) ELSE FindSmallest(y)

-----------------------------------------------------------------------------
(* The others.                                                             *)
BlockMove(op, b, it, k) ==
  CASE op = "Seek" -> BlockSeek(b, it, k)
    [] op = "SeekToFirst" -> BlockSeekToFirst(b, it)
    [] op = "SeekToLast" -> BlockSeekToLast(b, it)
    [] op = "Next" -> ParseNextKey(b, it)
    [] op = "Prev" -> BlockPrev(b, it)

(* Positions are 1 .. Len(mem), and 0 when not valid.                      *)
MemTableMove(op, pos, k) ==
  CASE op = "Seek" -> (Cardinality({i \in DOMAIN mem : Before(mem[i], k)}) + 1) % (Len(mem) + 1)
    [] op = "SeekToFirst" -> IF mem = <<>> THEN 0 ELSE 1
    [] op = "SeekToLast" -> Len(mem)
    [] op = "Next" -> (pos + 1) % (Len(mem) + 1)
    [] op = "Prev" -> pos - 1

(* Positions are 0 .. Len(level1) - 1, and Len(level1) when not valid.     *)
LevelFileNumMove(op, pos, k) ==
  CASE op = "Seek" -> Cardinality({i \in DOMAIN level1 : Before(LargestKey(level1[i]), k)})
    [] op = "SeekToFirst" -> 0
    [] op = "SeekToLast" -> IF level1 = <<>> THEN 0 ELSE Len(level1) - 1
    [] op = "Next" -> pos + 1
    [] op = "Prev" -> IF pos = 0 THEN Len(level1) ELSE pos - 1

Move(op, x, k) ==
  CASE x.kind = "error" -> x
    [] x.kind = "block" -> [x EXCEPT !.it = BlockMove(op, BlockOf(x), @, k)]
    [] x.kind = "mem" -> [x EXCEPT !.pos = MemTableMove(op, @, k)]
    [] x.kind = "files" -> [x EXCEPT !.pos = LevelFileNumMove(op, @, k)]
    [] x.kind = "two" -> TwoLevelMove(op, x, k)
    [] x.kind = "merge" -> MergingMove(op, x, k)

-----------------------------------------------------------------------------
(* DBIter.                                                                 *)
Visible(k) == SequenceOf(k) <= sequence

(* The first acceptable entry at or after the one x stands at.             *)
RECURSIVE FindNextUserEntry(_, _, _)
FindNextUserEntry(x, skipping, skip) ==
  LET k == Key(x)
      user_key == ExtractUserKey(k)
      deleted == Visible(k) /\ TypeOf(k) = kTypeDeletion
      hidden == skipping /\ ~Less(skip, user_key)
      next == NextOf(x)
  IN  IF Visible(k) /\ TypeOf(k) = kTypeValue /\ ~hidden THEN [iter |-> x, valid |-> TRUE]
      ELSE IF ~Valid(next) THEN [iter |-> next, valid |-> FALSE]
      ELSE FindNextUserEntry(next, skipping \/ deleted, IF deleted THEN user_key ELSE skip)

(* Backwards, to just before the entries of the user key that is yielded.  *)
RECURSIVE FindPrevUserEntry(_, _, _, _)
FindPrevUserEntry(x, value_type, saved_key, saved_value) ==
  LET k == Key(x)
      user_key == ExtractUserKey(k)
      end == [iter |-> x, value_type |-> value_type, saved_key |-> saved_key,
              saved_value |-> saved_value]
  IN  IF ~Valid(x) THEN end
      ELSE IF ~Visible(k) THEN FindPrevUserEntry(PrevOf(x), value_type, saved_key, saved_value)
      ELSE IF value_type # kTypeDeletion /\ Less(user_key, saved_key) THEN end
      ELSE IF TypeOf(k) = kTypeDeletion THEN FindPrevUserEntry(PrevOf(x), kTypeDeletion, <<>>, 0)
      ELSE FindPrevUserEntry(PrevOf(x), kTypeValue, user_key, TagOf(k))

(* Backwards, until the user key is smaller than the one given.            *)
RECURSIVE SkipBack(_, _)
SkipBack(x, user_key) ==
  LET y == PrevOf(x)
  IN  IF Valid(y) /\ ~Less(ExtractUserKey(Key(y)), user_key) THEN SkipBack(y, user_key) ELSE y

Invalid(direction) == [valid |-> FALSE, direction |-> direction, saved_key |-> <<>>, saved_value |-> 0]

Forward(x, skipping, skip) ==
  LET found == FindNextUserEntry(x, skipping, skip)
  IN  /\ iter' = found.iter
      /\ db' = [Invalid("forward") EXCEPT !.valid = found.valid]

Backward(x, saved_key, saved_value) ==
  LET found == FindPrevUserEntry(x, kTypeDeletion, saved_key, saved_value)
  IN  /\ iter' = found.iter
      /\ db' = IF found.value_type = kTypeDeletion THEN Invalid("forward")
               ELSE [valid |-> TRUE, direction |-> "reverse",
                     saved_key |-> found.saved_key, saved_value |-> found.saved_value]

(* The newest entry of each user key up to a sequence number, if a value.  *)
VisibleKeys(keys, s) ==
  LET seen == {k \in keys : SequenceOf(k) <= s}
      newest == {k \in seen : \A j \in seen :
                   ExtractUserKey(j) = ExtractUserKey(k) => TagOf(j) <= TagOf(k)}
  IN  Sorted({k \in newest : TypeOf(k) = kTypeValue})

(* The database is given by the keys of the memtable, of each level-0      *)
(* table and of each level-1 table.                                        *)
Init ==
  \E c \in Contents :
    LET n == Len(c.level0)
    IN  /\ files = c.level0 \o c.level1
        /\ visible = VisibleKeys(c.mem \cup UNION ToSet(files), c.sequence)
        /\ mem = Sorted(c.mem)
        /\ tables = [t \in DOMAIN files |-> BuildTable(Sorted(files[t]))]
        /\ level0 = [i \in 1 .. n |-> i]
        /\ level1 = [i \in 1 .. Len(c.level1) |-> n + i]
        /\ bad = c.bad
        /\ sequence = c.sequence
        /\ iter = InternalIterator
        /\ db = Invalid("forward")
        /\ call = [op |-> "new", target |-> <<>>, from |-> 0]

(* What the iterator is at: the user key and the tag of its value.         *)
At == IF ~db.valid THEN <<>>
      ELSE IF db.direction = "forward" THEN Key(iter)
      ELSE Append(db.saved_key, db.saved_value)

(* Its place among the visible entries: 0 when not valid, -1 when at none. *)
Position ==
  IF At = <<>> THEN 0
  ELSE LET hit == {i \in DOMAIN visible : visible[i] = At}
       IN  IF hit = {} THEN -1 ELSE Min(hit)

Called(op, target) ==
  /\ call' = [op |-> op, target |-> target, from |-> Position]
  /\ UNCHANGED data

DBSeek(target) ==
  LET x == Seek(iter, AppendInternalKey(target, sequence, kValueTypeForSeek)) IN
  /\ IF Valid(x) THEN Forward(x, FALSE, <<>>)
     ELSE iter' = x /\ db' = Invalid("forward")
  /\ Called("Seek", target)

DBSeekToFirst ==
  LET x == SeekToFirst(iter) IN
  /\ IF Valid(x) THEN Forward(x, FALSE, <<>>)
     ELSE iter' = x /\ db' = Invalid("forward")
  /\ Called("SeekToFirst", <<>>)

DBSeekToLast ==
  /\ Backward(SeekToLast(iter), db.saved_key, 0)
  /\ Called("SeekToLast", <<>>)

(* After moving backwards iter_ is just before the entries of key().       *)
DBNext ==
  LET turned == IF Valid(iter) THEN NextOf(iter) ELSE SeekToFirst(iter)
      reverse == db.direction = "reverse"
  IN
  /\ db.valid
  /\ IF reverse /\ ~Valid(turned) THEN iter' = turned /\ db' = Invalid("forward")
     ELSE Forward(IF reverse THEN turned ELSE iter, TRUE,
                  IF reverse THEN db.saved_key ELSE ExtractUserKey(Key(iter)))
  /\ Called("Next", <<>>)

DBPrev ==
  LET saved_key == ExtractUserKey(Key(iter))
      turned == SkipBack(iter, saved_key)
  IN
  /\ db.valid
  /\ IF db.direction = "reverse" THEN Backward(iter, db.saved_key, db.saved_value)
     ELSE IF ~Valid(turned) THEN iter' = turned /\ db' = Invalid("forward")
     ELSE Backward(turned, saved_key, 0)
  /\ Called("Prev", <<>>)

Next ==
  \/ DBSeekToFirst \/ DBSeekToLast \/ DBNext \/ DBPrev
  \/ \E target \in Keys : DBSeek(target)

Spec == Init /\ [][Next]_vars

-----------------------------------------------------------------------------
(* The iterator implements a cursor over those entries, whatever blocks    *)
(* and tables they lie in and however often it changes direction: each     *)
(* call of Seek, SeekToFirst, SeekToLast, Next and Prev takes it from the  *)
(* entry it is at to the one that call should reach, none skipped and none *)
(* yielded twice, with the right value, unless its status reports an error.*)
Abstract == INSTANCE Cursor WITH Targets <- Keys,
              entries <- visible,
              pos <- Position, failed <- ~OK(iter)
ImplementsCursor == Abstract!Spec

(* GetApproximateSizes: the offset of a key in the version is the sum of   *)
(* its offsets in the tables, each at least as large as its blocks.        *)
VersionOffsetOf(k) ==
  LET size(t) == tables[t].metaindex_offset + 1
      before(t) == \A f \in files[t] : ~Before(k, f)
      after(t) == \A f \in files[t] : Before(k, f)
      part(t) == CASE before(t) -> size(t)
                   [] after(t) -> 0
                   [] OTHER -> IF FindTable(t) THEN ApproximateOffsetOf(tables[t], k) ELSE 0
  IN  FoldSet(LAMBDA t, sum : sum + part(t), 0, DOMAIN tables)

GetApproximateSizes(start, limit) ==
  LET from == VersionOffsetOf(AppendInternalKey(start, kMaxSequenceNumber, kValueTypeForSeek))
      to == VersionOffsetOf(AppendInternalKey(limit, kMaxSequenceNumber, kValueTypeForSeek))
  IN  IF to >= from THEN to - from ELSE 0

(* Looking a key up in a table through its index and filter finds the      *)
(* newest entry the snapshot covers, or reports that a block is unreadable,*)
(* also when the filter cannot be read; and the sizes that ranges of keys  *)
(* are estimated at add up: no table is counted for one key and left out   *)
(* for a larger one.                                                       *)
LookupsAgree ==
  iter = InternalIterator =>
    \A key \in Keys :
      /\ \A t \in DOMAIN tables :
           LET found == TableCacheGet(t, AppendInternalKey(key, sequence, kValueTypeForSeek))
               mine == {k \in files[t] : ExtractUserKey(k) = key /\ Visible(k)}
               newest == {k \in mine : \A j \in mine : TagOf(j) <= TagOf(k)}
           IN  found.ok => newest = {k \in found.saved : ExtractUserKey(k) = key}
      /\ \A mid, last \in Keys : Less(key, mid) /\ Less(mid, last) =>
           GetApproximateSizes(key, last)
             = GetApproximateSizes(key, mid) + GetApproximateSizes(mid, last)

=============================================================================
