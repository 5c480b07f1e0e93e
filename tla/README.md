# Specifications of the page, heap file, merge sort and LevelDB code

This directory models the programs of the repository in TLA+: the paged heap
file of `a1` and the programs on it, the external merge sort of `a2`, and the
LevelDB 1.15 that `a2` builds on. TLC checks the models on small instances;
TLAPS proves the page, the heap file with and without crashes, the scan and the
skip list correct for every value of the constants.

## The system

| part | source | state | operations |
|---|---|---|---|
| page | `a1/page.*` | a byte array: records from the front, one flag bit per slot from the back | init, capacity, freeslots, add, write, read, delete, next filled slot |
| directory | `a1/directory.*` | a block of entries (offset of a page, its free slots) and the offset of the next directory | init, is_full, next vacant slot, find a page with space |
| heap file | `a1/heapfile.*` | the file; all directories and one page in memory; a dirty flag | create, open, close, put, get, update, delete |
| record iterator | `a1/heapfile.*`, loop of `a1/scan.cpp` | page id, slot, `has_next` | constructor, next, nextRID, hasNext |
| record format | `a1/record.*` | - | CSV lines, attributes, the bytes of a slot |
| programs | the other files of `a1` | heap file, column store, page file | load, insert, delete, update, scan, three selects, write and read pages |
| sort library | `a2/library.*` | run iterators with read buffers | schema, comparators, make runs, iterate |
| merge sort | `a2/msort.cc` | two temporary files | passes of k-way merges |
| index sort | `a2/bsort.cc` | a LevelDB database | insert under the sort key, iterate |
| LevelDB | `a2/leveldb-1.15.0` | memtables, logs, tables, manifests, the writer queue, one background thread | write, get, iterate, snapshot, compact, open, close, destroy, repair |

Heap file calls go through the page code for the one cached page; the iterator
shares that cache. `mk_runs` writes the runs that `RunIterator`s read and
`kway_merge` merges. In LevelDB a write goes to the log and then to the memtable;
a full memtable becomes a table of level 0; compactions merge tables into the
next level; the manifest logs which tables are live and CURRENT names it.

What makes the code hard. In `a1`: directories reach the disk when they are made
and at `close_heapfile`, pages when they are evicted, so the two are out of step
when a process dies; `free_space` is a cached count which `put_record` trusts; a
new page and a new directory both go to "the end of the file"; three formulas
compute the place of one flag bit. In `msort`: run lengths and loop bounds are
ints with remainders and products. In LevelDB: clients and the background thread
leave the mutex in the middle of what they do; files are removed while others
read; a crash keeps any prefix of what was not synced; iterators change
direction over merged sources. `PROJECT.json` lists the hazards by line.

## Modules

| module | models | extends or instantiates |
|---|---|---|
| `PageLayout` | the arithmetic of slots, directory bytes and flag bits | |
| `SlotPage` | the page calls on flags and records | |
| `PageSpec` | what a page promises | `SlotPage` |
| `BytePage`, `MCBytePage` | the page calls on bytes | `PageLayout`; implements `PageSpec` |
| `Heapfile` | directory and heap file, with crashes | `SlotPage` |
| `HeapfileContents` | which record each record id has, in memory and on disk | `Heapfile` |
| `RecordStore` | what a heap file promises when processes die | |
| `HeapfileStore` | heap file with history variables | `HeapfileContents`; implements `RecordStore` |
| `HeapScan` | iterator and scan loop composed with the heap file | `HeapfileContents` |
| `RecordFormat` | CSV lines, attributes, slot bytes | |
| `Programs`, `MCPrograms` | the programs of `a1`, one after the other | `RecordFormat`, `HeapfileContents` |
| `SortLibrary` | schema and comparators of `library.cc` | |
| `MergeSort`, `MCMergeSort` | `mk_runs`, `RunIterator`, `kway_merge`, the passes; with the comparators | `SortLibrary` |
| `DbFormat`, `VersionSet` | internal keys; versions, edits, compactions | |
| `DBImpl` | clients, background thread, recovery, crashes | `VersionSet` |
| `Repair`, `MCDBImpl` | `RepairDB` | `DBImpl` |
| `Comparator`, `TableFormat` | keys as bytes; building and reading tables | |
| `DBIter`, `MCDBIter` | the tree of iterators `NewIterator` builds | `TableFormat`; implements `Cursor` |
| `Cursor` | what an iterator promises | `Comparator` |
| `SkipList` | one writer and lock-free readers | |
| `Coding`, `LogFormat`, `MemEnv` | encodings; the log's blocks and fragments; in-memory files | |
| `LogFile`, `MCLogFile` | a log or manifest from the first append to its recovery | the three above |
| `NumberFacts`, `*_proofs` | theorems | the module they are about |

Definitions have the names of the functions they model. Definitions marked
"Mutant" are plausible mistakes in the definition that follows; they are not
used by the specifications.

**Pages.** In `BytePage` a byte is the set of its one bits and the calls compute
byte addresses as `page.cpp` does. `SlotPage` is the view one level up: a flag
and a record for each slot. `delete_fixed_len_page` clears the flag only, in both.

**Heap file.** A function of `heapfile.cpp` is an operator from a state to a
state, and an action applies one call. Offsets count blocks. `open_heapfile`
takes one step per directory. The field `was` of a state collects the content of
the file after each `write_block` of the call; every write is flushed, so these
are the contents a dying process can leave, and `Crash` picks one. `Spec` has no
crashes, `CrashSpec` and `StoreSpec` have them. Requests for pages that are not
allocated are left out: `get_entry` asserts against them. `create_heapfile` on an
existing file truncates it, as `fopen(..., "w+")` does.

**Scan.** `has_next` starts with either value, because the constructor never
sets it; reading `directory_buffer` past its end leads to the state `undefined`.
Heap file calls happen before and after a scan, as in the programs.

**Programs.** A program is one action: it opens its files, makes its calls, and
closes them. Three kinds of files: a heap file, a column store, a page file.
An update of a deleted record is made, and its row is left open from then on.
Left out are arguments that end a program with a message, and inputs on which
its behaviour is undefined: an empty CSV file, a line without `NUM_ATTR` fields.

**Merge sort.** A merge buffer entry is a pointer into the iterator's
`read_buf`, so a refill that came too early would show. A short `fread` leaves
the rest of the buffer as it was. Ints wrap at `IntBits` bits (signed overflow is
undefined in C++; wrapping is what the build does when it makes no use of that).
A failing `fseek` and a buffer too small for a record end in `exit`. `MergeSort`
takes a comparator that is a total preorder; `qsort` leaves equal records in any
order. `MCMergeSort` gives it the comparator of `SortLibrary`, applied to rows of
bytes; numbers are read as `atoi` and `atof` read them, with blanks, a sign and a
fraction. `SortLibrary` cuts the i-th sorting attribute at the length of attribute
i of the schema, as the code does; `BytesWritten` excludes schemas for which the
code would read bytes nobody wrote, `AttributesFit` attributes longer than the
comparators' buffers of 40 bytes, and `NamesFound` those it refuses.

**LevelDB.** In `DBImpl` an action is one critical section of `mutex_`, or one
step of input or output taken without it; a thread that waits on a condition
variable has `awake = FALSE` until a signal. A log is the batches a reader would
find in it and how many are synced; a crash keeps a prefix that has at least
those, and cuts or keeps each file on its own. A process that is killed, the
machine staying up, is a crash that keeps everything. A failed operation may
leave part of a record. Sizes count entries. `history`, `durable` and `damage`
are ghosts: the writes that were applied and not lost, those acknowledged with
sync, and what a fault did to the directory. A `workload`, chosen in `Init` and
never changed, says what the clients write and bounds what happens. `RepairDB`
is a sequence of actions, one for each log in any order, and may be cut short or
meet an error at each. `TableFormat` and `DBIter` are the
same tables one level down: blocks with prefix compression and restart points,
index separators, filters, and the iterators over them; a block or a table may
be unreadable. An iterator records the call it was given last, and `Cursor`
allows exactly the move of that call, or an error. `LogFile` is the log one level
down, as bytes with headers; an append may fail half-way, also that of the zeros
that fill a block, whose status nobody looks at, and a read may fail. A
checksum is modelled by what it does: it tells a header and its payload from any
other bytes. In `SkipList` a step is one load or store of a link; `max_height_`
is read without a barrier, so a reader may get any value it has had.

## Runs

| run | instance | shows |
|---|---|---|
| `byte_page` | page of 11 bytes, slots of 1 byte: 9 slots, so that the flags need a second byte | the bytes implement `PageSpec` (`ImplementsPage`); the counting loop and the scan agree with the flags (`CountMatchesFlags`) |
| `heapfile_crash` | 1 slot, 1 entry, 6 blocks: three directories; crashes at every write | the chain on disk stays readable (`ChainIntact`), no block is used twice (`BlocksDistinct`), each call changes what it should (`CallEffects`), `open_heapfile` returns (`OpenReturns`), a crash takes each record id to a value it had since the last close (`ImplementsStore`) |
| `scan` | 2 slots, 2 entries, 5 blocks: three pages | `free_space` is right and a page promised to have space has it (`FreeSpaceAccurate`, `VacantPageHasSlot`); records are printed once, in order and as they are (`ScanSound`), all of them when `has_next` started true (`ScanComplete`); the scan ends (`ScanEnds`) |
| `programs` | 2 attributes of 2 bytes, three CSV files, 4 programs | the heap file holds the rows that loads, inserts, deletes and updates should have left (`TableKept`); what a program prints is the selection it should be (`PrintsRows`) |
| `merge_sort` | 3 different records of which two compare equal, up to 5 or 7 in the file, memory of 3, 4 and 6 records; k = 2 with three passes, the first of two groups; k = 3 with two runs and an empty one | nothing is lost or doubled in a pass (`Conserved`), pointers into read buffers stay right (`PointersCurrent`), segments are sorted as the comments say (`PassesSort`), the output is the sorted input (`OutputSorted`), the sort ends (`Terminates`) |
| `db` | 3 levels; workload 1: 2 keys, 5 sequence numbers, a snapshot and a read; workload 2: 1 key, 2 sequence numbers, 2 crashes, 1 failed operation, 1 close, destroy or repair, 3 of these together | no file in use is removed (`NeededFilesExist`), every snapshot reads the write it covers, also after recovery (`ReadsCorrect`), levels hold newer above older (`NewerAbove`) and do not overlap (`LevelsDisjoint`), synced writes survive (`SyncedWritesSurvive`), no sequence number is used twice (`SequencesCovered`), the database opens again but in the cases it names (`OpensAgain`) |
| `db_clients` | 2 clients, writes with and without sync, one `CompactRange` | a group does not weaken a sync (`SyncedOnDisk`), every call returns (`CallsReturn`) |
| `db_key_split` | 1 key, tables of 1 entry, snapshots at any time | `NewerAbove` is violated, see below |
| `db_segfault` | as `db_clients`, with one failed operation | `NoSegfault` is violated, see below |
| `iterator` | 3 keys of up to 2 bytes, 6 writes over memtable, level 0 and level 1; unreadable blocks, filter, table | lookups through index and filter find what the tables hold and estimated sizes add up (`LookupsAgree`); each call moves an iterator as it moves a cursor over what the snapshot sees, or an error is reported (`ImplementsCursor`) |
| `skiplist` | 3 keys, 2 levels, 1 reader | `ListsSorted`, `ReadersCorrect`, `SearchesEnd` |
| `log` | blocks of 8 bytes, 3 records of batches or edits, 2 failed appends, on disk and in memory | recovery reads a prefix with all that was synced (`RecoversPrefix`), a torn tail and a failed read are reported and a whole file is not (`TornTailReported`), nothing is read that was not added (`NothingInvented`) |

The bounds are the smallest at which the branches happen: a flag in the second
directory byte, a new directory with the cache dirty, eviction by another page,
a close that writes several directories, a pass with an incomplete last group, a
merge with an empty iterator, a read buffer refilled in the middle of a run, a
compaction of two levels with a deletion and a snapshot, a filter shared by
blocks, a record over three blocks. Two bounds hide something on purpose. In
`db` a table holds all entries (`kTargetFileSize` is `MaxSequence`),
because smaller tables lead to the violation of `db_key_split`; and reads and
snapshots begin at `ReadPoints` only, to keep the run small, and not in the
workload with faults. `db_clients` has no failed operations, which `db_segfault`
has. Deadlock is not checked where the system may stop: the scan may end
in `undefined`, the sort and the programs end, and LevelDB's clients and faults
are bounded.

Fairness: a loop that has begun goes on (`ReadDirectory`, the steps of a scan,
the steps of msort, the steps of a search in the skip list): each is
straight-line code of one thread. In `db_clients` it is weaker: as long as some
client inside a call, or the background thread, can go on, one of them does. No
thread is promised a turn against another, and nobody has to make a call.

## Where the code does not do what it says

Two runs check what the code says of itself and TLC finds it violated.

`db_key_split`: "We can search level-by-level since entries never hop across
levels" (`version_set.cc:351`). `DoCompactionWork` closes an
output table by its size, also between two entries of one key that a snapshot
keeps. A later compaction may take the table with the newer entry and leave the
other, and a search level by level then returns the older one.

`db_segfault`: a client "cancels" its manual compaction after an error
(`db_impl.cc:585`), in a database that is "safe for concurrent access from
multiple threads" (`db.h:42`). The error may be that of another client's sync,
recorded while the background thread compacts without the lock; the compaction
succeeds, and `BackgroundCompaction` follows `manual_compaction_`, which is NULL
by then (`db_impl.cc:726`).

Other disagreements met while modelling, each kept in the model and stated as
the condition under which a property holds:

* `fixed_len_page_capacity` is not always "the maximal number of records that
  fit in a page" (`page.cpp:29`; 159 of 160 for 1620 bytes and slots of 10).
* After a crash `vacant_page_id` may return a full page, and `put_record` drops
  records (`heapfile.cpp:266`); `FreeSpaceAccurate` is stated without crashes.
* `has_next` is never initialised, so `scan` may print nothing
  (`heapfile.cpp:338`); the iterator reads past the directory buffer when the
  last directory is full (`heapfile.cpp:385`). `ScanComplete` is stated for a
  scan that starts with `has_next` true.
* "Check record is valid before being read" (`page.cpp:134`), and
  `tests/test_page.cpp:169` expects a read of a cleared slot to break; the assert
  is commented out (`page.cpp:138`), and `update` of a deleted record brings it
  back with what its slot held. `TableKept` and `PrintsRows` leave that row open.
* `load_col_record` never fills in the tuple id (`record.cpp:91`): `select3`
  joins columns on what its buffers held. `PrintsRows` excepts this.
* `num_records*k` may overflow and the runs are not merged (`msort.cc:140`);
  memory for less than one record gives an empty output and no error
  (`msort.cc:124`). `OutputSorted` excepts the second; in its run the ints are
  wide enough (`IntBits`), with fewer bits it is violated.
* The comparators end attribute i at the length of another attribute
  (`library.h:164`): `OutputSorted` is about the order of this comparator, not
  that of the attributes; the comparator of `bsort` reads destroyed strings.
* LevelDB. A write with sync does not sync the log before it
  (`db_impl.cc:1335`), although `doc/index.html:127` suggests that a synced marker covers earlier writes:
  `SyncedWritesSurvive` is stated per write. `NewDB` does not sync the first
  manifest (`db_impl.cc:196`), and later edits are appended to a manifest or a
  log whose last append failed (`version_set.cc:873`, `log_writer.cc:98`):
  `OpensAgain` and `SyncedWritesSurvive` except these. `RepairDB` does not sync
  the manifest it writes either, and archives the old ones first: `OpensAgain`
  excepts a machine that stops while CURRENT names it, and a repair cut short
  between the two. The empty write of
  `CompactRange` may join another writer's group and then flushes nothing
  (`db_impl.cc:1263`). `RepairDB` moves logs away before the new descriptor
  exists (`repair.cc:158`) and forgets the levels of the tables:
  `SyncedWritesSurvive` excepts an interrupted repair, `ReadsCorrect` any repair.

## Proofs

Assumptions: the asserts of `init_fixed_len_page` on the sizes (`BytePage`),
positive capacities (`SlotPage`, `Heapfile`), positive keys and height
(`SkipList`), a comparator that is an order (`MergeSort`). Nothing is assumed of the records or of the number of blocks.

* `BytePage_proofs`: a page has at least one slot; the slots end before the
  directory (`SlotsBeforeDirectory`); the three formulas for a flag agree
  (`FlagAddressesAgree`); flags of different slots differ and lie in the page.
  From these, each byte-level call is the slot-level call, so
  `Spec => ImplementsPage`; with it `TypeOK` and `CountMatchesFlags`.
* `Heapfile_proofs`, without crashes: `TypeOK`, `FreeSpaceAccurate`,
  `VacantPageHasSlot`. None is inductive alone. `IInv` says of an open file that
  the directories are linked in order, all but the last full
  (`DirectoriesLinked`), that every entry names a page of the file and no two
  blocks share an offset (`PagesPlaced`), that a clean cache equals its block
  (`Cached`), and that the counts are right (`Accurate`). Of a closed file it
  says that opening it would give such a state (`OnDisk`); of one being opened,
  that the directories read so far are a prefix of that (`Opening`). There is a
  lemma per function of `heapfile.cpp`; the delicate one is `alloc_page`, which
  puts a page and perhaps a directory at the end of the file, changes the link
  of the last directory and evicts.
* `HeapScan_proofs`: `ScanSound` and `ScanComplete`. `ScanInv` adds to `IInv`
  that what was printed is what the file holds up to the iterator's place: up to
  and including it at the head of the loop (`AtLoop`), before it once
  `increment_iterator` has found the next record (`AtTest`), everything at the
  end (`AtEnd`). A scan only reads, but it evicts: that eviction changes no page
  comes from the heap file's lemmas.
* `HeapfileContents_proofs` and `HeapfileStore_proofs`, with a crash at any block write:
  `HeapfileImplementsStore` (`StoreSpec => ImplementsStore`), `BlocksDistinct`,
  `ChainIntact` and `CallEffects`. `Accurate` is lost in a crash; the rest of
  `IInv` is kept. `CrashInv` adds what the disk is like meanwhile. A directory on
  disk has at most the entries of the one in memory, and its link is the one in
  memory or still 0 (`Behind`). Each page on disk holds, slot by slot, a value
  its record id had since the file was last closed, and ids whose page the
  directories on disk do not reach had no record then (`PagesKept`). The same
  holds of every file content that a call passes through (`Left`). `Ready`
  states this of a call, with its effect added to the values (`Wider`); one lemma
  per call shows it, and `CrashNext` derives the invariant and the step of
  `RecordStore` together. The chain that `open_heapfile` follows is a recursive
  function; what it computes is shown by taking a least counterexample, since
  the induction rules of the library cannot be used.
* `SkipList_proofs`: `ListsSorted` and `ReadersCorrect` for any number of keys,
  levels and readers. `WriterInv` says that the node being inserted is linked on
  the levels below the writer's and on no other, `SearchInv` that a search
  stands before its target at a node of its level.
* `MergeSort_proofs`: `OutputSorted`, `Conserved`, `PassesSort` and
  `PointersCurrent` for any file, memory and k, under the hypothesis `NoOverflow`:
  the ints hold the size of the memory and the products that the loops over `n`
  and `offset` count to (without it TLC finds `OutputSorted` violated). The
  invariant `IInv` has a part per loop. In `mk_runs` the output is sorted in
  segments of `run_length` (`RunsInv`). In a pass `tmp_in` is a permutation of the
  input sorted in segments of `n` (`PassInv`), the segments of `kn` that are
  written are sorted (`GroupInv`). In `kway_merge` each iterator stands in its own
  run with the part of the file around its place in its buffer (`IteratorOK`), and
  nothing still to come is less than anything the group has written (`MergeInv`);
  the lemma `LeastOfAll` gets that from the least record and the order of each run.

Only model-checked: all liveness (`OpenReturns`, `ScanEnds`, `Terminates`,
`CallsReturn`, `SearchesEnd`), which TLAPS 1.4.5 does not handle; the
programs, the log and the iterators, whose properties say what recursive or
folded definitions compute (formatting, fragments, nested iterators); and
`DBImpl`, whose compactions are folds over sorted entries.

## Not modelled

`bsort.cc`, whose comparator promises no order; jsoncpp; LevelDB's block cache,
arena, checksum and compression algorithms, statistics, properties and bindings;
tests, benchmarks and scripts; printing and timing; files beyond 2 GB; two
processes on one heap file or two sorts at a time, which nothing in the
repository does.
