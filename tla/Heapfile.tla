------------------------------ MODULE Heapfile ------------------------------
(***************************************************************************)
(* The heap file of a1/heapfile.cpp and a1/directory.cpp: a file of blocks *)
(* of one page size, some of them record pages, the others directory pages *)
(* linked through next_directory.  An open heap file keeps every directory *)
(* in memory (directory_buffer) and one record page (cached_page); a       *)
(* directory reaches the disk when it is created and when the file is      *)
(* closed, a record page when it is evicted and when the file is closed.   *)
(*                                                                         *)
(* Offsets count blocks, not bytes: block `offset` is disk[offset + 1].    *)
(*                                                                         *)
(* The functions of heapfile.cpp are operators on a state st: the Heapfile *)
(* structure st.heap, the file st.disk, and st.was, every content the file *)
(* has had since the call began.  write_block flushes each block, so these *)
(* are the contents that a process which dies during the call leaves.      *)
(***************************************************************************)
EXTENDS SlotPage, Sequences

CONSTANTS
  DirCapacity,  \* entries in a directory page
  MaxBlocks     \* bound on the size of the file

ASSUME DirCapacityAssumption == DirCapacity \in Nat \ {0}
ASSUME MaxBlocksAssumption == MaxBlocks \in Nat \ {0}

VARIABLES
  status,  \* of the file: "absent", "closed", "opening" or "open"
  offset,  \* local variable of open_heapfile
  heap,    \* the Heapfile structure
  disk     \* the file

vars == <<status, offset, heap, disk>>

-----------------------------------------------------------------------------
\* A directory page: `entries` has the n_entries entries in use.
NewDirectory == [next_directory |-> 0, entries |-> <<>>]

\* The Directory structure of the page at an offset.
init_directory_page(off) == [offset |-> off, data |-> NewDirectory]

is_full(dir) == Len(dir.data.entries) = DirCapacity

\* Mutant: takes a full page for one with space.
findAnyPage(dir) ==
  LET free == {i \in 0 .. Len(dir.data.entries) - 1 : dir.data.entries[i + 1].free_space >= 0}
  IN  IF free = {} THEN -1 ELSE First(free)

\* 0-based, as in the code; -1 if no entry has free space.
find_free_page(dir) ==
  LET free == {i \in 0 .. Len(dir.data.entries) - 1 : dir.data.entries[i + 1].free_space > 0}
  IN  IF free = {} THEN -1 ELSE First(free)

\* cached_page is not looked at while cached_pid is -1.
init_heapfile ==
  [directory_buffer |-> <<>>, cached_page |-> init_fixed_len_page,
   cached_pid |-> -1, page_cache_dirty |-> FALSE]

-----------------------------------------------------------------------------
\* fseek to the end of the file and ftell
EndOfFile(st) == Len(st.disk)

read_block(st, off) == st.disk[off + 1]

write_block(st, block, off) ==
  LET written == IF off = Len(st.disk) THEN Append(st.disk, block)
                                       ELSE [st.disk EXCEPT ![off + 1] = block]
  IN  [heap |-> st.heap, disk |-> written, was |-> st.was \cup {written}]

DirNo(pid) == (pid \div DirCapacity) + 1
SlotNo(pid) == (pid % DirCapacity) + 1
PageId(d, k) == (d - 1) * DirCapacity + (k - 1)

\* The assert of get_entry
Allocated(dirs, pid) ==
  /\ pid \in Nat
  /\ DirNo(pid) \in DOMAIN dirs
  /\ SlotNo(pid) \in DOMAIN dirs[DirNo(pid)].data.entries

get_entry(dirs, pid) == dirs[DirNo(pid)].data.entries[SlotNo(pid)]

\* "write out cache in buffer if dirty" of close_heapfile, get_page and alloc_page
FlushCache(st) ==
  LET entry == get_entry(st.heap.directory_buffer, st.heap.cached_pid)
  IN  IF st.heap.page_cache_dirty
        THEN write_block(st, st.heap.cached_page, entry.offset)
        ELSE st

WithHeap(st, h) == [heap |-> h, disk |-> st.disk, was |-> st.was]

Cache(st, page, pid) ==
  WithHeap(st, [directory_buffer |-> st.heap.directory_buffer, cached_page |-> page,
                cached_pid |-> pid, page_cache_dirty |-> FALSE])

\* Mutant: the page in the cache is dropped, not written.
getUnflushed(st, pid) ==
  IF st.heap.cached_pid = pid
    THEN st
    ELSE Cache(st, read_block(st, get_entry(st.heap.directory_buffer, pid).offset), pid)

get_page(st, pid) ==
  IF st.heap.cached_pid = pid
    THEN st
    ELSE LET flushed == FlushCache(st)
             entry == get_entry(st.heap.directory_buffer, pid)
         IN  Cache(flushed, read_block(flushed, entry.offset), pid)

AppendEntry(dir, entry) ==
  [offset |-> dir.offset,
   data |-> [next_directory |-> dir.data.next_directory,
             entries |-> Append(dir.data.entries, entry)]]

LinkTo(dir, off) ==
  [offset |-> dir.offset, data |-> [next_directory |-> off, entries |-> dir.data.entries]]

WithDirectories(st, dirs) ==
  WithHeap(st, [directory_buffer |-> dirs, cached_page |-> st.heap.cached_page,
                cached_pid |-> st.heap.cached_pid,
                page_cache_dirty |-> st.heap.page_cache_dirty])

\* The directories that have room for an entry
Vacant(dirs) == {d \in DOMAIN dirs : ~ is_full(dirs[d])}

\* Mutant: no block is taken for the new directory.
appendUnreserved(st, entry) ==
  LET dirs == st.heap.directory_buffer
      off == EndOfFile(st)
      linked == [dirs EXCEPT ![Len(dirs)] = LinkTo(@, off)]
      new_dir == AppendEntry(init_directory_page(off), entry)
  IN  IF Vacant(dirs) # {}
        THEN WithDirectories(st, [dirs EXCEPT ![First(Vacant(dirs))] = AppendEntry(@, entry)])
        ELSE WithDirectories(st, Append(linked, new_dir))

\* Mutant: the new directory takes the last block of the file, not a new one.
appendOverLast(st, entry) ==
  LET dirs == st.heap.directory_buffer
      off == EndOfFile(st) - 1
      linked == [dirs EXCEPT ![Len(dirs)] = LinkTo(@, off)]
      new_dir == AppendEntry(init_directory_page(off), entry)
  IN  IF Vacant(dirs) # {}
        THEN WithDirectories(st, [dirs EXCEPT ![First(Vacant(dirs))] = AppendEntry(@, entry)])
        ELSE WithDirectories(write_block(st, NewDirectory, off), Append(linked, new_dir))

append_entry(st, entry) ==
  LET dirs == st.heap.directory_buffer
      off == EndOfFile(st)
      linked == [dirs EXCEPT ![Len(dirs)] = LinkTo(@, off)]
      new_dir == AppendEntry(init_directory_page(off), entry)
  IN  IF Vacant(dirs) # {}
        THEN WithDirectories(st, [dirs EXCEPT ![First(Vacant(dirs))] = AppendEntry(@, entry)])
        ELSE WithDirectories(write_block(st, NewDirectory, off), Append(linked, new_dir))

\* The page id that append_entry returns
appended_pid(dirs) ==
  IF Vacant(dirs) # {}
    THEN PageId(First(Vacant(dirs)), Len(dirs[First(Vacant(dirs))].data.entries) + 1)
    ELSE PageId(Len(dirs) + 1, 1)

\* Mutant: the page in the cache is dropped, not written.
allocUnflushed(st) ==
  LET page == init_fixed_len_page
      entry == [offset |-> EndOfFile(st), free_space |-> fixed_len_page_freeslots(page)]
      written == write_block(st, page, entry.offset)
  IN  Cache(append_entry(written, entry), page, appended_pid(st.heap.directory_buffer))

alloc_page(st) ==
  LET page == init_fixed_len_page
      entry == [offset |-> EndOfFile(st), free_space |-> fixed_len_page_freeslots(page)]
      written == write_block(st, page, entry.offset)
  IN  Cache(FlushCache(append_entry(written, entry)), page,
            appended_pid(st.heap.directory_buffer))

SetFreeSpace(dirs, pid, free) ==
  LET dir == dirs[DirNo(pid)]
      entry == [offset |-> get_entry(dirs, pid).offset, free_space |-> free]
      data == [next_directory |-> dir.data.next_directory,
               entries |-> [dir.data.entries EXCEPT ![SlotNo(pid)] = entry]]
  IN  [dirs EXCEPT ![DirNo(pid)] = [offset |-> dir.offset, data |-> data]]

commit_page(st) ==
  LET h == st.heap
      free == fixed_len_page_freeslots(h.cached_page)
  IN  WithHeap(st, [directory_buffer |-> SetFreeSpace(h.directory_buffer, h.cached_pid, free),
                    cached_page |-> h.cached_page, cached_pid |-> h.cached_pid,
                    page_cache_dirty |-> TRUE])

vacant_page_id(dirs) ==
  LET vacant == {d \in DOMAIN dirs : find_free_page(dirs[d]) # -1}
  IN  IF vacant = {}
        THEN -1
        ELSE PageId(First(vacant), find_free_page(dirs[First(vacant)]) + 1)

\* get_free_pid and the get_page that follows it: the free page is cached
FreePage(st) ==
  LET pid == vacant_page_id(st.heap.directory_buffer)
  IN  IF pid = -1 THEN alloc_page(st) ELSE get_page(st, pid)

SetPage(st, page) == WithHeap(st, [st.heap EXCEPT !.cached_page = page])

\* put_record ignores what add_fixed_len_page returns.
put_record(st, rec) ==
  LET got == FreePage(st)
  IN  commit_page(SetPage(got, add_fixed_len_page(got.heap.cached_page, rec)))

get_record(st, pid) == get_page(st, pid)

update_record(st, pid, slot, rec) ==
  LET got == get_page(st, pid)
  IN  commit_page(SetPage(got, write_fixed_len_page(got.heap.cached_page, slot, rec)))

delete_record(st, pid, slot) ==
  LET got == get_page(st, pid)
  IN  commit_page(SetPage(got, delete_fixed_len_page(got.heap.cached_page, slot)))

\* The file once the loop of close_heapfile has written directories 1 .. n.
DirectoriesWritten(dirs, blocks, n) ==
  LET here(o) == {d \in 1 .. n : dirs[d].offset = o - 1}
      latest(o) == CHOOSE d \in here(o) : \A e \in here(o) : e <= d
  IN  [o \in DOMAIN blocks |-> IF here(o) = {} THEN blocks[o] ELSE dirs[latest(o)].data]

\* Mutant: the page in the cache is not written.
closeUnflushed(st) ==
  LET dirs == st.heap.directory_buffer
      file(n) == DirectoriesWritten(dirs, st.disk, n)
  IN  [heap |-> init_heapfile,
       disk |-> file(Len(dirs)),
       was  |-> st.was \cup {file(n) : n \in 0 .. Len(dirs)}]

close_heapfile(st) ==
  LET flushed == FlushCache(st)
      dirs == st.heap.directory_buffer
      file(n) == DirectoriesWritten(dirs, flushed.disk, n)
  IN  [heap |-> init_heapfile,
       disk |-> file(Len(dirs)),
       was  |-> flushed.was \cup {file(n) : n \in 0 .. Len(dirs)}]

create_heapfile ==
  write_block([heap |-> [init_heapfile EXCEPT !.directory_buffer = <<init_directory_page(0)>>],
               disk |-> <<>>,
               was  |-> {<<>>}],
              NewDirectory, 0)

-----------------------------------------------------------------------------
Init ==
  /\ status = "absent"
  /\ offset = 0
  /\ heap = init_heapfile
  /\ disk = <<>>

\* The state in which a call begins.
Now == [heap |-> heap, disk |-> disk, was |-> {disk}]

\* A call that runs to its end.
Run(st) == heap' = st.heap /\ disk' = st.disk

\* The record ids of the allocated pages
Rids ==
  {pid \in 0 .. Len(heap.directory_buffer) * DirCapacity - 1 :
     Allocated(heap.directory_buffer, pid)} \X Slots

\* No put is started that would grow the file beyond MaxBlocks.
Bounded == vacant_page_id(heap.directory_buffer) # -1 \/ Len(disk) + 2 <= MaxBlocks

Create ==
  /\ status \in {"absent", "closed"}
  /\ status' = "open"
  /\ Run(create_heapfile)
  /\ UNCHANGED offset

Open ==
  /\ status = "closed"
  /\ status' = "opening"
  /\ offset' = 0
  /\ UNCHANGED <<heap, disk>>

\* Mutant: an empty directory is skipped without going on to the next one.
ReadNonemptyDirectory ==
  /\ status = "opening"
  /\ UNCHANGED disk
  /\ IF offset < Len(disk)
       THEN LET dir == [offset |-> offset, data |-> read_block(Now, offset)]
            IN  /\ dir.data.entries # <<>>
                /\ heap' = [heap EXCEPT !.directory_buffer = Append(@, dir)]
                /\ offset' = dir.data.next_directory
                /\ status' = IF offset' = 0 THEN "open" ELSE "opening"
       ELSE /\ heap' = init_heapfile
            /\ offset' = 0
            /\ status' = "closed"

\* One round of the loop of open_heapfile; read_block exits on a short read.
ReadDirectory ==
  /\ status = "opening"
  /\ UNCHANGED disk
  /\ IF offset < Len(disk)
       THEN LET dir == [offset |-> offset, data |-> read_block(Now, offset)]
            IN  /\ heap' = [heap EXCEPT !.directory_buffer = Append(@, dir)]
                /\ offset' = dir.data.next_directory
                /\ status' = IF offset' = 0 THEN "open" ELSE "opening"
       ELSE /\ heap' = init_heapfile
            /\ offset' = 0
            /\ status' = "closed"

InCall == status = "open" /\ UNCHANGED <<status, offset>>

Put(rec) == InCall /\ Bounded /\ Run(put_record(Now, rec))

Get(rid) == InCall /\ Run(get_record(Now, rid[1]))

Update(rid, rec) == InCall /\ Run(update_record(Now, rid[1], rid[2], rec))

Delete(rid) == InCall /\ Run(delete_record(Now, rid[1], rid[2]))

Close ==
  /\ status = "open"
  /\ status' = "closed"
  /\ Run(close_heapfile(Now))
  /\ UNCHANGED offset

Next ==
  \/ Create
  \/ Open
  \/ ReadDirectory
  \/ \E rec \in Record : Put(rec)
  \/ \E rid \in Rids : Get(rid)
  \/ \E rid \in Rids, rec \in Record : Update(rid, rec)
  \/ \E rid \in Rids : Delete(rid)
  \/ Close

\* The calls during which the process may die, as the states they lead to.
Interrupted ==
  CASE status = "open" ->
         {close_heapfile(Now)}
           \cup (IF Bounded THEN {put_record(Now, rec) : rec \in Record} ELSE {})
           \cup {get_record(Now, rid[1]) : rid \in Rids}
           \cup {update_record(Now, rid[1], rid[2], rec) : rid \in Rids, rec \in Record}
           \cup {delete_record(Now, rid[1], rid[2]) : rid \in Rids}
    [] status = "opening" -> {Now}
    [] OTHER -> {create_heapfile}

\* The process dies between two calls, or in a call between two of its writes:
\* what it had in memory is lost.
Crash ==
  /\ \E st \in Interrupted : disk' \in st.was
  /\ status' = "closed"
  /\ heap' = init_heapfile
  /\ offset' = 0

\* open_heapfile is straight-line code: its loop is not left waiting.
Fairness == WF_vars(ReadDirectory)

Spec == Init /\ [][Next]_vars /\ Fairness

CrashSpec == Init /\ [][Next \/ Crash]_vars /\ Fairness

-----------------------------------------------------------------------------
Entry == [offset : Nat, free_space : 0 .. Capacity]

DirectoryData ==
  {data \in [next_directory : Nat, entries : Seq(Entry)] : Len(data.entries) <= DirCapacity}

Directory == [offset : Nat, data : DirectoryData]

HeapStructure ==
  [directory_buffer : Seq(Directory), cached_page : Page,
   cached_pid : Nat \cup {-1}, page_cache_dirty : BOOLEAN]

Block == Page \cup DirectoryData

TypeOK ==
  /\ status \in {"absent", "closed", "opening", "open"}
  /\ offset \in Nat
  /\ heap \in HeapStructure
  /\ disk \in Seq(Block)

\* The content of an allocated page: the cached copy if there is one.
PageOf(h, blocks, pid) ==
  IF h.cached_pid = pid THEN h.cached_page ELSE blocks[get_entry(h.directory_buffer, pid).offset + 1]

\* commit_page keeps the free_space of every directory entry equal to the number
\* of free slots of the page it describes, across eviction, close and reopening.
FreeSpaceAccurate ==
  status = "open" =>
    \A rid \in Rids :
      get_entry(heap.directory_buffer, rid[1]).free_space
        = fixed_len_page_freeslots(PageOf(heap, disk, rid[1]))

\* What the comment in get_free_pid says of vacant_page_id: "return pid with a
\* vacant slot or -1 if none available".  put_record relies on it: it ignores
\* the -1 that add_fixed_len_page returns when the page is full.
VacantPageHasSlot ==
  LET pid == vacant_page_id(heap.directory_buffer)
  IN  (status = "open" /\ pid # -1) => Filled(PageOf(heap, disk, pid)) # Slots

\* No two blocks of an open heap file share an offset: neither two pages, nor a
\* page and a directory, although both are placed at the end of the file, and
\* the directories in memory are linked in the order of the buffer.
BlocksDistinct ==
  status = "open" =>
    LET dirs == heap.directory_buffer
        pids == {rid[1] : rid \in Rids}
    IN  /\ \A p, q \in pids : get_entry(dirs, p).offset = get_entry(dirs, q).offset => p = q
        /\ \A p \in pids, d \in DOMAIN dirs : get_entry(dirs, p).offset # dirs[d].offset
        /\ \A d \in DOMAIN dirs :
             dirs[d].data.next_directory = IF d = Len(dirs) THEN 0 ELSE dirs[d + 1].offset

\* open_heapfile comes to the end of the directory chain.
OpenReturns == status = "opening" ~> status \in {"open", "closed"}

=============================================================================
