--------------------------- MODULE Heapfile_proofs ---------------------------
(***************************************************************************)
(* The directory of a heap file that is not killed is accurate, for every  *)
(* page capacity, directory capacity and set of records.                   *)
(***************************************************************************)
EXTENDS Heapfile, FiniteSetTheorems, NumberFacts

USE SMTT(30), ZenonT(30)

\* The upward searches of page.cpp, directory.cpp and heapfile.cpp return the
\* smallest element of what they search.
LEMMA FirstIsLeast ==
  ASSUME NEW S, S \subseteq Nat, S # {}
  PROVE  First(S) \in S /\ \A t \in S : First(S) <= t
<1>1. \E s \in S : \A t \in S : s <= t
  BY LeastElement, Zenon
<1> QED BY <1>1, Zenon DEF First

\* The slots of a page, and the number of them that are free.
LEMMA FreeSlots ==
  ASSUME NEW p \in Page
  PROVE  /\ fixed_len_page_freeslots(p) \in 0 .. Capacity
         /\ fixed_len_page_freeslots(p) > 0 => Slots \ Filled(p) # {}
<1>1. IsFiniteSet(Slots) /\ Cardinality(Slots) = Capacity
  BY CapacityAssumption, FS_Interval DEF Slots
<1>2. Filled(p) \in SUBSET Slots
  BY DEF Filled
<1>3. IsFiniteSet(Filled(p)) /\ Cardinality(Filled(p)) <= Cardinality(Slots)
  BY <1>1, <1>2, FS_Subset
<1>4. Cardinality(Filled(p)) \in Nat
  BY <1>3, FS_CardinalityType
<1>5. Filled(p) = Slots => fixed_len_page_freeslots(p) = 0
  BY <1>1, CapacityAssumption DEF fixed_len_page_freeslots
<1>6. fixed_len_page_freeslots(p) \in 0 .. Capacity
  BY <1>1, <1>3, <1>4, CapacityAssumption DEF fixed_len_page_freeslots
<1>7. Slots \ Filled(p) = {} => Filled(p) = Slots
  BY <1>2
<1> QED BY <1>5, <1>6, <1>7

\* The calls of page.h lead from pages to pages.
LEMMA PageCalls ==
  /\ init_fixed_len_page \in Page
  /\ \A p \in Page, s \in Slots, r \in Record : write_fixed_len_page(p, s, r) \in Page
  /\ \A p \in Page, s \in Slots : delete_fixed_len_page(p, s) \in Page
  /\ \A p \in Page, r \in Record : add_fixed_len_page(p, r) \in Page
<1>1. init_fixed_len_page \in Page
  BY DEF init_fixed_len_page, Page
<1>2. /\ \A p \in Page, s \in Slots, r \in Record : write_fixed_len_page(p, s, r) \in Page
      /\ \A p \in Page, s \in Slots : delete_fixed_len_page(p, s) \in Page
  BY DEF write_fixed_len_page, delete_fixed_len_page, Page
<1>3. ASSUME NEW p \in Page, NEW r \in Record
      PROVE  add_fixed_len_page(p, r) \in Page
  <2> DEFINE free == Slots \ Filled(p)
  <2>1. CASE free = {}
    BY <2>1 DEF add_fixed_len_page
  <2>2. CASE free # {}
    <3>1. First(free) \in Slots
      BY <2>2, FirstIsLeast, CapacityAssumption DEF Slots
    <3> QED BY <2>2, <3>1, <1>2 DEF add_fixed_len_page
  <2> QED BY <2>1, <2>2
<1> QED BY <1>1, <1>2, <1>3

-----------------------------------------------------------------------------
\* The arithmetic of page ids: directory and slot determine the id and back.
LEMMA PageIds ==
  /\ \A d \in Nat \ {0}, k \in 1 .. DirCapacity :
       PageId(d, k) \in Nat /\ DirNo(PageId(d, k)) = d /\ SlotNo(PageId(d, k)) = k
  /\ \A p \in Nat : DirNo(p) \in Nat \ {0} /\ SlotNo(p) \in 1 .. DirCapacity
  /\ \A p, q \in Nat : DirNo(p) = DirNo(q) /\ SlotNo(p) = SlotNo(q) => p = q
<1>1. ASSUME NEW d \in Nat \ {0}, NEW k \in 1 .. DirCapacity
      PROVE  PageId(d, k) \in Nat /\ DirNo(PageId(d, k)) = d /\ SlotNo(PageId(d, k)) = k
  BY DirCapacityAssumption, Z3 DEF PageId, DirNo, SlotNo
<1>2. ASSUME NEW p \in Nat
      PROVE  DirNo(p) \in Nat \ {0} /\ SlotNo(p) \in 1 .. DirCapacity
  BY DirCapacityAssumption, Z3 DEF DirNo, SlotNo
<1>3. ASSUME NEW p \in Nat, NEW q \in Nat, DirNo(p) = DirNo(q), SlotNo(p) = SlotNo(q)
      PROVE  p = q
  BY <1>3, DirCapacityAssumption, Z3 DEF DirNo, SlotNo
<1> QED BY <1>1, <1>2, <1>3

-----------------------------------------------------------------------------
(***************************************************************************)
(* The inductive invariant.  Structure is about the directories in memory  *)
(* and the blocks of the file, Cached about the page in memory, and        *)
(* Accurate is what is to be shown: the free_space of every entry.         *)
(***************************************************************************)
Dirs == Seq(Directory)

State == [heap : HeapStructure, disk : Seq(Block), was : SUBSET Seq(Block)]

DirectoriesLinked(dirs, blocks) ==
  /\ Len(dirs) > 0 /\ dirs[1].offset = 0
  /\ \A d \in DOMAIN dirs :
       /\ dirs[d].offset < Len(blocks)
       /\ d < Len(dirs) => is_full(dirs[d])
       /\ dirs[d].data.next_directory = IF d = Len(dirs) THEN 0 ELSE dirs[d + 1].offset
  /\ \A d, e \in DOMAIN dirs : dirs[d].offset = dirs[e].offset => d = e

PagesPlaced(dirs, blocks) ==
  /\ \A p \in Nat : Allocated(dirs, p) =>
       /\ get_entry(dirs, p).offset < Len(blocks)
       /\ blocks[get_entry(dirs, p).offset + 1] \in Page
       /\ \A d \in DOMAIN dirs : get_entry(dirs, p).offset # dirs[d].offset
  /\ \A p, q \in Nat :
       Allocated(dirs, p) /\ Allocated(dirs, q)
         /\ get_entry(dirs, p).offset = get_entry(dirs, q).offset => p = q

Structure(dirs, blocks) ==
  /\ dirs \in Dirs /\ blocks \in Seq(Block)
  /\ DirectoriesLinked(dirs, blocks)
  /\ PagesPlaced(dirs, blocks)

Cached(h, blocks) ==
  /\ IF h.cached_pid = -1 THEN ~ h.page_cache_dirty
                          ELSE Allocated(h.directory_buffer, h.cached_pid)
  /\ h.cached_pid # -1 /\ ~ h.page_cache_dirty =>
       h.cached_page = blocks[get_entry(h.directory_buffer, h.cached_pid).offset + 1]

Accurate(h, blocks) ==
  \A p \in Nat : Allocated(h.directory_buffer, p) =>
    get_entry(h.directory_buffer, p).free_space
      = fixed_len_page_freeslots(PageOf(h, blocks, p))

Consistent(h, blocks) ==
  /\ h \in HeapStructure
  /\ Structure(h.directory_buffer, blocks)
  /\ Cached(h, blocks)

\* The page pid is in the cache of g, a new and empty page unless st had it, and
\* the other pages are those of st.
Fetched(st, g, pid) ==
  /\ \A p \in Nat : Allocated(g.heap.directory_buffer, p)
                     <=> Allocated(st.heap.directory_buffer, p) \/ p = pid
  /\ \A p \in Nat : Allocated(st.heap.directory_buffer, p) =>
       PageOf(g.heap, g.disk, p) = PageOf(st.heap, st.disk, p)
  /\ g.heap.cached_pid = pid
  /\ ~ Allocated(st.heap.directory_buffer, pid) => g.heap.cached_page = init_fixed_len_page
  /\ Accurate(st.heap, st.disk) => Accurate(g.heap, g.disk)

\* The entry of an allocated page.
LEMMA EntryType ==
  ASSUME NEW dirs \in Dirs, NEW p \in Nat, Allocated(dirs, p)
  PROVE  /\ DirNo(p) \in 1 .. Len(dirs)
         /\ dirs[DirNo(p)] \in Directory
         /\ SlotNo(p) \in 1 .. Len(dirs[DirNo(p)].data.entries)
         /\ get_entry(dirs, p) \in Entry
<1>1. DirNo(p) \in 1 .. Len(dirs) /\ dirs[DirNo(p)] \in Directory
  BY DEF Allocated, Dirs
<1>2. dirs[DirNo(p)].data.entries \in Seq(Entry)
  BY <1>1 DEF Directory, DirectoryData
<1>3. SlotNo(p) \in 1 .. Len(dirs[DirNo(p)].data.entries)
  BY <1>2 DEF Allocated
<1>4. get_entry(dirs, p) \in Entry
  BY <1>2, <1>3 DEF get_entry
<1> QED BY <1>1, <1>3, <1>4

\* The directories of a buffer.
LEMMA DirectoryType ==
  ASSUME NEW dirs \in Dirs
  PROVE  /\ Len(dirs) \in Nat /\ DOMAIN dirs = 1 .. Len(dirs)
         /\ \A d \in DOMAIN dirs : /\ dirs[d] \in Directory
                                   /\ dirs[d].offset \in Nat
                                   /\ dirs[d].data \in DirectoryData
<1>1. Len(dirs) \in Nat /\ DOMAIN dirs = 1 .. Len(dirs)
  BY DEF Dirs
<1>2. \A d \in DOMAIN dirs : dirs[d] \in Directory
  BY <1>1 DEF Dirs
<1>3. \A dir \in Directory : dir.offset \in Nat /\ dir.data \in DirectoryData
  BY DEF Directory
<1> QED BY <1>1, <1>2, <1>3

\* Writing out the cached page leaves every page on disk as it is in memory.
LEMMA FlushWritesPage ==
  ASSUME NEW st \in State, Consistent(st.heap, st.disk)
  PROVE  LET f == FlushCache(st)
             dirs == st.heap.directory_buffer
         IN  /\ f \in State
             /\ f.heap = st.heap
             /\ Len(f.disk) = Len(st.disk)
             /\ Structure(dirs, f.disk)
             /\ \A p \in Nat : Allocated(dirs, p) =>
                  f.disk[get_entry(dirs, p).offset + 1] = PageOf(st.heap, st.disk, p)
<1> DEFINE f == FlushCache(st)
           dirs == st.heap.directory_buffer
           pid == st.heap.cached_pid
           off == get_entry(dirs, pid).offset
<1>1. st.heap \in HeapStructure /\ st.disk \in Seq(Block) /\ st.was \in SUBSET Seq(Block)
  BY DEF State
<1>2. dirs \in Dirs /\ st.heap.cached_page \in Page
  BY <1>1 DEF HeapStructure, Dirs
<1>3. CASE ~ st.heap.page_cache_dirty
  <2>1. f = st
    BY <1>3 DEF FlushCache
  <2>2. ASSUME NEW p \in Nat, Allocated(dirs, p)
        PROVE  st.disk[get_entry(dirs, p).offset + 1] = PageOf(st.heap, st.disk, p)
    BY <2>2, <1>3 DEF PageOf, Consistent, Cached
  <2> QED BY <2>1, <2>2 DEF Consistent
<1>4. CASE st.heap.page_cache_dirty
  <2> DEFINE written == [st.disk EXCEPT ![off + 1] = st.heap.cached_page]
  <2>1. pid \in Nat /\ Allocated(dirs, pid)
    BY <1>1, <1>4 DEF Consistent, Cached, HeapStructure
  <2>2. off \in Nat /\ off < Len(st.disk)
    BY <2>1, <1>2, EntryType DEF Consistent, Structure, PagesPlaced, Entry
  <2>3. written \in Seq(Block) /\ Len(written) = Len(st.disk)
    BY <1>1, <1>2, <2>2 DEF Block
  <2>4. f = [heap |-> st.heap, disk |-> written, was |-> st.was \cup {written}]
    <3>1. off # Len(st.disk)
      BY <2>2, <1>1
    <3>2. f = write_block(st, st.heap.cached_page, off)
      BY <1>4 DEF FlushCache
    <3> HIDE DEF off, f
    <3> QED BY <3>1, <3>2, Zenon DEF write_block
  <2>5. f \in State /\ f.heap = st.heap /\ f.disk = written
    BY <2>3, <2>4, <1>1 DEF State
  <2>6. ASSUME NEW p \in Nat, Allocated(dirs, p)
        PROVE  written[get_entry(dirs, p).offset + 1] = PageOf(st.heap, st.disk, p)
    <3>1. get_entry(dirs, p).offset \in Nat /\ get_entry(dirs, p).offset < Len(st.disk)
      BY <2>6, <1>2, EntryType DEF Consistent, Structure, PagesPlaced, Entry
    <3>2. get_entry(dirs, p).offset = off => p = pid
      BY <2>1, <2>6 DEF Consistent, Structure, PagesPlaced
    <3> QED BY <3>1, <3>2, <2>2, <1>1 DEF PageOf
  <2>7. PagesPlaced(dirs, written)
    BY <2>3, <2>6, <1>2 DEF Consistent, Structure, PagesPlaced, PageOf
  <2>8. DirectoriesLinked(dirs, written)
    BY <2>3 DEF Consistent, Structure, DirectoriesLinked
  <2>9. Structure(dirs, written)
    BY <1>2, <2>3, <2>7, <2>8 DEF Structure
  <2> QED BY <2>3, <2>5, <2>6, <2>9
<1>5. st.heap.page_cache_dirty \in BOOLEAN
  BY <1>1 DEF HeapStructure
<1> QED BY <1>3, <1>4, <1>5

\* get_page, on a hit and on a miss, caches the page and changes no page.
LEMMA GetPageConsistent ==
  ASSUME NEW st \in State, Consistent(st.heap, st.disk), NEW pid \in Nat,
         Allocated(st.heap.directory_buffer, pid)
  PROVE  LET g == get_page(st, pid)
         IN  /\ g \in State
             /\ Consistent(g.heap, g.disk)
             /\ Fetched(st, g, pid)
             /\ g.heap.directory_buffer = st.heap.directory_buffer
             /\ Len(g.disk) = Len(st.disk)
<1> DEFINE g == get_page(st, pid)
           f == FlushCache(st)
           dirs == st.heap.directory_buffer
           page == f.disk[get_entry(dirs, pid).offset + 1]
<1>1. CASE st.heap.cached_pid = pid
  BY <1>1 DEF get_page, Fetched
<1>2. CASE st.heap.cached_pid # pid
  <2>1. /\ f \in State /\ f.heap = st.heap /\ Len(f.disk) = Len(st.disk)
        /\ Structure(dirs, f.disk)
        /\ \A p \in Nat : Allocated(dirs, p) =>
             f.disk[get_entry(dirs, p).offset + 1] = PageOf(st.heap, st.disk, p)
    BY FlushWritesPage
  <2> HIDE DEF f
  <2> DEFINE h == [directory_buffer |-> dirs, cached_page |-> page,
                   cached_pid |-> pid, page_cache_dirty |-> FALSE]
  <2>2. g = [heap |-> h, disk |-> f.disk, was |-> f.was]
    BY <1>2, <2>1 DEF get_page, Cache, WithHeap, read_block, f
  <2>3. page \in Page
    BY <2>1 DEF Structure, PagesPlaced
  <2>4. dirs \in Seq(Directory)
    BY DEF State, HeapStructure
  <2>5. h \in HeapStructure
    BY <2>3, <2>4 DEF HeapStructure
  <2>6. f.disk \in Seq(Block) /\ f.was \in SUBSET Seq(Block)
    BY <2>1 DEF State
  <2>7. g \in State
    BY <2>2, <2>5, <2>6 DEF State
  <2>8. Cached(h, f.disk)
    BY DEF Cached
  <2>9. Consistent(h, f.disk)
    BY <2>1, <2>5, <2>8 DEF Consistent
  <2> HIDE DEF h, g
  <2>10. g.heap = h /\ g.disk = f.disk
    BY <2>2
  <2>11. h.cached_pid = pid /\ h.directory_buffer = dirs /\ h.cached_page = page
    BY DEF h
  <2>12. \A p \in Nat : Allocated(dirs, p) =>
           PageOf(h, f.disk, p) = PageOf(st.heap, st.disk, p)
    BY <2>1, <2>11 DEF PageOf
  <2>13. Accurate(st.heap, st.disk) => Accurate(h, f.disk)
    BY <2>11, <2>12 DEF Accurate
  <2>14. Fetched(st, g, pid)
    BY <2>10, <2>11, <2>12, <2>13 DEF Fetched
  <2> QED BY <2>1, <2>7, <2>9, <2>10, <2>11, <2>14 DEF g
<1> QED BY <1>1, <1>2

-----------------------------------------------------------------------------
\* commit_page changes one number of one entry.
LEMMA SetFreeSpaceEffect ==
  ASSUME NEW dirs \in Dirs, NEW pid \in Nat, Allocated(dirs, pid), NEW free \in 0 .. Capacity
  PROVE  LET new == SetFreeSpace(dirs, pid, free)
         IN  /\ new \in Dirs
             /\ Len(new) = Len(dirs) /\ DOMAIN new = DOMAIN dirs
             /\ \A d \in DOMAIN dirs :
                  /\ new[d].offset = dirs[d].offset
                  /\ new[d].data.next_directory = dirs[d].data.next_directory
                  /\ Len(new[d].data.entries) = Len(dirs[d].data.entries)
             /\ \A p \in Nat : Allocated(new, p) <=> Allocated(dirs, p)
             /\ \A p \in Nat : Allocated(dirs, p) =>
                  /\ get_entry(new, p).offset = get_entry(dirs, p).offset
                  /\ get_entry(new, p).free_space
                       = IF p = pid THEN free ELSE get_entry(dirs, p).free_space
<1> DEFINE n == DirNo(pid)
           k == SlotNo(pid)
           dir == dirs[n]
           entry == [offset |-> get_entry(dirs, pid).offset, free_space |-> free]
           entries == [dir.data.entries EXCEPT ![k] = entry]
           changed == [offset |-> dir.offset,
                       data |-> [next_directory |-> dir.data.next_directory,
                                 entries |-> entries]]
           new == SetFreeSpace(dirs, pid, free)
<1>1. /\ n \in 1 .. Len(dirs) /\ dir \in Directory
      /\ k \in 1 .. Len(dir.data.entries) /\ get_entry(dirs, pid) \in Entry
  BY EntryType
<1>2. new = [dirs EXCEPT ![n] = changed]
  BY DEF SetFreeSpace
<1>3. entry \in Entry
  BY <1>1 DEF Entry
<1>4. /\ dir.offset \in Nat /\ dir.data.next_directory \in Nat
      /\ dir.data.entries \in Seq(Entry) /\ Len(dir.data.entries) <= DirCapacity
  BY <1>1 DEF Directory, DirectoryData
<1> HIDE DEF entry
<1>5. entries \in Seq(Entry) /\ Len(entries) = Len(dir.data.entries)
  BY <1>1, <1>3, <1>4
<1> HIDE DEF entries
<1>6. changed \in Directory
  BY <1>4, <1>5 DEF Directory, DirectoryData
<1>7. /\ changed.offset = dir.offset
      /\ changed.data.next_directory = dir.data.next_directory
      /\ changed.data.entries = entries
  OBVIOUS
<1> HIDE DEF new, changed
<1>8. new \in Dirs /\ Len(new) = Len(dirs) /\ DOMAIN new = DOMAIN dirs
  BY <1>1, <1>2, <1>6 DEF Dirs
<1>9. \A d \in DOMAIN dirs : new[d] = IF d = n THEN changed ELSE dirs[d]
  BY <1>2 DEF Dirs
<1>10. ASSUME NEW d \in DOMAIN dirs
       PROVE  /\ new[d].offset = dirs[d].offset
              /\ new[d].data.next_directory = dirs[d].data.next_directory
              /\ Len(new[d].data.entries) = Len(dirs[d].data.entries)
              /\ DOMAIN new[d].data.entries = DOMAIN dirs[d].data.entries
  <2>1. DOMAIN entries = DOMAIN dir.data.entries
    BY DEF entries
  <2> QED BY <2>1, <1>5, <1>7, <1>9
<1>11. \A p \in Nat : Allocated(new, p) <=> Allocated(dirs, p)
  BY <1>8, <1>10 DEF Allocated
<1>12. ASSUME NEW p \in Nat, Allocated(dirs, p)
       PROVE  /\ get_entry(new, p).offset = get_entry(dirs, p).offset
              /\ get_entry(new, p).free_space
                   = IF p = pid THEN free ELSE get_entry(dirs, p).free_space
  <2>1. DirNo(p) \in DOMAIN dirs /\ SlotNo(p) \in DOMAIN dirs[DirNo(p)].data.entries
    BY <1>12 DEF Allocated
  <2>2. CASE DirNo(p) # n
    BY <2>1, <2>2, <1>9 DEF get_entry
  <2>3. CASE DirNo(p) = n /\ SlotNo(p) # k
    <3>1. get_entry(new, p) = entries[SlotNo(p)]
      BY <2>1, <2>3, <1>7, <1>9 DEF get_entry
    <3>2. get_entry(new, p) = get_entry(dirs, p)
      BY <3>1, <2>1, <2>3, <1>4 DEF get_entry, entries
    <3> QED BY <3>2, <2>3
  <2>4. CASE DirNo(p) = n /\ SlotNo(p) = k
    <3>1. p = pid
      BY <2>4, PageIds
    <3>2. get_entry(new, p) = entries[k]
      BY <2>1, <2>4, <1>7, <1>9 DEF get_entry
    <3>3. get_entry(new, p) = entry
      BY <3>2, <1>1, <1>4 DEF entries
    <3> QED BY <3>1, <3>3 DEF entry
  <2> QED BY <2>2, <2>3, <2>4
<1> QED BY <1>8, <1>10, <1>11, <1>12 DEF new

\* The page pid is now `page`, and the other pages are those of st.
Written(st, r, pid, page) ==
  /\ \A p \in Nat : Allocated(r.heap.directory_buffer, p)
                     <=> Allocated(st.heap.directory_buffer, p) \/ p = pid
  /\ \A p \in Nat : Allocated(r.heap.directory_buffer, p) =>
       PageOf(r.heap, r.disk, p) = IF p = pid THEN page ELSE PageOf(st.heap, st.disk, p)
  /\ Accurate(st.heap, st.disk) => Accurate(r.heap, r.disk)

\* commit_page, after the cached page has been changed, records its free slots.
LEMMA CommitConsistent ==
  ASSUME NEW st \in State, Consistent(st.heap, st.disk), st.heap.cached_pid # -1,
         NEW page \in Page
  PROVE  LET c == commit_page(SetPage(st, page))
         IN  /\ c \in State /\ Consistent(c.heap, c.disk)
             /\ Written(st, c, st.heap.cached_pid, page)
             /\ c.disk = st.disk
<1> DEFINE dirs == st.heap.directory_buffer
           pid == st.heap.cached_pid
           free == fixed_len_page_freeslots(page)
           new == SetFreeSpace(dirs, pid, free)
           h == [directory_buffer |-> new, cached_page |-> page, cached_pid |-> pid,
                 page_cache_dirty |-> TRUE]
           c == commit_page(SetPage(st, page))
<1>1. st.heap \in HeapStructure /\ st.disk \in Seq(Block) /\ st.was \in SUBSET Seq(Block)
  BY DEF State
<1>2. SetPage(st, page).heap = [st.heap EXCEPT !.cached_page = page]
      /\ SetPage(st, page).disk = st.disk /\ SetPage(st, page).was = st.was
  BY DEF SetPage, WithHeap
<1>3. /\ [st.heap EXCEPT !.cached_page = page].directory_buffer = dirs
      /\ [st.heap EXCEPT !.cached_page = page].cached_page = page
      /\ [st.heap EXCEPT !.cached_page = page].cached_pid = pid
  BY <1>1 DEF HeapStructure
<1>4. c = [heap |-> h, disk |-> st.disk, was |-> st.was]
  BY <1>2, <1>3, Zenon DEF commit_page, WithHeap
<1>5. dirs \in Dirs /\ pid \in Nat /\ Allocated(dirs, pid)
  BY <1>1 DEF Consistent, Cached, HeapStructure, Dirs
<1>6. free \in 0 .. Capacity
  BY FreeSlots
<1>7. /\ new \in Dirs
      /\ Len(new) = Len(dirs) /\ DOMAIN new = DOMAIN dirs
      /\ \A d \in DOMAIN dirs :
           /\ new[d].offset = dirs[d].offset
           /\ new[d].data.next_directory = dirs[d].data.next_directory
           /\ Len(new[d].data.entries) = Len(dirs[d].data.entries)
      /\ \A p \in Nat : Allocated(new, p) <=> Allocated(dirs, p)
      /\ \A p \in Nat : Allocated(dirs, p) =>
           /\ get_entry(new, p).offset = get_entry(dirs, p).offset
           /\ get_entry(new, p).free_space
                = IF p = pid THEN free ELSE get_entry(dirs, p).free_space
  <2> HIDE DEF dirs, pid, free
  <2> QED BY <1>5, <1>6, SetFreeSpaceEffect, Zenon
<1> HIDE DEF new, free
<1>8. h \in HeapStructure
  BY <1>5, <1>7 DEF HeapStructure, Dirs
<1>9. DirectoriesLinked(new, st.disk)
  <2>1. DirectoriesLinked(dirs, st.disk)
    BY DEF Consistent, Structure
  <2>2. dirs \in Dirs /\ 1 \in DOMAIN dirs /\ \A d \in DOMAIN dirs : d # Len(dirs) => d + 1 \in DOMAIN dirs
    BY <1>5, <2>1 DEF Dirs, DirectoriesLinked
  <2> QED BY <2>1, <2>2, <1>7, ZenonT(30) DEF DirectoriesLinked, is_full
<1>10. PagesPlaced(new, st.disk)
  <2>1. PagesPlaced(dirs, st.disk)
    BY DEF Consistent, Structure
  <2> QED BY <2>1, <1>7 DEF PagesPlaced
<1>11. Structure(new, st.disk)
  BY <1>1, <1>7, <1>9, <1>10 DEF Structure
<1>12. Cached(h, st.disk)
  BY <1>5, <1>7 DEF Cached
<1>13. \A p \in Nat : Allocated(new, p) =>
         PageOf(h, st.disk, p) = IF p = pid THEN page ELSE PageOf(st.heap, st.disk, p)
  BY <1>7 DEF PageOf
<1>14. ASSUME Accurate(st.heap, st.disk) PROVE Accurate(h, st.disk)
  <2> SUFFICES ASSUME NEW p \in Nat, Allocated(new, p)
               PROVE  get_entry(new, p).free_space
                        = fixed_len_page_freeslots(PageOf(h, st.disk, p))
    BY Zenon DEF Accurate
  <2>1. Allocated(dirs, p)
    BY <1>7
  <2>2. CASE p = pid
    BY <2>1, <2>2, <1>7, <1>13, Zenon DEF free
  <2>3. CASE p # pid
    BY <2>1, <2>3, <1>7, <1>13, <1>14, Zenon DEF Accurate
  <2> QED BY <2>2, <2>3
<1> HIDE DEF h, c
<1>15. c.heap = h /\ c.disk = st.disk /\ c \in State
  BY <1>1, <1>4, <1>8 DEF State
<1>16. h.directory_buffer = new
  BY DEF h
<1>17. Consistent(h, st.disk)
  BY <1>8, <1>11, <1>12, <1>16 DEF Consistent
<1>18. Written(st, c, pid, page)
  BY <1>5, <1>7, <1>13, <1>14, <1>15, <1>16 DEF Written
<1> QED BY <1>15, <1>17, <1>18 DEF c

-----------------------------------------------------------------------------
(***************************************************************************)
(* Appending an entry.  Added says what append_entry does to the           *)
(* directories, whether or not it makes a new one.                         *)
(***************************************************************************)
Added(dirs, new, pid, entry) ==
  /\ new \in Dirs
  /\ pid \in Nat /\ ~ Allocated(dirs, pid) /\ Allocated(new, pid)
  /\ get_entry(new, pid) = entry
  /\ \A p \in Nat : Allocated(new, p) /\ p # pid => Allocated(dirs, p)
  /\ \A p \in Nat : Allocated(dirs, p) =>
       Allocated(new, p) /\ get_entry(new, p) = get_entry(dirs, p)

\* Only the last directory can have room.
LEMMA VacantIsLast ==
  ASSUME NEW dirs \in Dirs, NEW blocks, DirectoriesLinked(dirs, blocks)
  PROVE  /\ DOMAIN dirs = 1 .. Len(dirs) /\ Len(dirs) \in Nat \ {0}
         /\ Vacant(dirs) # {} => First(Vacant(dirs)) = Len(dirs) /\ ~ is_full(dirs[Len(dirs)])
         /\ Vacant(dirs) = {} => is_full(dirs[Len(dirs)])
<1>1. DOMAIN dirs = 1 .. Len(dirs) /\ Len(dirs) \in Nat \ {0}
  BY DEF Dirs, DirectoriesLinked
<1>2. Vacant(dirs) \subseteq {Len(dirs)}
  BY <1>1 DEF Vacant, DirectoriesLinked
<1>3. Vacant(dirs) # {} => First(Vacant(dirs)) \in Vacant(dirs)
  BY <1>1, FirstIsLeast DEF Vacant
<1> QED BY <1>1, <1>2, <1>3 DEF Vacant

\* An entry appended to the last directory.
LEMMA AddedInPlace ==
  ASSUME NEW dirs \in Dirs, Len(dirs) > 0, ~ is_full(dirs[Len(dirs)]), NEW entry \in Entry
  PROVE  LET n == Len(dirs)
             new == [dirs EXCEPT ![n] = AppendEntry(@, entry)]
         IN  /\ Added(dirs, new, PageId(n, Len(dirs[n].data.entries) + 1), entry)
             /\ Len(new) = n /\ DOMAIN new = DOMAIN dirs
             /\ \A d \in DOMAIN dirs :
                  /\ new[d].offset = dirs[d].offset
                  /\ new[d].data.next_directory = dirs[d].data.next_directory
                  /\ Len(dirs[d].data.entries) <= Len(new[d].data.entries)
                  /\ d # n => new[d] = dirs[d]
<1> DEFINE n == Len(dirs)
           dir == dirs[n]
           len == Len(dir.data.entries)
           longer == Append(dir.data.entries, entry)
           grown == AppendEntry(dir, entry)
           new == [dirs EXCEPT ![n] = AppendEntry(@, entry)]
           pid == PageId(n, len + 1)
<1>1. n \in Nat \ {0} /\ DOMAIN dirs = 1 .. n /\ dir \in Directory
  BY DEF Dirs
<1>2. /\ dir.offset \in Nat /\ dir.data.next_directory \in Nat
      /\ dir.data.entries \in Seq(Entry) /\ len <= DirCapacity
  BY <1>1 DEF Directory, DirectoryData
<1>3. len \in Nat /\ len + 1 \in 1 .. DirCapacity
  BY <1>2, DirCapacityAssumption DEF is_full
<1>4. /\ longer \in Seq(Entry) /\ Len(longer) = len + 1
      /\ DOMAIN longer = 1 .. len + 1 /\ DOMAIN dir.data.entries = 1 .. len
      /\ longer[len + 1] = entry
      /\ \A k \in 1 .. len : longer[k] = dir.data.entries[k]
  BY <1>2
<1> HIDE DEF longer
<1>5. grown.offset = dir.offset /\ grown.data.next_directory = dir.data.next_directory
      /\ grown.data.entries = longer
  BY DEF AppendEntry, longer
<1>6. grown \in Directory
  BY <1>2, <1>3, <1>4 DEF AppendEntry, Directory, DirectoryData, longer
<1> HIDE DEF grown
<1>7. new \in Dirs /\ Len(new) = n /\ DOMAIN new = DOMAIN dirs
  BY <1>1, <1>6 DEF Dirs, grown
<1>8. \A d \in DOMAIN dirs : new[d] = IF d = n THEN grown ELSE dirs[d]
  BY <1>1 DEF Dirs, grown
<1> HIDE DEF new
<1>9. pid \in Nat /\ DirNo(pid) = n /\ SlotNo(pid) = len + 1
  BY <1>1, <1>3, PageIds, Zenon
<1> HIDE DEF pid
<1>10. ~ Allocated(dirs, pid)
  BY <1>3, <1>4, <1>9 DEF Allocated
<1>11. Allocated(new, pid) /\ get_entry(new, pid) = entry
  BY <1>1, <1>3, <1>4, <1>5, <1>7, <1>8, <1>9 DEF Allocated, get_entry
<1>12. ASSUME NEW p \in Nat, Allocated(new, p), p # pid
       PROVE  Allocated(dirs, p)
  <2>1. DirNo(p) \in DOMAIN dirs /\ SlotNo(p) \in DOMAIN new[DirNo(p)].data.entries
    BY <1>12, <1>7 DEF Allocated
  <2>2. CASE DirNo(p) # n
    BY <2>1, <2>2, <1>8 DEF Allocated
  <2>3. CASE DirNo(p) = n
    <3>1. SlotNo(p) \in 1 .. len + 1
      BY <2>1, <2>3, <1>4, <1>5, <1>8
    <3>2. SlotNo(p) # len + 1
      BY <2>3, <1>9, <1>12, PageIds, Zenon
    <3> QED BY <2>1, <2>3, <3>1, <3>2, <1>3, <1>4 DEF Allocated
  <2> QED BY <2>2, <2>3
<1>13. ASSUME NEW p \in Nat, Allocated(dirs, p)
       PROVE  Allocated(new, p) /\ get_entry(new, p) = get_entry(dirs, p)
  <2>1. DirNo(p) \in DOMAIN dirs /\ SlotNo(p) \in DOMAIN dirs[DirNo(p)].data.entries
    BY <1>13 DEF Allocated
  <2>2. CASE DirNo(p) # n
    BY <2>1, <2>2, <1>7, <1>8 DEF Allocated, get_entry
  <2>3. CASE DirNo(p) = n
    <3>1. SlotNo(p) \in 1 .. len
      BY <2>1, <2>3, <1>4
    <3> QED BY <2>1, <2>3, <3>1, <1>3, <1>4, <1>5, <1>7, <1>8 DEF Allocated, get_entry
  <2> QED BY <2>2, <2>3
<1>14. Added(dirs, new, pid, entry)
  BY <1>7, <1>9, <1>10, <1>11, <1>12, <1>13 DEF Added
<1>15. ASSUME NEW d \in DOMAIN dirs
       PROVE  Len(dirs[d].data.entries) <= Len(new[d].data.entries)
  <2>1. CASE d = n
    BY <2>1, <1>1, <1>3, <1>4, <1>5, <1>8
  <2>2. CASE d # n
    <3>1. dirs[d].data \in DirectoryData /\ new[d] = dirs[d]
      BY <2>2, <1>8, DirectoryType
    <3>2. Len(dirs[d].data.entries) \in Nat
      BY <3>1 DEF DirectoryData
    <3> QED BY <3>1, <3>2
  <2> QED BY <2>1, <2>2
<1> QED BY <1>5, <1>7, <1>8, <1>14, <1>15 DEF new, pid

\* The directory buffer after append_entry has added a directory.
NextDirectory(dirs, off, entry) ==
  Append([dirs EXCEPT ![Len(dirs)] = LinkTo(@, off)],
         AppendEntry(init_directory_page(off), entry))

\* The last directory gets a successor at an offset, the others stay as they were.
LastLinked(dirs, new, off) ==
  \A d \in DOMAIN dirs :
    /\ new[d].offset = dirs[d].offset
    /\ new[d].data.entries = dirs[d].data.entries
    /\ new[d].data.next_directory
         = IF d = Len(dirs) THEN off ELSE dirs[d].data.next_directory

\* An entry appended to a new directory, which the last one is linked to.
LEMMA AddedDirectory ==
  ASSUME NEW dirs \in Dirs, NEW n, n = Len(dirs), n > 0, NEW off \in Nat, NEW entry \in Entry,
         NEW new, new = NextDirectory(dirs, off, entry)
  PROVE  /\ Added(dirs, new, PageId(n + 1, 1), entry)
         /\ Len(new) = n + 1 /\ DOMAIN new = 1 .. n + 1
         /\ new[n + 1].offset = off /\ new[n + 1].data.next_directory = 0
         /\ LastLinked(dirs, new, off)
<1> DEFINE last == LinkTo(dirs[n], off)
           linked == [dirs EXCEPT ![n] = LinkTo(@, off)]
           dir == AppendEntry(init_directory_page(off), entry)
           pid == PageId(n + 1, 1)
<1>1. n \in Nat \ {0} /\ DOMAIN dirs = 1 .. n /\ dirs[n] \in Directory
  BY DEF Dirs
<1>2. /\ dirs[n].offset \in Nat /\ dirs[n].data.entries \in Seq(Entry)
      /\ Len(dirs[n].data.entries) <= DirCapacity
  BY <1>1 DEF Directory, DirectoryData
<1>3. last \in Directory
  BY <1>2 DEF LinkTo, Directory, DirectoryData
<1>4. /\ last.offset = dirs[n].offset /\ last.data.entries = dirs[n].data.entries
      /\ last.data.next_directory = off
  BY DEF LinkTo
<1> HIDE DEF last
<1>5. /\ linked \in Dirs /\ Len(linked) = n
      /\ \A d \in 1 .. n : linked[d] = IF d = n THEN last ELSE dirs[d]
  BY <1>1, <1>3 DEF Dirs, last
<1>6. dir = [offset |-> off, data |-> [next_directory |-> 0, entries |-> Append(<<>>, entry)]]
  BY DEF AppendEntry, init_directory_page, NewDirectory
<1>7. /\ Append(<<>>, entry) \in Seq(Entry) /\ Len(Append(<<>>, entry)) = 1
      /\ DOMAIN Append(<<>>, entry) = 1 .. 1 /\ Append(<<>>, entry)[1] = entry
  OBVIOUS
<1>8. /\ dir.offset = off /\ dir.data.next_directory = 0
      /\ DOMAIN dir.data.entries = 1 .. 1 /\ dir.data.entries[1] = entry
  BY <1>6, <1>7
<1>9. dir \in Directory
  <2> DEFINE one == Append(<<>>, entry)
  <2>1. one \in Seq(Entry) /\ Len(one) <= DirCapacity
    BY <1>7, DirCapacityAssumption
  <2> HIDE DEF one
  <2>2. [next_directory |-> 0, entries |-> one] \in DirectoryData
    BY <2>1 DEF DirectoryData
  <2> QED BY <2>2, <1>6 DEF Directory, one
<1>appended. new = Append(linked, dir)
  BY DEF NextDirectory
<1> HIDE DEF linked, dir
<1>10. /\ new \in Dirs /\ Len(new) = n + 1 /\ DOMAIN new = 1 .. n + 1
       /\ new[n + 1] = dir
       /\ \A d \in 1 .. n : new[d] = IF d = n THEN last ELSE dirs[d]
  <2>1. linked \in Seq(Directory) /\ Len(linked) = n
    BY <1>5 DEF Dirs
  <2>2. new \in Seq(Directory) /\ Len(new) = n + 1
    BY <2>1, <1>9, <1>appended
  <2>3. new[n + 1] = dir
    BY <2>1, <1>9, <1>appended
  <2>4. \A d \in 1 .. n : new[d] = linked[d]
    BY <2>1, <1>1, <1>9, <1>appended
  <2>5. DOMAIN new = 1 .. n + 1
    BY <2>2
  <2> QED BY <2>2, <2>3, <2>4, <2>5, <1>5 DEF Dirs
<1>11. \A d \in 1 .. n : /\ new[d].offset = dirs[d].offset
                         /\ new[d].data.entries = dirs[d].data.entries
                         /\ new[d].data.next_directory
                              = IF d = n THEN off ELSE dirs[d].data.next_directory
  BY <1>4, <1>10
<1>12. pid \in Nat /\ DirNo(pid) = n + 1 /\ SlotNo(pid) = 1
  <2>1. n + 1 \in Nat \ {0} /\ 1 \in 1 .. DirCapacity
    BY <1>1, DirCapacityAssumption
  <2> QED BY <2>1, PageIds
<1> HIDE DEF pid
<1>13. ~ Allocated(dirs, pid)
  BY <1>1, <1>12 DEF Allocated
<1>14. Allocated(new, pid) /\ get_entry(new, pid) = entry
  <2>1. n + 1 \in DOMAIN new /\ 1 \in DOMAIN new[n + 1].data.entries
        /\ new[n + 1].data.entries[1] = entry
    <3>1. n + 1 \in 1 .. n + 1
      BY <1>1
    <3>2. 1 \in 1 .. 1
      OBVIOUS
    <3> QED BY <3>1, <3>2, <1>8, <1>10, Zenon
  <2> QED BY <2>1, <1>12 DEF Allocated, get_entry
<1>15. ASSUME NEW p \in Nat, Allocated(new, p), p # pid
       PROVE  Allocated(dirs, p)
  <2>1. DirNo(p) \in 1 .. n + 1 /\ SlotNo(p) \in DOMAIN new[DirNo(p)].data.entries
    BY <1>15, <1>10 DEF Allocated
  <2>2. CASE DirNo(p) = n + 1
    <3>1. SlotNo(p) = 1
      BY <2>1, <2>2, <1>8, <1>10
    <3> QED BY <3>1, <2>2, <1>12, <1>15, PageIds
  <2>3. CASE DirNo(p) \in 1 .. n
    BY <2>1, <2>3, <1>1, <1>11 DEF Allocated
  <2> QED BY <2>1, <2>2, <2>3, <1>1
<1>16. ASSUME NEW p \in Nat, Allocated(dirs, p)
       PROVE  Allocated(new, p) /\ get_entry(new, p) = get_entry(dirs, p)
  <2>1. DirNo(p) \in 1 .. n /\ DirNo(p) \in DOMAIN new
    <3>1. DirNo(p) \in 1 .. n
      BY <1>16, <1>1 DEF Allocated
    <3>2. DirNo(p) \in 1 .. n + 1
      BY <3>1, <1>1
    <3> QED BY <3>1, <3>2, <1>10
  <2>2. new[DirNo(p)].data.entries = dirs[DirNo(p)].data.entries
    BY <2>1, <1>11
  <2> QED BY <2>1, <2>2, <1>16 DEF Allocated, get_entry
<1>17. Added(dirs, new, pid, entry)
  BY <1>10, <1>12, <1>13, <1>14, <1>15, <1>16 DEF Added
<1>18. new[n + 1].offset = off /\ new[n + 1].data.next_directory = 0
  BY <1>8, <1>10
<1>19. LastLinked(dirs, new, off)
  BY <1>1, <1>11 DEF LastLinked
<1> QED BY <1>10, <1>17, <1>18, <1>19 DEF pid

\* The file grows at its end, and the blocks it had stay as they are.
Extends(blocks, longer) ==
  /\ longer \in Seq(Block)
  /\ Len(longer) > Len(blocks)
  /\ \A i \in 1 .. Len(blocks) : longer[i] = blocks[i]

\* The directories before and after append_entry: none is moved, shortened or
\* linked elsewhere, and a new one is empty on disk.
Lengthened(dirs, blocks, new, longer) ==
  /\ Extends(blocks, longer)
  /\ \A d \in DOMAIN dirs :
       /\ d \in DOMAIN new
       /\ new[d].offset = dirs[d].offset
       /\ Len(dirs[d].data.entries) <= Len(new[d].data.entries)
       /\ dirs[d].data.next_directory # 0 =>
            new[d].data.next_directory = dirs[d].data.next_directory
  /\ \A d \in DOMAIN new : d \notin DOMAIN dirs => longer[new[d].offset + 1] = NewDirectory

\* A page at the end of the file, with an entry for it, and the rest as before.
LEMMA AddedPlaced ==
  ASSUME NEW dirs \in Dirs, NEW blocks \in Seq(Block), PagesPlaced(dirs, blocks),
         NEW new, NEW longer, NEW pid, NEW entry \in Entry,
         Added(dirs, new, pid, entry), Extends(blocks, longer),
         entry.offset = Len(blocks), longer[Len(blocks) + 1] \in Page,
         \A d \in DOMAIN new : new[d].offset # Len(blocks),
         \A d \in DOMAIN new : \/ d \in DOMAIN dirs /\ new[d].offset = dirs[d].offset
                               \/ new[d].offset > Len(blocks)
  PROVE  PagesPlaced(new, longer)
<1>1. Len(blocks) \in Nat /\ Len(longer) \in Nat /\ new \in Dirs /\ pid \in Nat
  BY DEF Extends, Added
<1>2. ASSUME NEW p \in Nat, Allocated(dirs, p)
      PROVE  get_entry(dirs, p).offset \in Nat /\ get_entry(dirs, p).offset < Len(blocks)
  BY <1>2, EntryType DEF PagesPlaced, Entry
<1>3. ASSUME NEW p \in Nat, Allocated(new, p)
      PROVE  /\ get_entry(new, p).offset < Len(longer)
             /\ longer[get_entry(new, p).offset + 1] \in Page
             /\ \A d \in DOMAIN new : get_entry(new, p).offset # new[d].offset
  <2>1. CASE p = pid
    BY <2>1, <1>1 DEF Added, Extends
  <2>2. CASE p # pid
    <3>1. Allocated(dirs, p) /\ get_entry(new, p) = get_entry(dirs, p)
      BY <2>2, <1>3 DEF Added
    <3>2. get_entry(new, p).offset \in Nat /\ get_entry(new, p).offset < Len(blocks)
      BY <3>1, <1>2
    <3>3. longer[get_entry(new, p).offset + 1] = blocks[get_entry(dirs, p).offset + 1]
      <4>1. get_entry(dirs, p).offset + 1 \in 1 .. Len(blocks)
        BY <3>1, <3>2, <1>1
      <4> QED BY <3>1, <4>1 DEF Extends
    <3>4. ASSUME NEW d \in DOMAIN new PROVE get_entry(new, p).offset # new[d].offset
      <4>1. CASE d \in DOMAIN dirs /\ new[d].offset = dirs[d].offset
        BY <4>1, <3>1 DEF PagesPlaced
      <4>2. CASE new[d].offset > Len(blocks)
        BY <4>2, <3>2, <1>1
      <4> QED BY <4>1, <4>2
    <3> QED BY <3>1, <3>2, <3>3, <3>4, <1>1 DEF PagesPlaced, Extends
  <2> QED BY <2>1, <2>2
<1>4. ASSUME NEW p \in Nat, NEW q \in Nat, Allocated(new, p), Allocated(new, q),
             get_entry(new, p).offset = get_entry(new, q).offset
      PROVE  p = q
  <2>1. ASSUME NEW r \in Nat, Allocated(new, r)
        PROVE  r = pid <=> get_entry(new, r).offset = Len(blocks)
    <3>1. CASE r = pid
      BY <3>1 DEF Added
    <3>2. CASE r # pid
      BY <3>2, <2>1, <1>1, <1>2 DEF Added
    <3> QED BY <3>1, <3>2
  <2>2. CASE p = pid \/ q = pid
    BY <2>1, <2>2, <1>4
  <2>3. CASE p # pid /\ q # pid
    <3>1. /\ Allocated(dirs, p) /\ get_entry(new, p) = get_entry(dirs, p)
          /\ Allocated(dirs, q) /\ get_entry(new, q) = get_entry(dirs, q)
      BY <2>3, <1>4 DEF Added
    <3> QED BY <3>1, <1>4 DEF PagesPlaced
  <2> QED BY <2>2, <2>3
<1> QED BY <1>3, <1>4 DEF PagesPlaced

\* The heap file g has one page more than h, the others are those of h.
OneMore(h, blocks, g, longer, pid) ==
  /\ ~ Allocated(h.directory_buffer, pid)
  /\ \A p \in Nat : Allocated(g.directory_buffer, p)
                     <=> Allocated(h.directory_buffer, p) \/ p = pid
  /\ \A p \in Nat : Allocated(h.directory_buffer, p) =>
       PageOf(g, longer, p) = PageOf(h, blocks, p)
  /\ Accurate(h, blocks) => Accurate(g, longer)

\* The heap file with a new, empty page and an entry for it.
LEMMA GrownConsistent ==
  ASSUME NEW h, NEW blocks, Consistent(h, blocks),
         NEW new, NEW longer, NEW pid, NEW entry,
         entry = [offset |-> Len(blocks),
                  free_space |-> fixed_len_page_freeslots(init_fixed_len_page)],
         Added(h.directory_buffer, new, pid, entry), Extends(blocks, longer),
         longer[Len(blocks) + 1] = init_fixed_len_page,
         DirectoriesLinked(new, longer),
         \A d \in DOMAIN new : \/ /\ d \in DOMAIN h.directory_buffer
                                  /\ new[d].offset = h.directory_buffer[d].offset
                               \/ new[d].offset > Len(blocks)
  PROVE  LET g == [directory_buffer |-> new, cached_page |-> h.cached_page,
                   cached_pid |-> h.cached_pid, page_cache_dirty |-> h.page_cache_dirty]
         IN  /\ g \in HeapStructure /\ Consistent(g, longer)
             /\ g.cached_pid # pid /\ PageOf(g, longer, pid) = init_fixed_len_page
             /\ OneMore(h, blocks, g, longer, pid)
<1> DEFINE dirs == h.directory_buffer
           g == [directory_buffer |-> new, cached_page |-> h.cached_page,
                 cached_pid |-> h.cached_pid, page_cache_dirty |-> h.page_cache_dirty]
<1>1. /\ h \in HeapStructure /\ blocks \in Seq(Block) /\ dirs \in Dirs
      /\ DirectoriesLinked(dirs, blocks) /\ PagesPlaced(dirs, blocks)
  BY DEF Consistent, Structure
<1>2. Len(blocks) \in Nat /\ longer \in Seq(Block) /\ Len(longer) \in Nat
  BY <1>1 DEF Extends
<1>3. init_fixed_len_page \in Page /\ entry \in Entry /\ entry.offset = Len(blocks)
  BY <1>2, PageCalls, FreeSlots DEF Entry
<1>4. \A d \in DOMAIN new : new[d].offset # Len(blocks)
  <2>1. \A d \in DOMAIN dirs : dirs[d].offset < Len(blocks) /\ dirs[d].offset \in Nat
    BY <1>1, DirectoryType DEF DirectoriesLinked
  <2>2. \A d \in DOMAIN new : new[d].offset \in Nat
    BY DirectoryType DEF Added
  <2> QED BY <1>2, <2>1, <2>2
<1>5. PagesPlaced(new, longer)
  BY <1>1, <1>3, <1>4, AddedPlaced
<1>6. Structure(new, longer)
  BY <1>2, <1>5 DEF Structure, Added
<1>7. g \in HeapStructure
  BY <1>1 DEF HeapStructure, Added, Dirs
<1>8. pid \in Nat /\ pid # h.cached_pid
  BY <1>1 DEF Added, Consistent, Cached, HeapStructure
<1>9. PageOf(g, longer, pid) = init_fixed_len_page
  BY <1>3, <1>8 DEF PageOf, Added
<1>10. ASSUME NEW p \in Nat, Allocated(dirs, p)
       PROVE  longer[get_entry(new, p).offset + 1] = blocks[get_entry(dirs, p).offset + 1]
  <2>1. get_entry(new, p) = get_entry(dirs, p)
    BY <1>10 DEF Added
  <2>2. get_entry(dirs, p).offset \in Nat /\ get_entry(dirs, p).offset < Len(blocks)
    BY <1>1, <1>10, EntryType DEF PagesPlaced, Entry
  <2>3. get_entry(dirs, p).offset + 1 \in 1 .. Len(blocks)
    BY <2>2, <1>2
  <2> QED BY <2>1, <2>3 DEF Extends
<1>11. Cached(g, longer)
  <2>1. CASE h.cached_pid = -1
    BY <2>1 DEF Cached, Consistent
  <2>2. CASE h.cached_pid # -1
    <3>1. h.cached_pid \in Nat /\ Allocated(dirs, h.cached_pid)
      BY <2>2, <1>1 DEF Cached, Consistent, HeapStructure
    <3>2. Allocated(new, h.cached_pid)
      BY <3>1 DEF Added
    <3> QED BY <2>2, <3>1, <3>2, <1>10 DEF Cached, Consistent
  <2> QED BY <2>1, <2>2
<1> HIDE DEF g
<1>12. g.directory_buffer = new /\ g.cached_pid = h.cached_pid /\ g.cached_page = h.cached_page
  BY DEF g
<1>13. \A p \in Nat : Allocated(dirs, p) => PageOf(g, longer, p) = PageOf(h, blocks, p)
  BY <1>10, <1>12 DEF PageOf
<1>14. ASSUME Accurate(h, blocks) PROVE Accurate(g, longer)
  <2> SUFFICES ASSUME NEW p \in Nat, Allocated(new, p)
               PROVE  get_entry(new, p).free_space
                        = fixed_len_page_freeslots(PageOf(g, longer, p))
    BY <1>12 DEF Accurate
  <2>1. CASE p = pid
    BY <2>1, <1>9 DEF Added
  <2>2. CASE p # pid
    <3>1. Allocated(dirs, p) /\ get_entry(new, p) = get_entry(dirs, p)
      BY <2>2 DEF Added
    <3> QED BY <3>1, <1>13, <1>14 DEF Accurate
  <2> QED BY <2>1, <2>2
<1>15. OneMore(h, blocks, g, longer, pid)
  BY <1>8, <1>12, <1>13, <1>14 DEF OneMore, Added
<1>16. Consistent(g, longer)
  BY <1>6, <1>7, <1>11, <1>12 DEF Consistent
<1> QED BY <1>7, <1>8, <1>9, <1>12, <1>15, <1>16 DEF g

\* append_entry, in alloc_page after the new page has been written.
LEMMA AppendConsistent ==
  ASSUME NEW st \in State, Consistent(st.heap, st.disk)
  PROVE  LET page == init_fixed_len_page
             entry == [offset |-> EndOfFile(st), free_space |-> fixed_len_page_freeslots(page)]
             a == append_entry(write_block(st, page, entry.offset), entry)
             pid == appended_pid(st.heap.directory_buffer)
         IN  /\ a \in State
             /\ Consistent(a.heap, a.disk)
             /\ pid \in Nat /\ Allocated(a.heap.directory_buffer, pid)
             /\ a.heap.cached_pid # pid
             /\ PageOf(a.heap, a.disk, pid) = page
             /\ OneMore(st.heap, st.disk, a.heap, a.disk, pid)
             /\ Len(a.disk) <= Len(st.disk) + 2
             /\ Added(st.heap.directory_buffer, a.heap.directory_buffer, pid, entry)
             /\ Lengthened(st.heap.directory_buffer, st.disk, a.heap.directory_buffer, a.disk)
             /\ a.disk[Len(st.disk) + 1] = page
             /\ \A b \in a.was : b \in st.was \/ b = Append(st.disk, page) \/ b = a.disk
<1> DEFINE h == st.heap
           dirs == h.directory_buffer
           page == init_fixed_len_page
           entry == [offset |-> EndOfFile(st), free_space |-> fixed_len_page_freeslots(page)]
           w == write_block(st, page, entry.offset)
           a == append_entry(w, entry)
           pid == appended_pid(dirs)
           n == Len(dirs)
           paged == Append(st.disk, page)
           G(new) == [directory_buffer |-> new, cached_page |-> h.cached_page,
                      cached_pid |-> h.cached_pid, page_cache_dirty |-> h.page_cache_dirty]
<1>1. /\ h \in HeapStructure /\ st.disk \in Seq(Block) /\ st.was \in SUBSET Seq(Block)
      /\ dirs \in Dirs /\ DirectoriesLinked(dirs, st.disk)
  BY DEF State, Consistent, Structure
<1>2. /\ DOMAIN dirs = 1 .. n /\ n \in Nat \ {0}
      /\ Vacant(dirs) # {} => First(Vacant(dirs)) = n /\ ~ is_full(dirs[n])
      /\ Vacant(dirs) = {} => is_full(dirs[n])
  BY <1>1, VacantIsLast
<1>3. page \in Page /\ Len(st.disk) \in Nat /\ page \in Block
  BY <1>1, PageCalls DEF Block
<1>4. entry \in Entry /\ entry.offset = Len(st.disk)
  BY <1>3, FreeSlots DEF Entry, EndOfFile
<1>5. /\ paged \in Seq(Block) /\ Len(paged) = Len(st.disk) + 1
      /\ paged[Len(st.disk) + 1] = page
      /\ \A i \in 1 .. Len(st.disk) : paged[i] = st.disk[i]
  BY <1>1, <1>3
<1>6. w = [heap |-> h, disk |-> paged, was |-> st.was \cup {paged}]
  BY <1>4 DEF write_block
<1> HIDE DEF entry, page, paged
<1>7. w.heap = h /\ w.disk = paged /\ w.was = st.was \cup {paged}
  BY <1>6
<1>8. CASE Vacant(dirs) # {}
  <2> DEFINE new == [dirs EXCEPT ![n] = AppendEntry(@, entry)]
  <2>1. pid = PageId(n, Len(dirs[n].data.entries) + 1)
    BY <1>2, <1>8 DEF appended_pid
  <2>2. /\ Added(dirs, new, pid, entry)
        /\ Len(new) = n /\ DOMAIN new = DOMAIN dirs
        /\ \A d \in DOMAIN dirs :
             /\ new[d].offset = dirs[d].offset
             /\ new[d].data.next_directory = dirs[d].data.next_directory
             /\ Len(dirs[d].data.entries) <= Len(new[d].data.entries)
             /\ d # n => new[d] = dirs[d]
    <3>1. dirs \in Dirs /\ Len(dirs) > 0 /\ ~ is_full(dirs[Len(dirs)]) /\ entry \in Entry
      BY <1>1, <1>2, <1>4, <1>8
    <3> HIDE DEF pid, w, a, h, dirs
    <3> QED BY <2>1, <3>1, AddedInPlace, Zenon
  <2>3. a = [heap |-> G(new), disk |-> paged, was |-> st.was \cup {paged}]
    BY <1>2, <1>7, <1>8, Zenon DEF append_entry, WithDirectories, WithHeap
  <2> HIDE DEF new, pid, w, a
  <2>4. Extends(st.disk, paged)
    BY <1>3, <1>5 DEF Extends
  <2>5. DirectoriesLinked(new, paged)
    <3>1. \A d \in DOMAIN dirs : dirs[d].offset \in Nat
      BY <1>1, DirectoryType
    <3>2. ASSUME NEW d \in DOMAIN new PROVE new[d].offset < Len(paged)
      <4>1. d \in DOMAIN dirs /\ new[d].offset = dirs[d].offset
        BY <2>2
      <4>2. dirs[d].offset \in Nat /\ dirs[d].offset < Len(st.disk)
        BY <3>1, <4>1, <1>1 DEF DirectoriesLinked
      <4> QED BY <4>1, <4>2, <1>3, <1>5
    <3>3. \A d \in DOMAIN new : d < n => new[d] = dirs[d] /\ is_full(dirs[d])
      BY <2>2, <1>1, <1>2 DEF DirectoriesLinked
    <3>4. \A d \in DOMAIN new : d # n => d + 1 \in DOMAIN dirs
      BY <2>2, <1>2
    <3>5. 1 \in DOMAIN dirs
      BY <1>2
    <3> QED BY <3>2, <3>3, <3>4, <3>5, <2>2, <1>1, <1>2, ZenonT(30) DEF DirectoriesLinked
  <2>6. \A d \in DOMAIN new : d \in DOMAIN dirs /\ new[d].offset = dirs[d].offset
    BY <2>2
  <2>7. /\ G(new) \in HeapStructure /\ Consistent(G(new), paged)
        /\ G(new).cached_pid # pid /\ PageOf(G(new), paged, pid) = page
        /\ OneMore(h, st.disk, G(new), paged, pid)
    <3>1. entry = [offset |-> Len(st.disk),
                   free_space |-> fixed_len_page_freeslots(init_fixed_len_page)]
      BY DEF entry, page, EndOfFile
    <3>2. paged[Len(st.disk) + 1] = init_fixed_len_page
      BY <1>5 DEF page
    <3> QED BY <3>1, <3>2, <2>2, <2>4, <2>5, <2>6, GrownConsistent, ZenonT(30) DEF page
  <2>8. a.heap = G(new) /\ a.disk = paged
    BY <2>3
  <2>9. a \in State
    BY <2>3, <2>7, <1>1, <1>5 DEF State
  <2>10. pid \in Nat /\ Allocated(new, pid) /\ G(new).directory_buffer = new
    BY <2>2 DEF Added
  <2>11. Len(a.disk) <= Len(st.disk) + 2
    BY <2>8, <1>3, <1>5
  <2>12. Lengthened(dirs, st.disk, new, paged)
    BY <2>2, <2>4 DEF Lengthened
  <2>13. a.was = st.was \cup {paged}
    BY <2>3
  <2> HIDE DEF G
  <2> QED BY <2>2, <2>7, <2>8, <2>9, <2>10, <2>11, <2>12, <2>13, <1>5, ZenonT(30) DEF a, w, pid, entry, page, paged
<1>9. CASE Vacant(dirs) = {}
  <2> DEFINE off == Len(paged)
             new == Append([dirs EXCEPT ![n] = LinkTo(@, off)],
                           AppendEntry(init_directory_page(off), entry))
             longer == Append(paged, NewDirectory)
  <2>1. pid = PageId(n + 1, 1)
    BY <1>9 DEF appended_pid
  <2>2. off = Len(st.disk) + 1 /\ off \in Nat
    BY <1>3, <1>5
  <2>3. /\ Added(dirs, new, pid, entry)
        /\ Len(new) = n + 1 /\ DOMAIN new = 1 .. n + 1
        /\ new[n + 1].offset = off /\ new[n + 1].data.next_directory = 0
        /\ \A d \in DOMAIN dirs :
             /\ new[d].offset = dirs[d].offset
             /\ new[d].data.entries = dirs[d].data.entries
             /\ new[d].data.next_directory
                  = IF d = n THEN off ELSE dirs[d].data.next_directory
    <3>1. dirs \in Dirs /\ n = Len(dirs) /\ n > 0 /\ off \in Nat /\ entry \in Entry
      BY <1>1, <1>2, <1>4, <2>2
    <3>2. new = NextDirectory(dirs, off, entry)
      BY DEF NextDirectory
    <3> HIDE DEF off, pid, w, a, h, dirs, n, new
    <3>3. /\ Added(dirs, new, PageId(n + 1, 1), entry)
          /\ Len(new) = n + 1 /\ DOMAIN new = 1 .. n + 1
          /\ new[n + 1].offset = off /\ new[n + 1].data.next_directory = 0
          /\ LastLinked(dirs, new, off)
      BY <3>1, <3>2, AddedDirectory, SMTT(30)
    <3> QED BY <2>1, <3>1, <3>3, ZenonT(30) DEF LastLinked
  <2>4. write_block(w, NewDirectory, off)
          = [heap |-> h, disk |-> longer, was |-> w.was \cup {longer}]
    BY <1>7, Zenon DEF write_block
  <2>5. a = [heap |-> G(new), disk |-> longer, was |-> st.was \cup {paged} \cup {longer}]
    <3>1. append_entry(w, entry)
            = WithDirectories(write_block(w, NewDirectory, EndOfFile(w)),
                              Append([dirs EXCEPT ![n] = LinkTo(@, EndOfFile(w))],
                                     AppendEntry(init_directory_page(EndOfFile(w)), entry)))
      <4>1. w.heap.directory_buffer = dirs
        BY <1>7
      <4> HIDE DEF w, h, dirs
      <4> QED BY <4>1, <1>9 DEF append_entry
    <3>2. EndOfFile(w) = off
      BY <1>7 DEF EndOfFile
    <3>3. a = WithDirectories(write_block(w, NewDirectory, off), new)
      BY <3>1, <3>2
    <3> HIDE DEF w, a, new, off, longer
    <3> QED BY <3>3, <2>4, <1>7 DEF WithDirectories, WithHeap
  <2>6. NewDirectory \in Block
    <3>1. <<>> \in Seq(Entry) /\ Len(<<>>) <= DirCapacity
      BY DirCapacityAssumption
    <3> QED BY <3>1 DEF NewDirectory, Block, DirectoryData
  <2>7. /\ longer \in Seq(Block) /\ Len(longer) = off + 1
        /\ \A i \in 1 .. off : longer[i] = paged[i]
    BY <1>5, <2>6
  <2> HIDE DEF new, pid, w, a, longer, off
  <2>8. Extends(st.disk, longer) /\ longer[Len(st.disk) + 1] = page
    <3>1. Len(st.disk) + 1 \in 1 .. off /\ \A i \in 1 .. Len(st.disk) : i \in 1 .. off
      BY <2>2, <1>3
    <3> QED BY <3>1, <2>2, <2>7, <1>3, <1>5 DEF Extends
  <2>9. \A d \in DOMAIN dirs : dirs[d].offset \in Nat /\ dirs[d].offset < Len(st.disk)
    BY <1>1, DirectoryType DEF DirectoriesLinked
  <2>10. DirectoriesLinked(new, longer)
    <3>1. Len(new) > 0 /\ new[1].offset = 0
      <4>1. dirs[1].offset = 0 /\ Len(dirs) > 0
        BY <1>1 DEF DirectoriesLinked
      <4>2. 1 \in DOMAIN dirs /\ 1 # n + 1
        BY <4>1, <1>2
      <4> QED BY <4>1, <4>2, <2>3, <1>2
    <3>2. ASSUME NEW d \in DOMAIN new
          PROVE  /\ new[d].offset < Len(longer)
                 /\ d < Len(new) => is_full(new[d])
                 /\ new[d].data.next_directory
                      = IF d = Len(new) THEN 0 ELSE new[d + 1].offset
      <4>1. CASE d = n + 1
        BY <4>1, <2>2, <2>3, <2>7, <1>2
      <4>2. CASE d = n
        <5>1. d \in DOMAIN dirs /\ d # n + 1 /\ n + 1 = Len(new)
          <6>1. n \in Nat /\ n > 0 /\ DOMAIN dirs = 1 .. n
            BY <1>2
          <6>2. Len(new) = n + 1
            BY <2>3, Zenon
          <6> HIDE DEF dirs, n
          <6> QED BY <4>2, <6>1, <6>2
        <5>2. is_full(new[d])
          BY <5>1, <4>2, <2>3, <1>2, <1>9 DEF is_full
        <5>3. new[d].data.next_directory = new[d + 1].offset
          BY <5>1, <4>2, <2>3
        <5>4. new[d].offset = dirs[d].offset
          BY <5>1, <2>3
        <5>5. new[d].offset < Len(longer)
          <6>1. dirs[d].offset \in Nat /\ dirs[d].offset < Len(st.disk)
            BY <5>1, <2>9
          <6> QED BY <5>4, <6>1, <2>2, <2>7, <1>3
        <5> QED BY <5>1, <5>2, <5>3, <5>5, <4>2
      <4>3. CASE d \in 1 .. n /\ d # n
        <5>1. d \in DOMAIN dirs /\ d + 1 \in DOMAIN dirs /\ d < Len(dirs) /\ d # n + 1
          BY <4>3, <1>2
        <5>2. is_full(dirs[d]) /\ dirs[d].data.next_directory = dirs[d + 1].offset
          BY <5>1, <1>1 DEF DirectoriesLinked
        <5>3. /\ new[d].offset = dirs[d].offset /\ new[d + 1].offset = dirs[d + 1].offset
              /\ new[d].data.entries = dirs[d].data.entries
              /\ new[d].data.next_directory = dirs[d].data.next_directory
          BY <5>1, <4>3, <2>3, Zenon
        <5>4. is_full(new[d])
          BY <5>2, <5>3 DEF is_full
        <5>5. new[d].offset < Len(longer)
          <6>1. dirs[d].offset \in Nat /\ dirs[d].offset < Len(st.disk)
            BY <5>1, <2>9
          <6>2. Len(longer) = Len(st.disk) + 2 /\ Len(st.disk) \in Nat
            BY <2>2, <2>7, <1>3
          <6> QED BY <6>1, <6>2, <5>3
        <5>6. d # Len(new)
          BY <5>1, <2>3, <1>2
        <5> QED BY <5>2, <5>3, <5>4, <5>5, <5>6, Zenon
      <4>4. d = n + 1 \/ d = n \/ (d \in 1 .. n /\ d # n)
        BY <2>3, <1>2
      <4> QED BY <4>1, <4>2, <4>3, <4>4, Zenon
    <3>3. ASSUME NEW d \in DOMAIN new, NEW e \in DOMAIN new, new[d].offset = new[e].offset
          PROVE  d = e
      <4>1. \A c \in DOMAIN new : c = n + 1 \/ c \in DOMAIN dirs
        BY <2>3, <1>2
      <4>2. \A c \in DOMAIN dirs : new[c].offset # off
        BY <2>2, <2>3, <2>9, <1>3
      <4>3. CASE d = n + 1 \/ e = n + 1
        BY <4>1, <4>2, <4>3, <3>3, <2>3
      <4>4. CASE d \in DOMAIN dirs /\ e \in DOMAIN dirs
        BY <4>4, <3>3, <2>3, <1>1, ZenonT(30) DEF DirectoriesLinked
      <4> QED BY <4>1, <4>3, <4>4
    <3> QED BY <3>1, <3>2, <3>3 DEF DirectoriesLinked
  <2>11. \A d \in DOMAIN new : \/ d \in DOMAIN dirs /\ new[d].offset = dirs[d].offset
                               \/ new[d].offset > Len(st.disk)
    <3>1. \A d \in DOMAIN new : d = n + 1 \/ d \in DOMAIN dirs
      BY <2>3, <1>2
    <3>2. new[n + 1].offset > Len(st.disk)
      BY <2>2, <2>3, <1>3
    <3> QED BY <3>1, <3>2, <2>3, Zenon
  <2>12. /\ G(new) \in HeapStructure /\ Consistent(G(new), longer)
         /\ G(new).cached_pid # pid /\ PageOf(G(new), longer, pid) = page
         /\ OneMore(h, st.disk, G(new), longer, pid)
    <3>1. entry = [offset |-> Len(st.disk),
                   free_space |-> fixed_len_page_freeslots(init_fixed_len_page)]
      BY DEF entry, page, EndOfFile
    <3>2. longer[Len(st.disk) + 1] = init_fixed_len_page
      BY <2>8 DEF page
    <3> QED BY <3>1, <3>2, <2>3, <2>8, <2>10, <2>11, GrownConsistent, Zenon DEF page
  <2>13. a.heap = G(new) /\ a.disk = longer
    BY <2>5
  <2>14. a \in State
    BY <2>5, <2>7, <2>12, <1>1, <1>5 DEF State
  <2>15. pid \in Nat /\ Allocated(new, pid) /\ G(new).directory_buffer = new
    BY <2>3 DEF Added
  <2>16. Len(a.disk) <= Len(st.disk) + 2
    BY <2>2, <2>7, <2>13, <1>3
  <2>17. Lengthened(dirs, st.disk, new, longer)
    <3>1. ASSUME NEW d \in DOMAIN dirs
          PROVE  /\ d \in DOMAIN new
                 /\ new[d].offset = dirs[d].offset
                 /\ Len(dirs[d].data.entries) <= Len(new[d].data.entries)
                 /\ dirs[d].data.next_directory # 0 =>
                      new[d].data.next_directory = dirs[d].data.next_directory
      <4>1. dirs[d].data \in DirectoryData
        BY <1>1, DirectoryType
      <4>2. Len(dirs[d].data.entries) \in Nat
        BY <4>1 DEF DirectoryData
      <4>3. d = n => dirs[d].data.next_directory = 0
        BY <1>1, <1>2 DEF DirectoriesLinked
      <4>4. d \in DOMAIN new
        BY <2>3, <1>2
      <4>5. new[d].data.entries = dirs[d].data.entries
        BY <2>3
      <4>6. d # n => new[d].data.next_directory = dirs[d].data.next_directory
        BY <2>3
      <4> QED BY <4>2, <4>3, <4>4, <4>5, <4>6, <2>3
    <3>2. ASSUME NEW d \in DOMAIN new, d \notin DOMAIN dirs
          PROVE  longer[new[d].offset + 1] = NewDirectory
      <4>1. d = n + 1
        BY <3>2, <2>3, <1>2
      <4>2. longer[off + 1] = NewDirectory
        BY <1>5, <2>6 DEF longer, off
      <4> QED BY <4>1, <4>2, <2>3
    <3> QED BY <3>1, <3>2, <2>8 DEF Lengthened
  <2>18. a.was = st.was \cup {paged} \cup {longer}
    BY <2>5
  <2> HIDE DEF G
  <2> QED BY <2>3, <2>8, <2>12, <2>13, <2>14, <2>15, <2>16, <2>17, <2>18, Zenon
          DEF a, w, pid, entry, page, paged
<1> QED BY <1>8, <1>9, Zenon

\* alloc_page leaves the heap file as get_page would, called for the page that
\* append_entry has given an id to.
LEMMA AllocIsGet ==
  ASSUME NEW st \in State, Consistent(st.heap, st.disk)
  PROVE  LET page == init_fixed_len_page
             entry == [offset |-> EndOfFile(st), free_space |-> fixed_len_page_freeslots(page)]
             a == append_entry(write_block(st, page, entry.offset), entry)
         IN  alloc_page(st) = get_page(a, appended_pid(st.heap.directory_buffer))
<1> DEFINE page == init_fixed_len_page
           entry == [offset |-> EndOfFile(st), free_space |-> fixed_len_page_freeslots(page)]
           a == append_entry(write_block(st, page, entry.offset), entry)
           dirs == a.heap.directory_buffer
           pid == appended_pid(st.heap.directory_buffer)
           f == FlushCache(a)
<1>1. /\ a \in State /\ Consistent(a.heap, a.disk)
      /\ pid \in Nat /\ Allocated(dirs, pid)
      /\ a.heap.cached_pid # pid
      /\ PageOf(a.heap, a.disk, pid) = page
  BY AppendConsistent, Zenon
<1>2. alloc_page(st) = Cache(f, page, pid)
  BY DEF alloc_page
<1> HIDE DEF a, pid, page
<1>3. f.disk[get_entry(dirs, pid).offset + 1] = page
  BY <1>1, FlushWritesPage
<1>4. alloc_page(st) = get_page(a, pid)
  BY <1>1, <1>2, <1>3 DEF get_page, read_block
<1> QED BY <1>4 DEF a, pid, page

\* alloc_page adds an empty page and caches it.
LEMMA AllocConsistent ==
  ASSUME NEW st \in State, Consistent(st.heap, st.disk)
  PROVE  LET g == alloc_page(st)
             pid == appended_pid(st.heap.directory_buffer)
         IN  /\ g \in State /\ Consistent(g.heap, g.disk)
             /\ pid \in Nat /\ ~ Allocated(st.heap.directory_buffer, pid)
             /\ Fetched(st, g, pid)
             /\ Len(g.disk) <= Len(st.disk) + 2
<1> DEFINE page == init_fixed_len_page
           entry == [offset |-> EndOfFile(st), free_space |-> fixed_len_page_freeslots(page)]
           a == append_entry(write_block(st, page, entry.offset), entry)
           dirs == a.heap.directory_buffer
           pid == appended_pid(st.heap.directory_buffer)
<1>1. /\ a \in State /\ Consistent(a.heap, a.disk)
      /\ pid \in Nat /\ Allocated(dirs, pid)
      /\ a.heap.cached_pid # pid
      /\ PageOf(a.heap, a.disk, pid) = page
      /\ OneMore(st.heap, st.disk, a.heap, a.disk, pid)
      /\ Len(a.disk) <= Len(st.disk) + 2
  BY AppendConsistent, Zenon
<1>2. alloc_page(st) = get_page(a, pid)
  BY AllocIsGet, Zenon
<1> HIDE DEF a, pid, page
<1>3. LET g == alloc_page(st)
      IN  /\ g \in State /\ Consistent(g.heap, g.disk) /\ Fetched(a, g, pid)
          /\ g.heap.directory_buffer = dirs /\ Len(g.disk) = Len(a.disk)
  <2> HIDE DEF dirs
  <2> QED BY <1>1, <1>2, GetPageConsistent DEF dirs
<1>4. Fetched(st, alloc_page(st), pid)
  <2> DEFINE g == alloc_page(st)
  <2>1. Fetched(a, g, pid) /\ g.heap.directory_buffer = dirs
    BY <1>3
  <2> HIDE DEF g
  <2>2. PageOf(g.heap, g.disk, pid) = page /\ g.heap.cached_page = page
    BY <2>1, <1>1 DEF Fetched, PageOf
  <2>3. \A p \in Nat : Allocated(st.heap.directory_buffer, p) =>
          PageOf(g.heap, g.disk, p) = PageOf(st.heap, st.disk, p)
    BY <2>1, <1>1 DEF Fetched, OneMore
  <2> QED BY <2>1, <2>2, <2>3, <1>1 DEF Fetched, OneMore, g, page
<1> QED BY <1>1, <1>3, <1>4 DEF OneMore, pid

\* vacant_page_id returns a page with a free slot according to the directory.
LEMMA VacantPage ==
  ASSUME NEW dirs \in Dirs, vacant_page_id(dirs) # -1
  PROVE  LET pid == vacant_page_id(dirs)
         IN  /\ pid \in Nat /\ Allocated(dirs, pid)
             /\ get_entry(dirs, pid).free_space > 0
<1> DEFINE vacant == {d \in DOMAIN dirs : find_free_page(dirs[d]) # -1}
           n == First(vacant)
           entries == dirs[n].data.entries
           free == {i \in 0 .. Len(entries) - 1 : entries[i + 1].free_space > 0}
           i == First(free)
           pid == vacant_page_id(dirs)
<1>1. vacant # {} /\ pid = PageId(n, find_free_page(dirs[n]) + 1)
  BY DEF vacant_page_id
<1>2. DOMAIN dirs = 1 .. Len(dirs) /\ Len(dirs) \in Nat
  BY DirectoryType
<1>3. n \in vacant
  <2>1. vacant \subseteq Nat
    BY <1>2
  <2> HIDE DEF vacant
  <2> QED BY <2>1, <1>1, FirstIsLeast, Zenon
<1>4. n \in DOMAIN dirs /\ find_free_page(dirs[n]) # -1 /\ n \in Nat \ {0}
  BY <1>2, <1>3
<1>5. dirs[n].data \in DirectoryData
  BY <1>4, DirectoryType
<1>6. /\ entries \in Seq(Entry) /\ Len(entries) \in Nat /\ Len(entries) <= DirCapacity
      /\ DOMAIN entries = 1 .. Len(entries)
  BY <1>5 DEF DirectoryData
<1> HIDE DEF n, vacant
<1>7. free # {} /\ find_free_page(dirs[n]) = i
  BY <1>4 DEF find_free_page
<1>8. i \in free
  <2>1. free \subseteq Nat
    BY <1>6
  <2> HIDE DEF free
  <2> QED BY <2>1, <1>7, FirstIsLeast, Zenon
<1>9. i \in 0 .. Len(entries) - 1 /\ entries[i + 1].free_space > 0
  BY <1>8, Zenon
<1> HIDE DEF i, pid
<1>10. i + 1 \in 1 .. DirCapacity /\ i + 1 \in DOMAIN entries
  BY <1>6, <1>9, DirCapacityAssumption
<1>11. pid \in Nat /\ DirNo(pid) = n /\ SlotNo(pid) = i + 1
  BY <1>1, <1>4, <1>7, <1>10, PageIds, ZenonT(30)
<1> QED BY <1>4, <1>9, <1>10, <1>11 DEF Allocated, get_entry, pid

\* get_free_pid caches a page of the heap file.
LEMMA FreePageConsistent ==
  ASSUME NEW st \in State, Consistent(st.heap, st.disk)
  PROVE  LET g == FreePage(st)
             pid == g.heap.cached_pid
             dirs == st.heap.directory_buffer
         IN  /\ g \in State /\ Consistent(g.heap, g.disk)
             /\ pid \in Nat /\ Fetched(st, g, pid)
             /\ Allocated(dirs, pid) => pid = vacant_page_id(dirs)
             /\ Len(g.disk) <= Len(st.disk) + 2
             /\ vacant_page_id(dirs) # -1 => Len(g.disk) = Len(st.disk)
<1> DEFINE dirs == st.heap.directory_buffer
           pid == vacant_page_id(dirs)
<1>1. dirs \in Dirs
  BY DEF Consistent, Structure
<1>2. CASE pid = -1
  <2>1. FreePage(st) = alloc_page(st)
    BY <1>2 DEF FreePage
  <2> QED BY <2>1, <1>2, AllocConsistent DEF Fetched
<1>3. CASE pid # -1
  <2>1. FreePage(st) = get_page(st, pid)
    BY <1>3 DEF FreePage
  <2>2. pid \in Nat /\ Allocated(dirs, pid)
    BY <1>1, <1>3, VacantPage
  <2>3. Len(st.disk) \in Nat
    BY DEF State
  <2> DEFINE g == get_page(st, pid)
  <2>4. /\ g \in State /\ Consistent(g.heap, g.disk) /\ Fetched(st, g, pid)
        /\ Len(g.disk) = Len(st.disk)
    <3> HIDE DEF pid
    <3> QED BY <2>2, GetPageConsistent, Zenon
  <2> HIDE DEF g, pid
  <2>5. g.heap.cached_pid = pid
    BY <2>4 DEF Fetched
  <2>6. Len(g.disk) <= Len(st.disk) + 2
    BY <2>3, <2>4
  <2>7. FreePage(st) = g
    BY <2>1 DEF g
  <2> QED BY <2>2, <2>4, <2>5, <2>6, <2>7, Zenon DEF pid
<1> QED BY <1>2, <1>3

\* put_record adds a record to a page with a free slot according to the directory,
\* or to a new page.
LEMMA PutConsistent ==
  ASSUME NEW st \in State, Consistent(st.heap, st.disk), NEW rec \in Record
  PROVE  LET r == put_record(st, rec)
             dirs == st.heap.directory_buffer
             old(p) == IF Allocated(dirs, p) THEN PageOf(st.heap, st.disk, p)
                                             ELSE init_fixed_len_page
         IN  /\ r \in State /\ Consistent(r.heap, r.disk)
             /\ Len(r.disk) <= Len(st.disk) + 2
             /\ vacant_page_id(dirs) # -1 => Len(r.disk) = Len(st.disk)
             /\ \E p \in Nat : /\ Allocated(dirs, p) => p = vacant_page_id(dirs)
                               /\ old(p) \in Page
                               /\ Written(st, r, p, add_fixed_len_page(old(p), rec))
<1> DEFINE dirs == st.heap.directory_buffer
           old(p) == IF Allocated(dirs, p) THEN PageOf(st.heap, st.disk, p)
                                           ELSE init_fixed_len_page
           got == FreePage(st)
           pid == got.heap.cached_pid
           page == add_fixed_len_page(got.heap.cached_page, rec)
           r == put_record(st, rec)
<1>1. /\ got \in State /\ Consistent(got.heap, got.disk)
      /\ pid \in Nat /\ Fetched(st, got, pid)
      /\ Allocated(dirs, pid) => pid = vacant_page_id(dirs)
      /\ Len(got.disk) <= Len(st.disk) + 2
      /\ vacant_page_id(dirs) # -1 => Len(got.disk) = Len(st.disk)
  BY FreePageConsistent, Zenon
<1>2. r = commit_page(SetPage(got, page))
  BY DEF put_record
<1> HIDE DEF got
<1>3. got.heap.cached_page \in Page /\ got.heap.cached_page = old(pid)
  BY <1>1 DEF State, HeapStructure, Fetched, PageOf
<1>4. page \in Page
  BY <1>3, PageCalls
<1> HIDE DEF page, r
<1>5. r \in State /\ Consistent(r.heap, r.disk) /\ Written(got, r, pid, page) /\ r.disk = got.disk
  BY <1>1, <1>2, <1>4, CommitConsistent
<1>6. Written(st, r, pid, page)
  BY <1>1, <1>5 DEF Written, Fetched
<1>7. page = add_fixed_len_page(old(pid), rec) /\ old(pid) \in Page
  BY <1>3 DEF page
<1> QED BY <1>1, <1>5, <1>6, <1>7, Zenon DEF r

\* update_record and delete_record change one page.
LEMMA ChangeConsistent ==
  ASSUME NEW st \in State, Consistent(st.heap, st.disk), NEW pid \in Nat,
         Allocated(st.heap.directory_buffer, pid)
  PROVE  LET got == get_page(st, pid)
         IN  /\ got.heap.cached_page = PageOf(st.heap, st.disk, pid)
             /\ got.heap.cached_page \in Page
             /\ \A page \in Page :
                  LET r == commit_page(SetPage(got, page))
                  IN  /\ r \in State /\ Consistent(r.heap, r.disk)
                      /\ Written(st, r, pid, page)
                      /\ Len(r.disk) = Len(st.disk)
<1> DEFINE got == get_page(st, pid)
<1>1. /\ got \in State /\ Consistent(got.heap, got.disk) /\ Fetched(st, got, pid)
      /\ Len(got.disk) = Len(st.disk)
  BY GetPageConsistent
<1> HIDE DEF got
<1>2. /\ got.heap.cached_page \in Page /\ got.heap.cached_pid # -1
      /\ got.heap.cached_page = PageOf(st.heap, st.disk, pid)
  BY <1>1 DEF State, HeapStructure, Fetched, PageOf
<1>3. ASSUME NEW page \in Page
      PROVE  LET r == commit_page(SetPage(got, page))
             IN  /\ r \in State /\ Consistent(r.heap, r.disk)
                 /\ Written(st, r, pid, page)
                 /\ Len(r.disk) = Len(st.disk)
  <2> DEFINE r == commit_page(SetPage(got, page))
  <2>1. /\ r \in State /\ Consistent(r.heap, r.disk)
        /\ Written(got, r, got.heap.cached_pid, page) /\ r.disk = got.disk
    BY <1>1, <1>2, CommitConsistent
  <2> HIDE DEF r
  <2>2. Written(st, r, pid, page)
    BY <2>1, <1>1 DEF Written, Fetched
  <2> QED BY <2>1, <2>2, <1>1 DEF r
<1> QED BY <1>2, <1>3 DEF got

\* put_record, update_record, delete_record and get_record keep an open heap
\* file consistent, and its directories accurate.
LEMMA CallsConsistent ==
  ASSUME NEW st \in State, Consistent(st.heap, st.disk)
  PROVE  LET Kept(r) == /\ r \in State /\ Consistent(r.heap, r.disk)
                        /\ Accurate(st.heap, st.disk) => Accurate(r.heap, r.disk)
             dirs == st.heap.directory_buffer
         IN  /\ \A rec \in Record : Kept(put_record(st, rec))
             /\ \A pid \in Nat : Allocated(dirs, pid) => Kept(get_record(st, pid))
             /\ \A pid \in Nat, slot \in Slots, rec \in Record :
                  Allocated(dirs, pid) => Kept(update_record(st, pid, slot, rec))
             /\ \A pid \in Nat, slot \in Slots :
                  Allocated(dirs, pid) => Kept(delete_record(st, pid, slot))
<1> DEFINE Kept(r) == /\ r \in State /\ Consistent(r.heap, r.disk)
                      /\ Accurate(st.heap, st.disk) => Accurate(r.heap, r.disk)
           dirs == st.heap.directory_buffer
<1>1. ASSUME NEW rec \in Record PROVE Kept(put_record(st, rec))
  BY PutConsistent DEF Written
<1>2. ASSUME NEW pid \in Nat, Allocated(dirs, pid) PROVE Kept(get_record(st, pid))
  BY <1>2, GetPageConsistent DEF get_record, Fetched
<1>3. ASSUME NEW pid \in Nat, NEW slot \in Slots, NEW rec \in Record, Allocated(dirs, pid)
      PROVE  Kept(update_record(st, pid, slot, rec))
  <2> DEFINE page == write_fixed_len_page(get_page(st, pid).heap.cached_page, slot, rec)
  <2>1. page \in Page
    BY <1>3, ChangeConsistent, PageCalls
  <2>2. update_record(st, pid, slot, rec) = commit_page(SetPage(get_page(st, pid), page))
    BY DEF update_record
  <2> HIDE DEF page
  <2> QED BY <2>1, <2>2, <1>3, ChangeConsistent DEF Written
<1>4. ASSUME NEW pid \in Nat, NEW slot \in Slots, Allocated(dirs, pid)
      PROVE  Kept(delete_record(st, pid, slot))
  <2> DEFINE page == delete_fixed_len_page(get_page(st, pid).heap.cached_page, slot)
  <2>1. page \in Page
    BY <1>4, ChangeConsistent, PageCalls
  <2>2. delete_record(st, pid, slot) = commit_page(SetPage(get_page(st, pid), page))
    BY DEF delete_record
  <2> HIDE DEF page
  <2> QED BY <2>1, <2>2, <1>4, ChangeConsistent DEF Written
<1> QED BY <1>1, <1>2, <1>3, <1>4

-----------------------------------------------------------------------------
\* A heap file that has been read and not used, with these directories.
Unused(dirs) ==
  [directory_buffer |-> dirs, cached_page |-> init_fixed_len_page,
   cached_pid |-> -1, page_cache_dirty |-> FALSE]

\* The blocks of a closed heap file: its directories are among them.
OnDisk(dirs, blocks) ==
  /\ Consistent(Unused(dirs), blocks)
  /\ \A d \in DOMAIN dirs : blocks[dirs[d].offset + 1] = dirs[d].data

\* The loop of close_heapfile, after n rounds, has written n directories over
\* their earlier versions and has changed no page.
LEMMA WrittenDirectories ==
  ASSUME NEW dirs, NEW blocks, Structure(dirs, blocks), NEW n \in 0 .. Len(dirs)
  PROVE  LET file == DirectoriesWritten(dirs, blocks, n)
         IN  /\ Structure(dirs, file) /\ Len(file) = Len(blocks)
             /\ \A d \in DOMAIN dirs : file[dirs[d].offset + 1]
                  = IF d <= n THEN dirs[d].data ELSE blocks[dirs[d].offset + 1]
             /\ \A p \in Nat : Allocated(dirs, p) =>
                  file[get_entry(dirs, p).offset + 1] = blocks[get_entry(dirs, p).offset + 1]
<1> DEFINE N == Len(dirs)
           here(o) == {d \in 1 .. n : dirs[d].offset = o - 1}
           latest(o) == CHOOSE d \in here(o) : \A e \in here(o) : e <= d
           file == DirectoriesWritten(dirs, blocks, n)
<1>1. file = [o \in DOMAIN blocks |-> IF here(o) = {} THEN blocks[o] ELSE dirs[latest(o)].data]
  BY DEF DirectoriesWritten
<1> HIDE DEF file, latest
<1>2. /\ blocks \in Seq(Block) /\ Len(blocks) \in Nat /\ DOMAIN blocks = 1 .. Len(blocks)
      /\ dirs \in Dirs /\ DirectoriesLinked(dirs, blocks) /\ PagesPlaced(dirs, blocks)
  BY DEF Structure
<1>3. /\ N \in Nat /\ DOMAIN dirs = 1 .. N
      /\ \A d \in DOMAIN dirs : /\ dirs[d].offset \in Nat /\ dirs[d].data \in DirectoryData
                                /\ dirs[d].offset < Len(blocks)
  BY <1>2, DirectoryType DEF DirectoriesLinked
<1>4. n \in Nat /\ n <= N /\ \A d \in 1 .. n : d \in 1 .. N /\ d <= n
  BY <1>3
<1>5. ASSUME NEW o \in DOMAIN blocks, \A d \in 1 .. n : dirs[d].offset # o - 1
      PROVE  file[o] = blocks[o]
  <2>1. here(o) = {}
    BY <1>5
  <2> QED BY <1>1, <2>1
<1>6. ASSUME NEW d \in DOMAIN dirs
      PROVE  /\ dirs[d].offset + 1 \in DOMAIN blocks
             /\ file[dirs[d].offset + 1]
                  = IF d <= n THEN dirs[d].data ELSE blocks[dirs[d].offset + 1]
  <2> DEFINE o == dirs[d].offset + 1
  <2>1. o \in DOMAIN blocks /\ o - 1 = dirs[d].offset
    <3>1. dirs[d].offset \in Nat /\ dirs[d].offset < Len(blocks)
      BY <1>3
    <3> QED BY <3>1, <1>2
  <2>2. \A e \in DOMAIN dirs : dirs[e].offset = dirs[d].offset => e = d
    BY <1>2 DEF DirectoriesLinked
  <2> HIDE DEF o
  <2>3. CASE d <= n
    <3>1. d \in 1 .. n
      BY <2>3, <1>3, <1>4
    <3>2. here(o) = {d}
      BY <3>1, <1>3, <1>4, <2>1, <2>2
    <3>3. latest(o) = d
      BY <3>1, <3>2, <1>4 DEF latest
    <3>4. file[o] = dirs[d].data
      BY <1>1, <2>1, <3>2, <3>3
    <3> QED BY <2>1, <2>3, <3>4 DEF o
  <2>4. CASE ~ (d <= n)
    <3>1. \A e \in 1 .. n : dirs[e].offset # o - 1
      BY <2>1, <2>2, <2>4, <1>3, <1>4
    <3>2. file[o] = blocks[o]
      BY <3>1, <2>1, <1>5
    <3> QED BY <2>1, <2>4, <3>2 DEF o
  <2> QED BY <2>3, <2>4
<1>7. file \in Seq(Block) /\ Len(file) = Len(blocks)
  <2>1. ASSUME NEW o \in DOMAIN blocks
        PROVE  file[o] \in Block
    <3>1. CASE \E d \in 1 .. n : dirs[d].offset = o - 1
      <4>1. PICK d \in 1 .. n : dirs[d].offset = o - 1
        BY <3>1
      <4>2. dirs[d].offset + 1 = o /\ d \in DOMAIN dirs /\ d <= n
        BY <4>1, <1>2, <1>3, <1>4
      <4> QED BY <4>2, <1>3, <1>6 DEF Block
    <3>2. CASE \A d \in 1 .. n : dirs[d].offset # o - 1
      <4>1. file[o] = blocks[o]
        BY <3>2, <1>5
      <4>2. blocks[o] \in Block
        BY <1>2
      <4> QED BY <4>1, <4>2
    <3> QED BY <3>1, <3>2
  <2>2. DOMAIN file = 1 .. Len(blocks)
    BY <1>1, <1>2
  <2>3. file \in [1 .. Len(blocks) -> Block]
    BY <2>1, <2>2, <1>1, <1>2
  <2> QED BY <2>2, <2>3, <1>2
<1>8. ASSUME NEW p \in Nat, Allocated(dirs, p)
      PROVE  file[get_entry(dirs, p).offset + 1] = blocks[get_entry(dirs, p).offset + 1]
  <2> DEFINE o == get_entry(dirs, p).offset
  <2>1. o \in Nat /\ o < Len(blocks) /\ \A d \in DOMAIN dirs : o # dirs[d].offset
    BY <1>2, <1>8, EntryType DEF PagesPlaced, Entry
  <2> HIDE DEF o
  <2>2. o + 1 \in DOMAIN blocks /\ (o + 1) - 1 = o
    BY <2>1, <1>2
  <2>3. \A d \in 1 .. n : dirs[d].offset # (o + 1) - 1
    BY <2>1, <2>2, <1>3, <1>4
  <2> QED BY <2>2, <2>3, <1>5 DEF o
<1>9. Structure(dirs, file)
  <2>1. DirectoriesLinked(dirs, file)
    BY <1>2, <1>7 DEF DirectoriesLinked
  <2>2. PagesPlaced(dirs, file)
    BY <1>2, <1>7, <1>8 DEF PagesPlaced
  <2> QED BY <2>1, <2>2, <1>2, <1>7 DEF Structure
<1> QED BY <1>6, <1>7, <1>8, <1>9 DEF file

\* close_heapfile leaves everything it had in memory on the disk.
LEMMA CloseOnDisk ==
  ASSUME NEW st \in State, Consistent(st.heap, st.disk)
  PROVE  /\ close_heapfile(st).heap = init_heapfile
         /\ LET dirs == st.heap.directory_buffer
                file == close_heapfile(st).disk
            IN  /\ OnDisk(dirs, file)
                /\ Len(file) = Len(st.disk)
                /\ \A p \in Nat : Allocated(dirs, p) =>
                     PageOf(Unused(dirs), file, p) = PageOf(st.heap, st.disk, p)
                /\ Accurate(st.heap, st.disk) => Accurate(Unused(dirs), file)
<1> DEFINE dirs == st.heap.directory_buffer
           f == FlushCache(st)
           n == Len(dirs)
           file == close_heapfile(st).disk
           h == Unused(dirs)
<1>1. /\ f \in State /\ Len(f.disk) = Len(st.disk) /\ Structure(dirs, f.disk)
      /\ \A p \in Nat : Allocated(dirs, p) =>
           f.disk[get_entry(dirs, p).offset + 1] = PageOf(st.heap, st.disk, p)
  BY FlushWritesPage, Zenon
<1>2. /\ close_heapfile(st).heap = init_heapfile
      /\ file = DirectoriesWritten(dirs, f.disk, n)
  BY DEF close_heapfile
<1> HIDE DEF f, file
<1>3. dirs \in Dirs /\ n \in Nat /\ n \in 0 .. n /\ \A d \in DOMAIN dirs : d <= n
  <2>1. dirs \in Dirs
    BY <1>1 DEF Structure
  <2>2. n \in Nat /\ DOMAIN dirs = 1 .. n
    BY <2>1, DirectoryType
  <2> HIDE DEF n
  <2> QED BY <2>1, <2>2
<1>4. /\ Structure(dirs, file) /\ Len(file) = Len(f.disk)
      /\ \A d \in DOMAIN dirs : file[dirs[d].offset + 1] = dirs[d].data
      /\ \A p \in Nat : Allocated(dirs, p) =>
           file[get_entry(dirs, p).offset + 1] = f.disk[get_entry(dirs, p).offset + 1]
  <2>1. Structure(dirs, f.disk) /\ n \in 0 .. Len(dirs) /\ \A d \in DOMAIN dirs : d <= n
    BY <1>1, <1>3
  <2> HIDE DEF dirs, n
  <2>2. /\ Structure(dirs, file) /\ Len(file) = Len(f.disk)
        /\ \A d \in DOMAIN dirs : file[dirs[d].offset + 1]
             = IF d <= n THEN dirs[d].data ELSE f.disk[dirs[d].offset + 1]
        /\ \A p \in Nat : Allocated(dirs, p) =>
             file[get_entry(dirs, p).offset + 1] = f.disk[get_entry(dirs, p).offset + 1]
    BY <1>2, <2>1, WrittenDirectories
  <2> QED BY <2>1, <2>2, Zenon
<1>5. /\ h.directory_buffer = dirs /\ h.cached_pid = -1 /\ h.page_cache_dirty = FALSE
       /\ h \in HeapStructure
  BY <1>3, PageCalls, Zenon DEF Unused, HeapStructure, Dirs
<1> HIDE DEF h
<1>6. Cached(h, file)
  BY <1>5 DEF Cached
<1>7. \A p \in Nat : Allocated(dirs, p) => PageOf(h, file, p) = PageOf(st.heap, st.disk, p)
  BY <1>1, <1>4, <1>5 DEF PageOf
<1>8. Accurate(st.heap, st.disk) => Accurate(h, file)
  BY <1>5, <1>7 DEF Accurate
<1>9. Consistent(h, file)
  BY <1>4, <1>5, <1>6 DEF Consistent
<1>10. Len(file) = Len(st.disk)
  BY <1>1, <1>4
<1> QED BY <1>2, <1>4, <1>7, <1>8, <1>9, <1>10, Zenon DEF OnDisk, h, file

\* create_heapfile makes a heap file with one, empty directory.
LEMMA CreateConsistent ==
  /\ create_heapfile.heap \in HeapStructure /\ create_heapfile.disk \in Seq(Block)
  /\ Consistent(create_heapfile.heap, create_heapfile.disk)
  /\ Accurate(create_heapfile.heap, create_heapfile.disk)
  /\ Len(create_heapfile.disk) = 1
  /\ \A p \in Nat : ~ Allocated(create_heapfile.heap.directory_buffer, p)
<1> DEFINE dir == init_directory_page(0)
           dirs == <<dir>>
           blocks == <<NewDirectory>>
           h == Unused(dirs)
<1>1. /\ dir = [offset |-> 0, data |-> NewDirectory]
      /\ dir.offset = 0 /\ dir.data.next_directory = 0 /\ dir.data.entries = <<>>
  BY DEF init_directory_page, NewDirectory
<1>2. NewDirectory \in DirectoryData
  <2>1. <<>> \in Seq(Entry) /\ Len(<<>>) <= DirCapacity
    BY DirCapacityAssumption
  <2> QED BY <2>1 DEF NewDirectory, DirectoryData
<1>3. dir \in Directory
  BY <1>1, <1>2 DEF Directory
<1> HIDE DEF dir
<1>4. /\ dirs \in Dirs /\ Len(dirs) = 1 /\ DOMAIN dirs = {1} /\ dirs[1] = dir
  BY <1>3 DEF Dirs
<1>5. blocks \in Seq(Block) /\ Len(blocks) = 1
  BY <1>2 DEF Block
<1>6. create_heapfile.disk = blocks
  BY DEF create_heapfile, write_block
<1>7. create_heapfile.heap = h
  BY ZenonT(30) DEF create_heapfile, write_block, init_heapfile, Unused, dir
<1> HIDE DEF dirs, blocks
<1>8. /\ h.directory_buffer = dirs /\ h.cached_pid = -1 /\ h.page_cache_dirty = FALSE
      /\ h \in HeapStructure
  BY <1>4, PageCalls DEF Unused, HeapStructure, Dirs
<1> HIDE DEF h
<1>9. \A p \in Nat : ~ Allocated(dirs, p)
  BY <1>1, <1>4 DEF Allocated
<1>10. DirectoriesLinked(dirs, blocks)
  BY <1>1, <1>4, <1>5 DEF DirectoriesLinked
<1>11. Structure(dirs, blocks)
  BY <1>4, <1>5, <1>9, <1>10 DEF Structure, PagesPlaced
<1>12. Cached(h, blocks) /\ Accurate(h, blocks)
  BY <1>8, <1>9 DEF Cached, Accurate
<1> QED BY <1>5, <1>6, <1>7, <1>8, <1>9, <1>11, <1>12 DEF Consistent

-----------------------------------------------------------------------------
\* open_heapfile has read the directories before the one at off.
Opening(h, off, dirs, blocks) ==
  LET read == h.directory_buffer
  IN  /\ OnDisk(dirs, blocks)
      /\ read \in Dirs /\ h = Unused(read)
      /\ Len(read) < Len(dirs)
      /\ \A d \in DOMAIN read : read[d] = dirs[d]
      /\ off = dirs[Len(read) + 1].offset

\* The inductive invariant: an open heap file is consistent, a closed one is
\* complete on disk, and a heap file being opened has read the first directories
\* of a complete one.
IInv ==
  /\ TypeOK
  /\ status \in {"absent", "closed"} => heap = init_heapfile
  /\ status = "closed" =>
       \E dirs \in Dirs : OnDisk(dirs, disk) /\ Accurate(Unused(dirs), disk)
  /\ status = "opening" =>
       \E dirs \in Dirs : Opening(heap, offset, dirs, disk) /\ Accurate(Unused(dirs), disk)
  /\ status = "open" => Consistent(heap, disk) /\ Accurate(heap, disk)

\* One round of the loop of open_heapfile.
LEMMA ReadNext ==
  ASSUME TypeOK, NEW dirs \in Dirs, Opening(heap, offset, dirs, disk), ReadDirectory
  PROVE  /\ heap' \in HeapStructure /\ offset' \in Nat
         /\ \/ status' = "open" /\ heap' = Unused(dirs)
            \/ status' = "opening" /\ Opening(heap', offset', dirs, disk)
<1> DEFINE read == heap.directory_buffer
           k == Len(read)
           dir == [offset |-> offset, data |-> read_block(Now, offset)]
           longer == Append(read, dir)
<1>1. /\ OnDisk(dirs, disk) /\ read \in Dirs /\ heap = Unused(read)
      /\ k < Len(dirs) /\ (\A d \in DOMAIN read : read[d] = dirs[d])
      /\ offset = dirs[k + 1].offset
  BY DEF Opening
<1>2. Structure(dirs, disk)
  BY <1>1 DEF OnDisk, Consistent, Unused
<1>3. /\ k \in Nat /\ DOMAIN read = 1 .. k
      /\ Len(dirs) \in Nat /\ DOMAIN dirs = 1 .. Len(dirs)
      /\ k + 1 \in DOMAIN dirs
  BY <1>1, DirectoryType
<1>4. /\ dirs[k + 1] \in Directory /\ offset \in Nat /\ offset < Len(disk)
      /\ dirs[k + 1].data \in DirectoryData
  BY <1>1, <1>2, <1>3, DirectoryType DEF Structure, DirectoriesLinked
<1>5. dir = dirs[k + 1]
  <2>1. read_block(Now, offset) = dirs[k + 1].data
    BY <1>1, <1>3 DEF read_block, Now, OnDisk
  <2>2. dirs[k + 1] = [offset |-> dirs[k + 1].offset, data |-> dirs[k + 1].data]
    BY <1>4 DEF Directory
  <2> QED BY <2>1, <2>2, <1>1
<1>6. /\ heap' = [heap EXCEPT !.directory_buffer = longer]
      /\ offset' = dir.data.next_directory
      /\ status' = IF offset' = 0 THEN "open" ELSE "opening"
  BY <1>4 DEF ReadDirectory
<1> HIDE DEF dir
<1>7. /\ longer \in Dirs /\ Len(longer) = k + 1 /\ DOMAIN longer = 1 .. k + 1
      /\ \A d \in 1 .. k + 1 : longer[d] = dirs[d]
  <2>1. dir \in Directory /\ read \in Seq(Directory)
    BY <1>1, <1>4, <1>5 DEF Dirs
  <2>2. longer \in Seq(Directory) /\ Len(longer) = k + 1
    BY <2>1
  <2>3. longer[k + 1] = dirs[k + 1] /\ \A d \in 1 .. k : longer[d] = read[d]
    BY <2>1, <1>3, <1>5
  <2>4. \A d \in 1 .. k + 1 : d = k + 1 \/ d \in 1 .. k
    BY <1>3
  <2> QED BY <2>2, <2>3, <2>4, <1>1, <1>3 DEF Dirs
<1> HIDE DEF longer
<1>8. heap' = Unused(longer)
  <2>1. heap = Unused(read) /\ heap' = [heap EXCEPT !.directory_buffer = longer]
    BY <1>1, <1>6
  <2> HIDE DEF read
  <2> QED BY <2>1, Zenon DEF Unused
<1>9. heap' \in HeapStructure
  BY <1>7, <1>8, PageCalls DEF Unused, HeapStructure, Dirs
<1>10. offset' = IF k + 1 = Len(dirs) THEN 0 ELSE dirs[k + 2].offset
  <2>1. (k + 1) + 1 = k + 2
    BY <1>3
  <2> QED BY <2>1, <1>2, <1>3, <1>5, <1>6, Zenon DEF Structure, DirectoriesLinked
<1>11. CASE k + 1 = Len(dirs)
  <2>1. offset' = 0 /\ status' = "open"
    BY <1>6, <1>10, <1>11
  <2>2. longer = dirs
    <3>1. longer \in Seq(Directory) /\ dirs \in Seq(Directory) /\ Len(longer) = Len(dirs)
      BY <1>7, <1>11 DEF Dirs
    <3> QED BY <3>1, <1>3, <1>7, <1>11
  <2> QED BY <2>1, <2>2, <1>8, <1>9
<1>12. CASE k + 1 # Len(dirs)
  <2>1. k + 2 \in DOMAIN dirs /\ 1 \in DOMAIN dirs /\ k + 2 # 1 /\ k + 1 < Len(dirs)
    <3>1. k < Len(dirs) /\ k \in Nat /\ Len(dirs) \in Nat
      BY <1>1, <1>3
    <3> HIDE DEF k
    <3>2. k + 2 \in 1 .. Len(dirs) /\ 1 \in 1 .. Len(dirs) /\ k + 1 < Len(dirs)
      BY <3>1, <1>12
    <3> QED BY <3>1, <3>2, <1>3
  <2>2. dirs[k + 2].offset # 0 /\ dirs[k + 2].offset \in Nat
    BY <2>1, <1>2, DirectoryType DEF Structure, DirectoriesLinked
  <2>3. offset' = dirs[k + 2].offset /\ status' = "opening"
    BY <2>2, <1>6, <1>10, <1>12
  <2>4. heap'.directory_buffer = longer
    BY <1>8 DEF Unused
  <2>5. Len(longer) < Len(dirs) /\ Len(longer) + 1 = k + 2
    <3> HIDE DEF k
    <3> QED BY <2>1, <1>3, <1>7
  <2>6. Opening(heap', offset', dirs, disk)
    BY <2>3, <2>4, <2>5, <1>1, <1>7, <1>8 DEF Opening
  <2> QED BY <2>2, <2>3, <2>6, <1>9
<1> QED BY <1>11, <1>12

\* The first round reads the directory at offset 0.
LEMMA OpenFirst ==
  ASSUME NEW dirs \in Dirs, NEW blocks, OnDisk(dirs, blocks)
  PROVE  Opening(init_heapfile, 0, dirs, blocks)
<1>1. DirectoriesLinked(dirs, blocks)
  BY DEF OnDisk, Consistent, Unused, Structure
<1>2. init_heapfile = Unused(<<>>) /\ init_heapfile.directory_buffer = <<>>
  BY DEF init_heapfile, Unused
<1>3. <<>> \in Dirs /\ Len(<<>>) = 0 /\ DOMAIN <<>> = {}
  BY DEF Dirs
<1>4. Len(<<>>) + 1 = 1 /\ Len(<<>>) < Len(dirs) /\ 0 = dirs[1].offset
  BY <1>1, <1>3, DirectoryType DEF DirectoriesLinked
<1> QED BY <1>2, <1>3, <1>4 DEF Opening

\* Before the first create_heapfile there is nothing to be inconsistent.
LEMMA InitInvariant == Init => IInv
<1> SUFFICES ASSUME Init PROVE IInv
  OBVIOUS
<1>1. init_heapfile \in HeapStructure
  <2>1. <<>> \in Seq(Directory)
    OBVIOUS
  <2> QED BY <2>1, PageCalls DEF init_heapfile, HeapStructure
<1>2. <<>> \in Seq(Block)
  OBVIOUS
<1> QED BY <1>1, <1>2 DEF Init, IInv, TypeOK

\* Every call of heapfile.h, run to its end, and every round of the loop of
\* open_heapfile preserve the invariant.
LEMMA NextInvariant == IInv /\ [Next]_vars => IInv'
<1> SUFFICES ASSUME IInv, [Next]_vars PROVE IInv'
  OBVIOUS
<1>1. init_heapfile \in HeapStructure
  <2>1. <<>> \in Seq(Directory)
    OBVIOUS
  <2> QED BY <2>1, PageCalls DEF init_heapfile, HeapStructure
<1>2. Now \in State /\ Now.heap = heap /\ Now.disk = disk
  BY DEF Now, State, IInv, TypeOK
<1>3. ASSUME NEW st \in State, Consistent(st.heap, st.disk), Accurate(st.heap, st.disk),
             InCall, Run(st)
      PROVE  IInv'
  <2>1. st.heap \in HeapStructure /\ st.disk \in Seq(Block)
    BY DEF State
  <2> QED BY <1>3, <2>1 DEF InCall, Run, IInv, TypeOK
<1>4. ASSUME NEW rid \in Rids, InCall
      PROVE  rid[1] \in Nat /\ rid[2] \in Slots /\ Allocated(Now.heap.directory_buffer, rid[1])
  BY <1>2 DEF Rids, Allocated
<1>5. InCall => Consistent(Now.heap, Now.disk) /\ Accurate(Now.heap, Now.disk)
  BY <1>2 DEF IInv, InCall
<1>6. CASE Create
  <2>1. status' = "open" /\ heap' = create_heapfile.heap /\ disk' = create_heapfile.disk
        /\ offset' = offset
    BY <1>6 DEF Create, Run
  <2> QED BY <2>1, CreateConsistent DEF IInv, TypeOK
<1>7. CASE Open
  <2>1. /\ status = "closed" /\ status' = "opening" /\ offset' = 0
        /\ heap' = heap /\ disk' = disk /\ heap = init_heapfile
    BY <1>7 DEF Open, IInv
  <2>2. PICK dirs \in Dirs : OnDisk(dirs, disk) /\ Accurate(Unused(dirs), disk)
    BY <2>1 DEF IInv
  <2>3. Opening(heap', offset', dirs, disk') /\ Accurate(Unused(dirs), disk')
    BY <2>1, <2>2, OpenFirst
  <2> QED BY <2>1, <2>3 DEF IInv, TypeOK
<1>8. CASE ReadDirectory
  <2>1. status = "opening" /\ disk' = disk
    BY <1>8 DEF ReadDirectory
  <2>2. PICK dirs \in Dirs : Opening(heap, offset, dirs, disk) /\ Accurate(Unused(dirs), disk)
    BY <2>1 DEF IInv
  <2>3. /\ heap' \in HeapStructure /\ offset' \in Nat
        /\ \/ status' = "open" /\ heap' = Unused(dirs)
           \/ status' = "opening" /\ Opening(heap', offset', dirs, disk)
    BY <2>2, <1>8, ReadNext DEF IInv
  <2>4. Consistent(Unused(dirs), disk)
    BY <2>2 DEF Opening, OnDisk
  <2> QED BY <2>1, <2>2, <2>3, <2>4 DEF IInv, TypeOK
<1>9. ASSUME NEW rec \in Record, Put(rec)
      PROVE  IInv'
  BY <1>2, <1>3, <1>5, <1>9, CallsConsistent DEF Put
<1>10. ASSUME NEW rid \in Rids, Get(rid)
       PROVE  IInv'
  BY <1>2, <1>3, <1>4, <1>5, <1>10, CallsConsistent DEF Get
<1>11. ASSUME NEW rid \in Rids, NEW rec \in Record, Update(rid, rec)
       PROVE  IInv'
  BY <1>2, <1>3, <1>4, <1>5, <1>11, CallsConsistent DEF Update
<1>12. ASSUME NEW rid \in Rids, Delete(rid)
       PROVE  IInv'
  BY <1>2, <1>3, <1>4, <1>5, <1>12, CallsConsistent DEF Delete
<1>13. CASE Close
  <2>1. /\ status = "open" /\ status' = "closed" /\ offset' = offset
        /\ heap' = close_heapfile(Now).heap /\ disk' = close_heapfile(Now).disk
    BY <1>13 DEF Close, Run
  <2>2. /\ heap' = init_heapfile /\ OnDisk(heap.directory_buffer, disk')
        /\ Accurate(Unused(heap.directory_buffer), disk')
    BY <2>1, <1>2, CloseOnDisk, ZenonT(30) DEF IInv
  <2>3. heap.directory_buffer \in Dirs /\ disk' \in Seq(Block)
    BY <2>1, <2>2, Zenon DEF IInv, Consistent, Structure, OnDisk
  <2> QED BY <2>1, <2>2, <2>3, <1>1 DEF IInv, TypeOK
<1>14. CASE UNCHANGED vars
  BY <1>14 DEF IInv, TypeOK, vars
<1> QED BY <1>6, <1>7, <1>8, <1>9, <1>10, <1>11, <1>12, <1>13, <1>14 DEF Next

-----------------------------------------------------------------------------
\* The page ids in use are the numbers up to the last one: all directories but
\* the last are full.
LEMMA AllocatedContiguous ==
  ASSUME NEW dirs \in Dirs, NEW blocks, DirectoriesLinked(dirs, blocks),
         NEW p \in Nat, NEW q \in Nat, q <= p, Allocated(dirs, p)
  PROVE  Allocated(dirs, q)
<1>1. /\ DirNo(p) \in 1 .. Len(dirs) /\ SlotNo(p) \in 1 .. Len(dirs[DirNo(p)].data.entries)
      /\ DOMAIN dirs = 1 .. Len(dirs) /\ Len(dirs) \in Nat
  BY EntryType, DirectoryType
<1>2. DirNo(q) \in Nat \ {0} /\ SlotNo(q) \in 1 .. DirCapacity
  BY PageIds, Zenon
<1>3. DirNo(q) < DirNo(p) \/ (DirNo(q) = DirNo(p) /\ SlotNo(q) <= SlotNo(p))
  BY DirCapacityAssumption, Z3 DEF DirNo, SlotNo
<1>4. DirNo(q) \in DOMAIN dirs
  BY <1>1, <1>2, <1>3
<1>5. dirs[DirNo(q)].data \in DirectoryData
  BY <1>4, DirectoryType
<1>6. DOMAIN dirs[DirNo(q)].data.entries = 1 .. Len(dirs[DirNo(q)].data.entries)
  BY <1>5 DEF DirectoryData
<1>7. CASE DirNo(q) < DirNo(p)
  <2>1. DirNo(q) < Len(dirs)
    BY <1>1, <1>2, <1>7
  <2>2. Len(dirs[DirNo(q)].data.entries) = DirCapacity
    BY <2>1, <1>4 DEF DirectoriesLinked, is_full
  <2> QED BY <2>2, <1>2, <1>4, <1>6 DEF Allocated
<1>8. CASE DirNo(q) = DirNo(p) /\ SlotNo(q) <= SlotNo(p)
  BY <1>1, <1>2, <1>4, <1>6, <1>8 DEF Allocated
<1> QED BY <1>3, <1>7, <1>8

\* A heap file has no more page ids than blocks.
LEMMA AllocatedBounded ==
  ASSUME NEW dirs, NEW blocks, Structure(dirs, blocks),
         NEW p \in Nat, Allocated(dirs, p)
  PROVE  p < Len(blocks)
<1>1. /\ dirs \in Dirs /\ DirectoriesLinked(dirs, blocks) /\ PagesPlaced(dirs, blocks)
      /\ Len(blocks) \in Nat
  BY DEF Structure
<1> DEFINE S == 0 .. p
           T == 0 .. Len(blocks) - 1
           f == [q \in S |-> get_entry(dirs, q).offset]
<1>2. \A q \in S : q \in Nat /\ Allocated(dirs, q)
  BY <1>1, AllocatedContiguous
<1>3. \A q \in S : get_entry(dirs, q).offset \in T
  <2> SUFFICES ASSUME NEW q \in S PROVE get_entry(dirs, q).offset \in T
    OBVIOUS
  <2>1. get_entry(dirs, q).offset \in Nat /\ get_entry(dirs, q).offset < Len(blocks)
    BY <1>1, <1>2, EntryType DEF PagesPlaced, Entry
  <2> QED BY <2>1, <1>1
<1>4. f \in [S -> T]
  BY <1>3
<1>5. \A x, y \in S : f[x] = f[y] => x = y
  BY <1>1, <1>2 DEF PagesPlaced
<1>6. IsFiniteSet(S) /\ IsFiniteSet(T) /\ Cardinality(S) = p + 1
  BY <1>1, FS_Interval
<1>7. Cardinality(T) = Len(blocks)
  <2> DEFINE n == Len(blocks)
  <2>1. n \in Nat /\ 0 \in Int /\ n - 1 \in Int
    BY <1>1
  <2> HIDE DEF n
  <2>2. Cardinality(0 .. n - 1) = IF 0 > n - 1 THEN 0 ELSE (n - 1) - 0 + 1
    BY <2>1, FS_Interval, Zenon
  <2>3. Cardinality(0 .. n - 1) = n
    BY <2>1, <2>2
  <2> QED BY <2>3 DEF n
<1> HIDE DEF S, T, f
<1>8. ~ (Cardinality(T) < Cardinality(S))
  <2> SUFFICES ASSUME Cardinality(T) < Cardinality(S) PROVE FALSE
    OBVIOUS
  <2>1. \E x, y \in S : x # y /\ f[x] = f[y]
    BY <1>4, <1>6, FS_PigeonHole, Zenon
  <2> QED BY <2>1, <1>5
<1> QED BY <1>1, <1>6, <1>7, <1>8

\* The bound that Put respects
Sized == Len(disk) <= MaxBlocks

\* No step makes the file longer than MaxBlocks.
LEMMA NextSized == IInv /\ Sized /\ [Next]_vars => Sized'
<1> SUFFICES ASSUME IInv, Sized, [Next]_vars PROVE Sized'
  OBVIOUS
<1>1. Now \in State /\ Now.heap = heap /\ Now.disk = disk /\ Len(disk) \in Nat
  BY DEF Now, State, IInv, TypeOK
<1>2. status = "open" => Consistent(Now.heap, Now.disk)
  BY <1>1 DEF IInv
<1>3. ASSUME NEW rid \in Rids, InCall
      PROVE  rid[1] \in Nat /\ rid[2] \in Slots /\ Allocated(Now.heap.directory_buffer, rid[1])
  BY <1>1 DEF Rids, Allocated
<1>4. ASSUME disk' = disk PROVE Sized'
  BY <1>4 DEF Sized
<1>5. ASSUME NEW rid \in Rids, InCall, NEW page \in Page,
             Run(commit_page(SetPage(get_page(Now, rid[1]), page)))
      PROVE  Sized'
  BY <1>1, <1>2, <1>3, <1>5, ChangeConsistent DEF Run, Sized, InCall
<1>6. CASE Create
  BY <1>6, CreateConsistent, MaxBlocksAssumption DEF Create, Run, Sized
<1>7. CASE Open \/ ReadDirectory \/ UNCHANGED vars
  BY <1>4, <1>7 DEF Open, ReadDirectory, vars
<1>8. ASSUME NEW rec \in Record, Put(rec) PROVE Sized'
  <2>1. /\ Len(disk') <= Len(disk) + 2
        /\ vacant_page_id(heap.directory_buffer) # -1 => Len(disk') = Len(disk)
        /\ put_record(Now, rec) \in State /\ disk' = put_record(Now, rec).disk
    BY <1>1, <1>2, <1>8, PutConsistent DEF Put, InCall, Run
  <2>2. Len(disk') \in Nat
    BY <2>1 DEF State
  <2> QED BY <2>1, <2>2, <1>1, <1>8, MaxBlocksAssumption DEF Put, Bounded, Sized
<1>9. ASSUME NEW rid \in Rids, Get(rid) PROVE Sized'
  BY <1>1, <1>2, <1>3, <1>9, GetPageConsistent DEF Get, InCall, Run, Sized, get_record
<1>10. ASSUME NEW rid \in Rids, NEW rec \in Record, Update(rid, rec) PROVE Sized'
  <2> DEFINE page == write_fixed_len_page(get_page(Now, rid[1]).heap.cached_page, rid[2], rec)
  <2>1. page \in Page
    BY <1>1, <1>2, <1>3, <1>10, ChangeConsistent, PageCalls DEF Update, InCall
  <2>2. InCall /\ Run(commit_page(SetPage(get_page(Now, rid[1]), page)))
    BY <1>10 DEF Update, update_record
  <2> HIDE DEF page
  <2> QED BY <2>1, <2>2, <1>5
<1>11. ASSUME NEW rid \in Rids, Delete(rid) PROVE Sized'
  <2> DEFINE page == delete_fixed_len_page(get_page(Now, rid[1]).heap.cached_page, rid[2])
  <2>1. page \in Page
    BY <1>1, <1>2, <1>3, <1>11, ChangeConsistent, PageCalls DEF Delete, InCall
  <2>2. InCall /\ Run(commit_page(SetPage(get_page(Now, rid[1]), page)))
    BY <1>11 DEF Delete, delete_record
  <2> HIDE DEF page
  <2> QED BY <2>1, <2>2, <1>5
<1>12. CASE Close
  BY <1>1, <1>2, <1>12, CloseOnDisk DEF Close, Run, Sized
<1> QED BY <1>6, <1>7, <1>8, <1>9, <1>10, <1>11, <1>12 DEF Next

-----------------------------------------------------------------------------
\* Heapfile's state keeps its type.
THEOREM HeapfileTypeOK == Spec => []TypeOK
<1>1. IInv => TypeOK
  BY DEF IInv
<1> QED BY InitInvariant, NextInvariant, <1>1, PTL DEF Spec

\* The free_space of a directory entry is what its page has free, whatever has
\* been evicted, closed and reopened in between.
THEOREM HeapfileFreeSpaceAccurate == Spec => []FreeSpaceAccurate
<1>1. IInv => FreeSpaceAccurate
  <2> SUFFICES ASSUME IInv, status = "open", NEW rid \in Rids
               PROVE  get_entry(heap.directory_buffer, rid[1]).free_space
                        = fixed_len_page_freeslots(PageOf(heap, disk, rid[1]))
    BY DEF FreeSpaceAccurate
  <2>1. Accurate(heap, disk)
    BY DEF IInv
  <2>2. rid[1] \in Nat /\ Allocated(heap.directory_buffer, rid[1])
    BY DEF Rids, Allocated
  <2> QED BY <2>1, <2>2 DEF Accurate
<1> QED BY InitInvariant, NextInvariant, <1>1, PTL DEF Spec

\* put_record may ignore what add_fixed_len_page returns: the page that
\* vacant_page_id finds has a free slot.
THEOREM HeapfileVacantPageHasSlot == Spec => []VacantPageHasSlot
<1>1. IInv => VacantPageHasSlot
  <2> DEFINE pid == vacant_page_id(heap.directory_buffer)
             page == PageOf(heap, disk, pid)
  <2> SUFFICES ASSUME IInv, status = "open", pid # -1
               PROVE  Filled(page) # Slots
    BY DEF VacantPageHasSlot
  <2>1. Consistent(heap, disk) /\ Accurate(heap, disk)
    BY DEF IInv
  <2>2. /\ pid \in Nat /\ Allocated(heap.directory_buffer, pid)
        /\ get_entry(heap.directory_buffer, pid).free_space > 0
    BY <2>1, VacantPage DEF Consistent, Structure
  <2> HIDE DEF pid
  <2>3. fixed_len_page_freeslots(page) > 0
    BY <2>1, <2>2 DEF Accurate
  <2>4. page \in Page
    <3>1. heap.cached_page \in Page
      BY DEF IInv, TypeOK, HeapStructure
    <3>2. disk[get_entry(heap.directory_buffer, pid).offset + 1] \in Page
      BY <2>1, <2>2 DEF Consistent, Structure, PagesPlaced
    <3> QED BY <3>1, <3>2 DEF PageOf
  <2> HIDE DEF page
  <2> QED BY <2>3, <2>4, FreeSlots
<1> QED BY InitInvariant, NextInvariant, <1>1, PTL DEF Spec

\* No two blocks of a consistent heap file share an offset.
LEMMA ConsistentDistinct == (status = "open" => Consistent(heap, disk)) => BlocksDistinct
<1> SUFFICES ASSUME status = "open", Consistent(heap, disk) PROVE BlocksDistinct
  BY DEF BlocksDistinct
<1> DEFINE dirs == heap.directory_buffer
           pids == {rid[1] : rid \in Rids}
<1>1. DirectoriesLinked(dirs, disk) /\ PagesPlaced(dirs, disk)
  BY DEF Consistent, Structure
<1>2. \A p \in pids : p \in Nat /\ Allocated(dirs, p)
  BY DEF Rids, Allocated
<1>3. \A p, q \in pids : get_entry(dirs, p).offset = get_entry(dirs, q).offset => p = q
  BY <1>1, <1>2, ZenonT(30) DEF PagesPlaced
<1>4. \A p \in pids, d \in DOMAIN dirs : get_entry(dirs, p).offset # dirs[d].offset
  BY <1>1, <1>2, Zenon DEF PagesPlaced
<1>5. \A d \in DOMAIN dirs :
        dirs[d].data.next_directory = IF d = Len(dirs) THEN 0 ELSE dirs[d + 1].offset
  BY <1>1 DEF DirectoriesLinked
<1> QED BY <1>3, <1>4, <1>5, ZenonT(30) DEF BlocksDistinct

=============================================================================
