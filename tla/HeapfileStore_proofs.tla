----------------------- MODULE HeapfileStore_proofs -----------------------
(***************************************************************************)
(* The heap file with crashes implements a store of records, for every     *)
(* page capacity, directory capacity, set of records and size of the file. *)
(***************************************************************************)
EXTENDS HeapfileStore, HeapfileContents_proofs

USE SMTT(30), ZenonT(30)

-----------------------------------------------------------------------------
\* The inductive invariant of the heap file with crashes.
CrashInv ==
  /\ TypeOK
  /\ Sized
  /\ status \in {"absent", "closed"} => heap = init_heapfile
  /\ status = "absent" => disk = <<>>
  /\ status = "closed" => disk = <<>> \/ \E dirs \in Dirs : OnDisk(dirs, disk)
  /\ status = "opening" =>
       \/ disk = <<>> /\ heap = init_heapfile /\ offset = 0
       \/ \E dirs \in Dirs : Opening(heap, offset, dirs, disk)
  /\ status = "open" => Durable(Now, had)
  /\ store = Contents
  /\ had = [rid \in Rid |-> had[rid]]
  /\ \A rid \in Rid : store[rid] \in had[rid]

-----------------------------------------------------------------------------
(***************************************************************************)
(* The states between calls.                                               *)
(***************************************************************************)
\* An open heap file from whose file a crash now brings back earlier values.
LEMMA NowDurable ==
  ASSUME NEW h, NEW blocks, NEW values, Consistent(h, blocks),
         Recoverable(h.directory_buffer, blocks, values), Holding(h, blocks, values)
  PROVE  Durable([heap |-> h, disk |-> blocks, was |-> {blocks}], values)
<1> DEFINE st == [heap |-> h, disk |-> blocks, was |-> {blocks}]
<1>1. st.heap = h /\ st.disk = blocks /\ st.was = {blocks}
  OBVIOUS
<1>2. h.directory_buffer \in Dirs /\ Len(blocks) \in Nat
  BY DEF Recoverable, Structure
<1> HIDE DEF st
<1>3. Left(st, values)
  BY <1>1, <1>2 DEF Left
<1>4. Durable(st, values)
  BY <1>1, <1>3 DEF Durable
<1> QED BY <1>4 DEF st

\* A complete file is recoverable, with the values it holds.
LEMMA OnDiskRecoverable ==
  ASSUME NEW dirs \in Dirs, NEW blocks, OnDisk(dirs, blocks),
         NEW values, Holding(Unused(dirs), blocks, values)
  PROVE  Recoverable(dirs, blocks, values)
<1>1. /\ Structure(dirs, blocks) /\ DirectoriesLinked(dirs, blocks)
      /\ Unused(dirs).directory_buffer = dirs /\ Unused(dirs).cached_pid = -1
  BY DEF OnDisk, Consistent, Unused, Structure
<1>2. /\ Len(dirs) \in Nat /\ DOMAIN dirs = 1 .. Len(dirs)
      /\ \A d \in DOMAIN dirs :
           /\ dirs[d] \in Directory /\ dirs[d].offset \in Nat
           /\ dirs[d].data \in DirectoryData /\ Len(dirs[d].data.entries) \in Nat
  BY DirectoryType DEF DirectoryData
<1>3. \A d \in DOMAIN dirs : Earlier(dirs, blocks, d) = dirs[d].data
  BY DEF OnDisk, Earlier
<1>4. Behind(dirs, blocks)
  <2>1. ASSUME NEW d \in DOMAIN dirs, dirs[d].data.next_directory # 0
        PROVE  Len(dirs[d].data.entries) = DirCapacity
    <3>1. d # Len(dirs) => is_full(dirs[d])
      BY <1>1, <1>2 DEF DirectoriesLinked
    <3>2. d # Len(dirs)
      BY <2>1, <1>1, <1>2 DEF DirectoriesLinked
    <3> QED BY <3>1, <3>2 DEF is_full
  <2>2. \A p \in Nat : Allocated(dirs, p) => DirNo(p) \in DOMAIN dirs
    BY DEF Allocated
  <2> QED BY <2>1, <2>2, <1>2, <1>3 DEF Behind, get_entry
<1>5. ASSUME NEW p \in Nat, Allocated(dirs, p) PROVE Reached(dirs, blocks, p)
  <2>1. /\ DirNo(p) \in DOMAIN dirs /\ DirNo(p) \in Int
        /\ SlotNo(p) \in DOMAIN dirs[DirNo(p)].data.entries
    BY <1>2, <1>5 DEF Allocated
  <2>2. ASSUME NEW d \in DOMAIN dirs, d < DirNo(p) PROVE dirs[d].data.next_directory # 0
    <3>1. d # Len(dirs) /\ d + 1 \in DOMAIN dirs /\ d + 1 # 1 /\ 1 \in DOMAIN dirs
      BY <2>1, <2>2, <1>2
    <3>2. dirs[d].data.next_directory = dirs[d + 1].offset /\ dirs[1].offset = 0
      BY <3>1, <1>1 DEF DirectoriesLinked
    <3>3. dirs[d + 1].offset # dirs[1].offset
      BY <3>1, <1>1 DEF DirectoriesLinked
    <3> QED BY <3>2, <3>3
  <2> QED BY <2>1, <2>2, <1>3, <1>5 DEF Reached
<1>6. ASSUME NEW rid \in Rid
      PROVE  /\ Allocated(dirs, rid[1]) =>
                  Value(blocks[get_entry(dirs, rid[1]).offset + 1], rid[2]) \in values[rid]
             /\ ~ Reached(dirs, blocks, rid[1]) => NoRecord \in values[rid]
  <2> DEFINE h == Unused(dirs)
  <2>1. rid[1] \in Nat /\ rid[1] # -1
    BY RidType
  <2>2. ContentsOf(h, blocks)[rid] \in values[rid]
    BY DEF Holding
  <2>3. ContentsOf(h, blocks)[rid]
          = IF Allocated(dirs, rid[1]) THEN Value(PageOf(h, blocks, rid[1]), rid[2]) ELSE NoRecord
    BY <1>1, ContentsAre, ZenonT(30)
  <2>4. PageOf(h, blocks, rid[1]) = blocks[get_entry(dirs, rid[1]).offset + 1]
    BY <1>1, <2>1 DEF PageOf
  <2> HIDE DEF h
  <2> QED BY <2>1, <2>2, <2>3, <2>4, <1>5, ZenonT(30)
<1> QED BY <1>1, <1>4, <1>6, ZenonT(30) DEF Recoverable, PagesKept

\* A heap file without pages has no records.
LEMMA NothingHeld ==
  ASSUME NEW h, NEW blocks, \A p \in Nat : ~ Allocated(h.directory_buffer, p)
  PROVE  ContentsOf(h, blocks) = [rid \in Rid |-> NoRecord]
<1>1. \A rid \in Rid : ~ Allocated(h.directory_buffer, rid[1])
  BY RidType
<1> QED BY <1>1 DEF ContentsOf

\* create_heapfile, and a process that dies in it, leave no records.
LEMMA CreatedEmpty ==
  LET c == create_heapfile
  IN  /\ \E dirs \in Dirs : OnDisk(dirs, c.disk) /\ c.heap = Unused(dirs)
      /\ ContentsOf(c.heap, c.disk) = [rid \in Rid |-> NoRecord]
      /\ \A b \in c.was :
           /\ b \in Seq(Block) /\ Len(b) <= 1
           /\ b = <<>> \/ \E dirs \in Dirs : OnDisk(dirs, b)
           /\ ContentsOf(Reopened(b), b) = [rid \in Rid |-> NoRecord]
<1> DEFINE c == create_heapfile
           dirs == <<init_directory_page(0)>>
<1>1. /\ c.heap = Unused(dirs) /\ c.disk = <<NewDirectory>> /\ c.was = {<<>>, c.disk}
  <2>1. ASSUME NEW h, h = Unused(<<>>), NEW g, g = [h EXCEPT !.directory_buffer = dirs]
        PROVE  g = Unused(dirs)
    BY <2>1, Zenon DEF Unused
  <2>2. init_heapfile = Unused(<<>>)
    BY DEF init_heapfile, Unused
  <2>3. [init_heapfile EXCEPT !.directory_buffer = dirs] = Unused(dirs)
    BY <2>1, <2>2, Zenon
  <2>4. Append(<<>>, NewDirectory) = <<NewDirectory>> /\ Len(<<>>) = 0
    OBVIOUS
  <2> QED BY <2>3, <2>4 DEF create_heapfile, write_block
<1>2. /\ Consistent(c.heap, c.disk) /\ Len(c.disk) = 1 /\ c.disk \in Seq(Block)
      /\ \A p \in Nat : ~ Allocated(c.heap.directory_buffer, p)
  BY CreateConsistent
<1>3. init_directory_page(0).offset = 0 /\ init_directory_page(0).data = NewDirectory
  BY DEF init_directory_page
<1>4. dirs \in Dirs
  BY <1>1, <1>2 DEF Consistent, Structure, Unused
<1>5. \A d \in DOMAIN dirs : c.disk[dirs[d].offset + 1] = dirs[d].data
  BY <1>1, <1>3
<1> HIDE DEF c, dirs
<1>6. OnDisk(dirs, c.disk)
  BY <1>1, <1>2, <1>5 DEF OnDisk
<1>7. ContentsOf(c.heap, c.disk) = [rid \in Rid |-> NoRecord]
  BY <1>2, NothingHeld
<1>8. Reopened(c.disk) = c.heap
  BY <1>1, <1>4, <1>6, ReopenedUnused
<1>9. ContentsOf(Reopened(<<>>), <<>>) = [rid \in Rid |-> NoRecord]
  <2>1. Reopened(<<>>).directory_buffer = <<>>
    BY DEF Reopened, DirectoriesFrom, init_heapfile
  <2>2. \A p \in Nat : ~ Allocated(<<>>, p)
    BY DEF Allocated
  <2> HIDE DEF Reopened
  <2> QED BY <2>1, <2>2, NothingHeld
<1>10. <<>> \in Seq(Block) /\ Len(<<>>) <= 1
  OBVIOUS
<1> QED BY <1>1, <1>2, <1>4, <1>6, <1>7, <1>8, <1>9, <1>10 DEF c


\* What the invariant says of the state in which a call begins.
LEMMA CallBegins ==
  ASSUME CrashInv, status = "open"
  PROVE  /\ Now \in State /\ Now.heap = heap /\ Now.disk = disk
         /\ Durable(Now, had) /\ Consistent(heap, disk)
         /\ store = ContentsOf(heap, disk)
         /\ Len(disk) \in Nat /\ Len(disk) <= MaxBlocks
         /\ \A rid \in Rids : /\ rid[1] \in Nat /\ rid[2] \in Slots /\ rid = <<rid[1], rid[2]>>
                              /\ Allocated(heap.directory_buffer, rid[1])
<1>1. Now \in State /\ Now.heap = heap /\ Now.disk = disk
  BY DEF Now, State, CrashInv, TypeOK
<1>2. Durable(Now, had) /\ Consistent(heap, disk)
  BY <1>1 DEF CrashInv, Durable
<1>3. store = ContentsOf(heap, disk)
  BY DEF CrashInv, Contents
<1>4. Len(disk) \in Nat /\ Len(disk) <= MaxBlocks
  BY DEF CrashInv, TypeOK, Sized
<1>5. \A rid \in Rids : /\ rid[1] \in Nat /\ rid[2] \in Slots /\ rid = <<rid[1], rid[2]>>
                        /\ Allocated(heap.directory_buffer, rid[1])
  BY DEF Rids, Allocated
<1> QED BY <1>1, <1>2, <1>3, <1>4, <1>5

\* The calls of Interrupted leave recoverable files of bounded size.
LEMMA InterruptedLeft ==
  ASSUME CrashInv, status = "open", NEW st \in Interrupted
  PROVE  Left(st, had) /\ Len(st.disk) \in Nat /\ Len(st.disk) <= MaxBlocks
<1> DEFINE dirs == heap.directory_buffer
<1>1. /\ Now \in State /\ Now.heap = heap /\ Now.disk = disk
      /\ Durable(Now, had) /\ Consistent(Now.heap, Now.disk)
      /\ Len(disk) \in Nat /\ Len(disk) <= MaxBlocks
      /\ \A rid \in Rids : /\ rid[1] \in Nat /\ rid[2] \in Slots
                           /\ Allocated(dirs, rid[1])
  BY CallBegins
<1>2. \/ st = close_heapfile(Now)
      \/ Bounded /\ \E rec \in Record : st = put_record(Now, rec)
      \/ \E rid \in Rids : st = get_record(Now, rid[1])
      \/ \E rid \in Rids, rec \in Record : st = update_record(Now, rid[1], rid[2], rec)
      \/ \E rid \in Rids : st = delete_record(Now, rid[1], rid[2])
  BY DEF Interrupted
<1>3. CASE st = close_heapfile(Now)
  <2>1. Left(close_heapfile(Now), had)
    BY <1>1, CloseDurable
  <2>2. Len(close_heapfile(Now).disk) = Len(Now.disk)
    BY <1>1, CloseOnDisk
  <2> QED BY <1>1, <1>3, <2>1, <2>2
<1>4. ASSUME NEW rec \in Record, st = put_record(Now, rec), Bounded
      PROVE  Left(st, had) /\ Len(st.disk) \in Nat /\ Len(st.disk) <= MaxBlocks
  <2>1. Ready(put_record(Now, rec), had)
    BY <1>1, CallsReady
  <2>2. LET r == put_record(Now, rec)
        IN  /\ Len(r.disk) <= Len(Now.disk) + 2
            /\ vacant_page_id(Now.heap.directory_buffer) # -1 => Len(r.disk) = Len(Now.disk)
    BY <1>1, PutConsistent
  <2>3. Left(st, had) /\ Len(st.disk) \in Nat
    BY <1>4, <2>1 DEF Ready, State
  <2> QED BY <1>1, <1>4, <2>2, <2>3, MaxBlocksAssumption DEF Bounded
<1>5. ASSUME NEW rid \in Rids, NEW page \in Page,
             st = commit_page(SetPage(get_page(Now, rid[1]), page))
      PROVE  Len(st.disk) = Len(disk)
  BY <1>1, <1>5, ChangeConsistent
<1>6. ASSUME NEW rid \in Rids, st = get_record(Now, rid[1])
      PROVE  Left(st, had) /\ Len(st.disk) = Len(disk)
  <2>1. Ready(get_record(Now, rid[1]), had)
    BY <1>1, CallsReady
  <2>2. Len(get_page(Now, rid[1]).disk) = Len(Now.disk)
    BY <1>1, GetPageConsistent
  <2> QED BY <1>1, <1>6, <2>1, <2>2 DEF Ready, get_record
<1>7. ASSUME NEW rid \in Rids, NEW rec \in Record,
             st = update_record(Now, rid[1], rid[2], rec)
      PROVE  Left(st, had) /\ Len(st.disk) = Len(disk)
  <2> DEFINE page == write_fixed_len_page(get_page(Now, rid[1]).heap.cached_page, rid[2], rec)
  <2>1. Ready(update_record(Now, rid[1], rid[2], rec), had)
    BY <1>1, CallsReady
  <2>2. page \in Page
    BY <1>1, ChangeConsistent, PageCalls
  <2> QED BY <1>5, <1>7, <2>1, <2>2, ZenonT(30) DEF Ready, update_record
<1>8. ASSUME NEW rid \in Rids, st = delete_record(Now, rid[1], rid[2])
      PROVE  Left(st, had) /\ Len(st.disk) = Len(disk)
  <2> DEFINE page == delete_fixed_len_page(get_page(Now, rid[1]).heap.cached_page, rid[2])
  <2>1. Ready(delete_record(Now, rid[1], rid[2]), had)
    BY <1>1, CallsReady
  <2>2. page \in Page
    BY <1>1, ChangeConsistent, PageCalls
  <2> QED BY <1>5, <1>8, <2>1, <2>2, ZenonT(30) DEF Ready, delete_record
<1> QED BY <1>1, <1>2, <1>3, <1>4, <1>6, <1>7, <1>8


\* A call that runs to its end.
LEMMA CallStep ==
  ASSUME CrashInv, NEW r, Ready(r, had), Len(r.disk) <= MaxBlocks, InCall, Run(r),
         store' = Contents', had' = [rid \in Rid |-> had[rid] \cup {store'[rid]}]
  PROVE  CrashInv' /\ store' = ContentsOf(r.heap, r.disk)
<1>1. /\ status' = "open" /\ offset' = offset /\ heap' = r.heap /\ disk' = r.disk
      /\ offset \in Nat
  BY DEF InCall, Run, CrashInv, TypeOK
<1>2. store' = ContentsOf(r.heap, r.disk)
  BY <1>1 DEF Contents
<1>3. had' = Wider(r, had)
  BY <1>2 DEF Wider
<1>4. Durable([heap |-> r.heap, disk |-> r.disk, was |-> {r.disk}], had')
  BY <1>3, NowDurable, ZenonT(30) DEF Ready
<1>5. Durable(Now, had)'
  BY <1>1, <1>4 DEF Now
<1>6. TypeOK' /\ Sized'
  BY <1>1, ZenonT(30) DEF TypeOK, Sized, Ready, State
<1>7. had' = [rid \in Rid |-> had'[rid]] /\ \A rid \in Rid : store'[rid] \in had'[rid]
  OBVIOUS
<1> QED BY <1>1, <1>2, <1>5, <1>6, <1>7 DEF CrashInv

\* A step that changes no record.
LEMMA SameStep ==
  ASSUME CrashInv, store' = store, had' = [rid \in Rid |-> had[rid] \cup {store'[rid]}]
  PROVE  had' = had
<1>1. \A rid \in Rid : had[rid] \cup {store'[rid]} = had[rid]
  BY DEF CrashInv
<1>2. had = [rid \in Rid |-> had[rid]]
  BY DEF CrashInv
<1> QED BY <1>1, <1>2

\* A step that changes one record id; the page of a new record may be beyond the
\* bound on the file.
LEMMA WriteStep ==
  ASSUME CrashInv, NEW rid, NEW value \in Record \cup {NoRecord},
         store' = [store EXCEPT ![rid] = value],
         had' = [id \in Rid |-> had[id] \cup {store'[id]}]
  PROVE  [Abstract!Next]_<<store, had>>
<1>1. /\ store = [id \in Rid |-> store[id]] /\ had = [id \in Rid |-> had[id]]
      /\ \A id \in Rid : store[id] \in had[id]
  BY DEF CrashInv, Contents, ContentsOf
<1>2. CASE rid \in Rid
  <2>1. \A id \in Rid : store'[id] = IF id = rid THEN value ELSE store[id]
    BY <1>1
  <2>2. \A id \in Rid : had[id] \cup {store'[id]}
                          = IF id = rid THEN had[rid] \cup {value} ELSE had[id]
    BY <1>1, <2>1
  <2>3. had' = [had EXCEPT ![rid] = @ \cup {value}]
    BY <1>1, <2>2, Zenon
  <2>4. Abstract!Write(rid, value)
    BY <2>3, ZenonT(30) DEF Abstract!Write
  <2> QED BY <1>2, <2>4 DEF Abstract!Next
<1>3. CASE rid \notin Rid
  <2>1. store' = store
    BY <1>1, <1>3
  <2> QED BY <2>1, SameStep
<1> QED BY <1>2, <1>3

\* A file is complete on disk, or empty: what a step leaves that ends without
\* an open heap file.
Complete(blocks) ==
  /\ blocks \in Seq(Block) /\ Len(blocks) <= MaxBlocks
  /\ blocks = <<>> \/ \E dirs \in Dirs : OnDisk(dirs, blocks)

\* A step that leaves a complete file and no open heap file is one of the store.
LEMMA ClosedStep ==
  ASSUME status' = "closed", heap' = init_heapfile, offset' \in Nat, Complete(disk'),
         store' = Contents', had' = [rid \in Rid |-> had'[rid]],
         \A rid \in Rid : store'[rid] \in had'[rid]
  PROVE  CrashInv' /\ store' = ContentsOf(Reopened(disk'), disk')
<1>1. init_heapfile \in HeapStructure
  <2>1. <<>> \in Seq(Directory)
    OBVIOUS
  <2> QED BY <2>1, PageCalls DEF init_heapfile, HeapStructure
<1>2. TypeOK' /\ Sized'
  BY <1>1 DEF TypeOK, Sized, Complete
<1>3. store' = ContentsOf(Reopened(disk'), disk')
  BY DEF Contents
<1> QED BY <1>2, <1>3 DEF CrashInv, Complete

\* create_heapfile leaves an empty heap file, whatever there was before.
LEMMA CreateStep ==
  ASSUME Create, CrashInv, store' = Contents', had' = [rid \in Rid |-> {store'[rid]}]
  PROVE  CrashInv' /\ Abstract!Create
<1> DEFINE c == create_heapfile
<1>1. /\ status' = "open" /\ heap' = c.heap /\ disk' = c.disk /\ offset' \in Nat
  BY DEF Create, Run, CrashInv, TypeOK
<1>2. PICK dirs \in Dirs : OnDisk(dirs, c.disk) /\ c.heap = Unused(dirs)
  BY CreatedEmpty
<1>3. ContentsOf(c.heap, c.disk) = [rid \in Rid |-> NoRecord]
  BY CreatedEmpty
<1>4. /\ c.heap \in HeapStructure /\ c.disk \in Seq(Block) /\ Len(c.disk) = 1
      /\ Consistent(c.heap, c.disk)
  BY CreateConsistent
<1> HIDE DEF c
<1>5. store' = [rid \in Rid |-> NoRecord] /\ store' = ContentsOf(c.heap, c.disk)
  BY <1>1, <1>3 DEF Contents
<1>6. Holding(c.heap, c.disk, had')
  BY <1>5 DEF Holding
<1>7. c.heap.directory_buffer = dirs
  BY <1>2 DEF Unused
<1>8. Recoverable(dirs, c.disk, had')
  BY <1>2, <1>6, OnDiskRecoverable
<1>9. Durable([heap |-> c.heap, disk |-> c.disk, was |-> {c.disk}], had')
  BY <1>4, <1>6, <1>7, <1>8, NowDurable
<1>10. Durable(Now, had)'
  BY <1>1, <1>9 DEF Now
<1>11. TypeOK' /\ Sized'
  BY <1>1, <1>4, MaxBlocksAssumption DEF TypeOK, Sized
<1>12. CrashInv'
  BY <1>1, <1>10, <1>11 DEF CrashInv
<1>13. had' = [rid \in Rid |-> {[id \in Rid |-> NoRecord][rid]}]
  BY <1>5
<1> QED BY <1>5, <1>12, <1>13 DEF Abstract!Create, Abstract!Saved, Abstract!Empty

\* close_heapfile leaves on disk what the heap file holds.
LEMMA CloseContents ==
  ASSUME NEW st \in State, Consistent(st.heap, st.disk)
  PROVE  LET file == close_heapfile(st).disk
         IN  ContentsOf(Reopened(file), file) = ContentsOf(st.heap, st.disk)
<1> DEFINE dirs == st.heap.directory_buffer
           file == close_heapfile(st).disk
<1>1. /\ OnDisk(dirs, file)
      /\ \A p \in Nat : Allocated(dirs, p) =>
           PageOf(Unused(dirs), file, p) = PageOf(st.heap, st.disk, p)
  BY CloseOnDisk, ZenonT(30)
<1> HIDE DEF file
<1>2. dirs \in Dirs /\ Unused(dirs).directory_buffer = dirs
  BY <1>1 DEF OnDisk, Consistent, Structure, Unused
<1>3. Reopened(file) = Unused(dirs)
  BY <1>1, <1>2, ReopenedUnused
<1>4. ASSUME NEW rid \in Rid
      PROVE  ContentsOf(Unused(dirs), file)[rid] = ContentsOf(st.heap, st.disk)[rid]
  BY <1>1, <1>2, RidType, ContentsAre
<1>5. ContentsOf(Unused(dirs), file) = ContentsOf(st.heap, st.disk)
  BY <1>4, ZenonT(30) DEF ContentsOf
<1> QED BY <1>3, <1>5 DEF file

\* close_heapfile writes the cached page and every directory: nothing is lost.
LEMMA CloseStep ==
  ASSUME Close, CrashInv, store' = Contents', had' = [rid \in Rid |-> {store'[rid]}]
  PROVE  CrashInv' /\ Abstract!Close
<1> DEFINE c == close_heapfile(Now)
<1>1. /\ status = "open" /\ status' = "closed" /\ heap' = c.heap /\ disk' = c.disk
      /\ offset' \in Nat
  BY DEF Close, Run, CrashInv, TypeOK
<1>2. /\ Now \in State /\ Now.heap = heap /\ Now.disk = disk /\ Consistent(heap, disk)
      /\ store = ContentsOf(heap, disk) /\ Len(disk) <= MaxBlocks
  BY <1>1, CallBegins
<1>3. /\ c.heap = init_heapfile /\ OnDisk(heap.directory_buffer, c.disk)
      /\ Len(c.disk) = Len(disk)
  BY <1>2, CloseOnDisk
<1>4. ContentsOf(Reopened(c.disk), c.disk) = store
  BY <1>2, CloseContents
<1> HIDE DEF c
<1>5. Complete(c.disk)
  BY <1>2, <1>3, Zenon DEF Complete, OnDisk, Consistent, Structure, Unused
<1>6. CrashInv' /\ store' = ContentsOf(Reopened(c.disk), c.disk)
  BY <1>1, <1>3, <1>5, ClosedStep
<1> QED BY <1>4, <1>6 DEF Abstract!Close, Abstract!Saved

\* A crash leaves, for each record id, a value it had since the last close.
LEMMA CrashStep ==
  ASSUME Crash, CrashInv, store' = Contents', had' = [rid \in Rid |-> {store'[rid]}]
  PROVE  CrashInv' /\ (Abstract!Crash \/ Abstract!Create)
<1> DEFINE found == ContentsOf(Reopened(disk'), disk')
<1>1. PICK st \in Interrupted : disk' \in st.was
  BY DEF Crash
<1>2. /\ status' = "closed" /\ heap' = init_heapfile /\ offset' \in Nat
      /\ status \in {"absent", "closed", "opening", "open"}
  BY DEF Crash, CrashInv, TypeOK
<1>3. CASE status = "open"
  <2>1. Left(st, had) /\ Len(st.disk) \in Nat /\ Len(st.disk) <= MaxBlocks
    BY <1>3, InterruptedLeft
  <2>2. PICK dirs \in Dirs : Recoverable(dirs, disk', had)
    BY <1>1, <2>1 DEF Left
  <2>3. disk' \in Seq(Block) /\ Len(disk') \in Nat
    BY <2>2 DEF Recoverable, Structure
  <2>4. Len(disk') <= MaxBlocks
    BY <1>1, <2>1, <2>3, MaxBlocksAssumption DEF Left
  <2>5. (\E read \in Dirs : OnDisk(read, disk')) /\ Holding(Reopened(disk'), disk', had)
    BY <2>2, RecoverableOpens
  <2>6. Complete(disk')
    BY <2>3, <2>4, <2>5 DEF Complete
  <2>7. CrashInv' /\ store' = found
    BY <1>2, <2>6, ClosedStep
  <2>8. \A rid \in Rid : store'[rid] \in had[rid]
    BY <2>5, <2>7 DEF Holding
  <2>9. store' = [rid \in Rid |-> store'[rid]]
    BY <2>7 DEF ContentsOf
  <2> QED BY <2>7, <2>8, <2>9 DEF Abstract!Crash, Abstract!Saved
<1>4. CASE status = "opening"
  <2>1. disk' = disk
    BY <1>1, <1>4 DEF Interrupted, Now
  <2>2. disk = <<>> \/ \E dirs \in Dirs : OnDisk(dirs, disk)
    BY <1>4 DEF CrashInv, Opening
  <2>3. Complete(disk')
    BY <2>1, <2>2 DEF CrashInv, TypeOK, Sized, Complete
  <2>4. CrashInv' /\ store' = found
    BY <1>2, <2>3, ClosedStep
  <2>5. store = ContentsOf(Reopened(disk), disk)
    BY <1>4 DEF CrashInv, Contents
  <2>6. \A rid \in Rid : store'[rid] \in had[rid]
    BY <2>1, <2>4, <2>5 DEF CrashInv
  <2>7. store' = [rid \in Rid |-> store'[rid]]
    BY <2>4 DEF ContentsOf
  <2> QED BY <2>4, <2>6, <2>7 DEF Abstract!Crash, Abstract!Saved
<1>5. CASE status \in {"absent", "closed"}
  <2>1. st = create_heapfile
    BY <1>1, <1>5 DEF Interrupted
  <2>2. /\ disk' \in Seq(Block) /\ Len(disk') <= 1
        /\ disk' = <<>> \/ \E dirs \in Dirs : OnDisk(dirs, disk')
        /\ found = [rid \in Rid |-> NoRecord]
    BY <1>1, <2>1, CreatedEmpty
  <2>3. Len(disk') \in Nat
    BY <2>2
  <2>4. Len(disk') <= MaxBlocks
    BY <2>2, <2>3, MaxBlocksAssumption
  <2>5. Complete(disk')
    BY <2>2, <2>4 DEF Complete
  <2>6. CrashInv' /\ store' = found
    BY <1>2, <2>5, ClosedStep
  <2>7. store' = [rid \in Rid |-> NoRecord]
    BY <2>2, <2>6
  <2>8. had' = [rid \in Rid |-> {[id \in Rid |-> NoRecord][rid]}]
    BY <2>7
  <2> QED BY <2>6, <2>7, <2>8 DEF Abstract!Create, Abstract!Saved, Abstract!Empty
<1> QED BY <1>2, <1>3, <1>4, <1>5

\* open_heapfile finds the records that are on disk.
LEMMA OpenStep ==
  ASSUME Open \/ ReadDirectory, CrashInv,
         store' = Contents', had' = [rid \in Rid |-> had[rid] \cup {store'[rid]}]
  PROVE  CrashInv' /\ UNCHANGED <<store, had>>
<1>1. /\ disk' = disk /\ status \in {"closed", "opening"}
      /\ store = ContentsOf(Reopened(disk), disk)
      /\ had = [rid \in Rid |-> had[rid]] /\ \A rid \in Rid : store[rid] \in had[rid]
      /\ disk \in Seq(Block) /\ Len(disk) <= MaxBlocks
  BY DEF Open, ReadDirectory, CrashInv, Contents, TypeOK, Sized
<1>2. ASSUME status' # "open" PROVE UNCHANGED <<store, had>>
  <2>1. store' = store
    BY <1>1, <1>2 DEF Contents
  <2> QED BY <2>1, SameStep
<1>3. ASSUME status' = "opening", heap' \in HeapStructure, offset' \in Nat,
             \/ disk = <<>> /\ heap' = init_heapfile /\ offset' = 0
             \/ \E dirs \in Dirs : Opening(heap', offset', dirs, disk)
      PROVE  CrashInv' /\ UNCHANGED <<store, had>>
  <2>1. TypeOK' /\ Sized'
    BY <1>1, <1>3 DEF TypeOK, Sized
  <2>2. UNCHANGED <<store, had>>
    BY <1>2, <1>3
  <2> QED BY <1>1, <1>3, <2>1, <2>2 DEF CrashInv
<1>4. CASE Open
  <2>1. /\ status = "closed" /\ status' = "opening" /\ offset' = 0 /\ heap' = heap
        /\ heap = init_heapfile /\ heap \in HeapStructure
        /\ disk = <<>> \/ \E dirs \in Dirs : OnDisk(dirs, disk)
    BY <1>4 DEF Open, CrashInv, TypeOK
  <2>2. disk = <<>> \/ \E dirs \in Dirs : Opening(heap', offset', dirs, disk)
    BY <2>1, OpenFirst
  <2> QED BY <1>3, <2>1, <2>2
<1>5. CASE ReadDirectory
  <2>1. status = "opening"
    BY <1>5 DEF ReadDirectory
  <2>2. CASE disk = <<>> /\ heap = init_heapfile /\ offset = 0
    <3>1. ~ (offset < Len(disk))
      BY <2>2
    <3>2. status' = "closed" /\ heap' = init_heapfile /\ offset' = 0
      BY <1>5, <3>1 DEF ReadDirectory
    <3>3. UNCHANGED <<store, had>>
      BY <1>2, <3>2
    <3>4. Complete(disk')
      BY <1>1, <2>2 DEF Complete
    <3> QED BY <1>1, <3>2, <3>3, <3>4, ClosedStep
  <2>3. ASSUME NEW dirs \in Dirs, Opening(heap, offset, dirs, disk)
        PROVE  CrashInv' /\ UNCHANGED <<store, had>>
    <3>1. /\ heap' \in HeapStructure /\ offset' \in Nat
          /\ \/ status' = "open" /\ heap' = Unused(dirs)
             \/ status' = "opening" /\ Opening(heap', offset', dirs, disk)
      BY <1>5, <2>3, ReadNext DEF CrashInv
    <3>2. CASE status' = "opening" /\ Opening(heap', offset', dirs, disk)
      BY <1>3, <3>1, <3>2
    <3>3. CASE status' = "open" /\ heap' = Unused(dirs)
      <4>1. OnDisk(dirs, disk) /\ Consistent(Unused(dirs), disk)
        BY <2>3 DEF Opening, OnDisk
      <4>2. Unused(dirs).directory_buffer = dirs
        BY DEF Unused
      <4>3. store' = store
        BY <1>1, <3>3, <4>1, ReopenedUnused DEF Contents
      <4>4. had' = had
        BY <4>3, SameStep
      <4>5. Holding(Unused(dirs), disk, had)
        BY <1>1, <4>1, ReopenedUnused DEF Holding
      <4>6. Recoverable(dirs, disk, had)
        BY <4>1, <4>5, OnDiskRecoverable, ZenonT(30)
      <4>7. Durable([heap |-> Unused(dirs), disk |-> disk, was |-> {disk}], had)
        BY <4>1, <4>2, <4>5, <4>6, NowDurable, ZenonT(30)
      <4>8. Durable(Now, had)'
        BY <1>1, <3>3, <4>4, <4>7, ZenonT(30) DEF Now
      <4>9. TypeOK' /\ Sized'
        BY <1>1, <3>1, <3>3 DEF TypeOK, Sized
      <4> QED BY <1>1, <3>3, <4>3, <4>4, <4>8, <4>9 DEF CrashInv
    <3> QED BY <3>1, <3>2, <3>3
  <2> QED BY <2>1, <2>2, <2>3 DEF CrashInv
<1> QED BY <1>4, <1>5


\* The calls on an open heap file change one record id, or none.
LEMMA CallSteps ==
  ASSUME CrashInv, Unsettled, ~ Open, ~ ReadDirectory,
         store' = Contents', had' = [rid \in Rid |-> had[rid] \cup {store'[rid]}]
  PROVE  CrashInv' /\ [Abstract!Next]_<<store, had>>
<1> DEFINE before == ContentsOf(Now.heap, Now.disk)
           after(r) == ContentsOf(r.heap, r.disk)
           Wrote(r, rid, value) == after(r) = [before EXCEPT ![rid] = value]
<1>1. InCall /\ status = "open"
  BY DEF Unsettled, Put, Get, Update, Delete, InCall
<1>2. /\ Now \in State /\ Now.heap = heap /\ Now.disk = disk
      /\ Durable(Now, had) /\ Consistent(Now.heap, Now.disk) /\ store = before
      /\ \A rid \in Rids : /\ rid[1] \in Nat /\ rid[2] \in Slots /\ rid = <<rid[1], rid[2]>>
                           /\ Allocated(Now.heap.directory_buffer, rid[1])
  BY <1>1, CallBegins
<1>3. ASSUME NEW r \in Interrupted, Ready(r, had), Run(r)
      PROVE  CrashInv' /\ store' = after(r)
  BY <1>1, <1>3, InterruptedLeft, CallStep
<1>4. ASSUME NEW r, store' = after(r), after(r) = before
      PROVE  [Abstract!Next]_<<store, had>>
  BY <1>2, <1>4, SameStep
<1>5. ASSUME NEW r, store' = after(r), NEW rid, NEW value \in Record \cup {NoRecord},
             Wrote(r, rid, value)
      PROVE  [Abstract!Next]_<<store, had>>
  <2>1. store' = [store EXCEPT ![rid] = value]
    BY <1>2, <1>5
  <2> QED BY <2>1, WriteStep, Zenon
<1>6. ASSUME NEW rec \in Record, Put(rec)
      PROVE  CrashInv' /\ [Abstract!Next]_<<store, had>>
  <2> DEFINE r == put_record(Now, rec)
  <2>1. r \in Interrupted /\ Run(r)
    BY <1>1, <1>6 DEF Put, Interrupted
  <2>2. Ready(r, had)
    BY <1>2, CallsReady
  <2>3. after(r) = before \/ \E p \in Nat, s \in Slots : Wrote(r, <<p, s>>, rec)
    <3>1. \/ \E p \in Nat, s \in Slots :
               /\ Allocated(r.heap.directory_buffer, p)
               /\ <<p, s>> \in Rid => before[<<p, s>>] = NoRecord
               /\ after(r) = [before EXCEPT ![<<p, s>>] = rec]
          \/ after(r) = before
      BY <1>2, CallContents, Zenon
    <3> HIDE DEF r, before, after
    <3> QED BY <3>1
  <2> HIDE DEF r, before, after
  <2> QED BY <1>3, <1>4, <1>5, <2>1, <2>2, <2>3, ZenonT(30)
<1>7. ASSUME NEW rid \in Rids, Get(rid)
      PROVE  CrashInv' /\ [Abstract!Next]_<<store, had>>
  <2> DEFINE r == get_record(Now, rid[1])
  <2>1. r \in Interrupted /\ Run(r)
    BY <1>1, <1>7 DEF Get, Interrupted
  <2>2. Ready(r, had)
    BY <1>2, CallsReady
  <2>3. after(r) = before
    <3>1. 0 \in Slots
      BY CapacityAssumption DEF Slots
    <3> QED BY <1>2, <3>1, CallContents, ZenonT(30)
  <2> HIDE DEF r, before, after
  <2> QED BY <1>3, <1>4, <2>1, <2>2, <2>3
<1>8. ASSUME NEW rid \in Rids, NEW rec \in Record, Update(rid, rec)
      PROVE  CrashInv' /\ [Abstract!Next]_<<store, had>>
  <2> DEFINE r == update_record(Now, rid[1], rid[2], rec)
  <2>1. r \in Interrupted /\ Run(r)
    BY <1>1, <1>8 DEF Update, Interrupted
  <2>2. Ready(r, had)
    BY <1>2, CallsReady
  <2>3. Wrote(r, <<rid[1], rid[2]>>, rec)
    <3>1. \A p \in Nat, s \in Slots, record \in Record :
            Allocated(Now.heap.directory_buffer, p) =>
              after(update_record(Now, p, s, record)) = [before EXCEPT ![<<p, s>>] = record]
      BY <1>2, CallContents, ZenonT(30)
    <3> HIDE DEF before, after
    <3> QED BY <1>2, <3>1
  <2> HIDE DEF r, before, after
  <2> QED BY <1>3, <1>5, <2>1, <2>2, <2>3
<1>9. ASSUME NEW rid \in Rids, Delete(rid)
      PROVE  CrashInv' /\ [Abstract!Next]_<<store, had>>
  <2> DEFINE r == delete_record(Now, rid[1], rid[2])
  <2>1. r \in Interrupted /\ Run(r)
    BY <1>1, <1>9 DEF Delete, Interrupted
  <2>2. Ready(r, had)
    BY <1>2, CallsReady
  <2>3. Wrote(r, <<rid[1], rid[2]>>, NoRecord)
    <3>1. \A p \in Nat, s \in Slots :
            Allocated(Now.heap.directory_buffer, p) =>
              /\ after(get_record(Now, p)) = before
              /\ after(delete_record(Now, p, s)) = [before EXCEPT ![<<p, s>>] = NoRecord]
      BY <1>2, CallContents, ZenonT(30)
    <3> HIDE DEF before, after
    <3> QED BY <1>2, <3>1
  <2> HIDE DEF r, before, after
  <2> QED BY <1>3, <1>5, <2>1, <2>2, <2>3, Zenon
<1> QED BY <1>6, <1>7, <1>8, <1>9, ZenonT(30) DEF Unsettled

\* Before the first create_heapfile there are no records.
LEMMA CrashInit == StoreInit => CrashInv /\ Abstract!Init
<1> SUFFICES ASSUME StoreInit PROVE CrashInv /\ Abstract!Init
  OBVIOUS
<1>1. TypeOK /\ status = "absent" /\ heap = init_heapfile /\ disk = <<>>
  BY InitInvariant DEF StoreInit, Init, IInv
<1>2. <<>> \in create_heapfile.was
  BY DEF create_heapfile, write_block
<1>3. store = [rid \in Rid |-> NoRecord]
  BY <1>1, <1>2, CreatedEmpty DEF StoreInit, Contents
<1>4. Sized
  BY <1>1, MaxBlocksAssumption DEF Sized
<1>5. had = [rid \in Rid |-> {[id \in Rid |-> NoRecord][rid]}]
  BY <1>3 DEF StoreInit
<1>6. CrashInv
  BY <1>1, <1>4 DEF CrashInv, StoreInit
<1> QED BY <1>3, <1>5, <1>6 DEF Abstract!Init, Abstract!Empty, Abstract!Saved

\* Every call, every round of open_heapfile and every crash preserves the
\* invariant, and is a step of the record store or changes no record.
LEMMA CrashNext ==
  CrashInv /\ [StoreNext]_storeVars => CrashInv' /\ [Abstract!Next]_<<store, had>>
<1> SUFFICES ASSUME CrashInv, [StoreNext]_storeVars
             PROVE  CrashInv' /\ [Abstract!Next]_<<store, had>>
  OBVIOUS
<1>1. CASE Settled /\ store' = Contents' /\ had' = [rid \in Rid |-> {store'[rid]}]
  BY <1>1, CreateStep, CloseStep, CrashStep DEF Settled, Abstract!Next
<1>2. CASE /\ Unsettled
           /\ store' = Contents' /\ had' = [rid \in Rid |-> had[rid] \cup {store'[rid]}]
  BY <1>2, OpenStep, CallSteps
<1>3. CASE UNCHANGED storeVars
  <2>1. UNCHANGED <<status, offset, heap, disk, store, had>>
    BY <1>3 DEF storeVars, vars
  <2> QED BY <2>1 DEF CrashInv, TypeOK, Sized, Now, Contents
<1> QED BY <1>1, <1>2, <1>3 DEF StoreNext

-----------------------------------------------------------------------------
\* A heap file implements a store of records, although the process may die at any
\* write: put_record, update_record and delete_record change the record of one id,
\* close_heapfile none, and after a crash open_heapfile finds for each record id
\* a value that it had since the file was last closed.
THEOREM HeapfileImplementsStore == StoreSpec => ImplementsStore
BY CrashInit, CrashNext, PTL DEF StoreSpec, ImplementsStore, Abstract!Spec

\* The inductive invariant holds in every reachable state.
LEMMA CrashInvariant == StoreSpec => []CrashInv
BY CrashInit, CrashNext, PTL DEF StoreSpec

\* Whatever calls and crashes came before, no two blocks of an open heap file
\* share an offset.
THEOREM StoreBlocksDistinct == StoreSpec => []BlocksDistinct
<1>1. CrashInv => BlocksDistinct
  BY CallBegins, ConsistentDistinct
<1> QED BY <1>1, CrashInvariant, PTL

\* Whatever calls and crashes came before, the directories on disk can be opened,
\* also those that a crash at this moment would leave.
THEOREM StoreChainIntact == StoreSpec => []ChainIntact
<1>1. ASSUME CrashInv PROVE disk = <<>> \/ \E dirs \in Dirs : OnDisk(dirs, disk)
  <2>1. CASE status = "open"
    <3>1. Recoverable(heap.directory_buffer, disk, had) /\ heap.directory_buffer \in Dirs
      BY <1>1, <2>1, CallBegins DEF Durable, Consistent, Structure
    <3> QED BY <3>1, RecoverableOpens
  <2>2. CASE status # "open"
    BY <1>1, <2>2 DEF CrashInv, TypeOK, Opening
  <2> QED BY <2>1, <2>2
<1>2. ASSUME disk = <<>> PROVE ChainIntact
  BY <1>2 DEF ChainIntact, DirectoriesFrom
<1>3. ASSUME NEW dirs \in Dirs, OnDisk(dirs, disk) PROVE ChainIntact
  <2>1. DirectoriesFrom(disk) = dirs
    BY <1>3, ChainIsDirectories
  <2>2. DirectoriesLinked(dirs, disk) /\ PagesPlaced(dirs, disk)
    BY <1>3 DEF OnDisk, Consistent, Unused, Structure
  <2>3. ASSUME NEW d \in DOMAIN dirs
        PROVE  /\ IF d < Len(dirs) THEN is_full(dirs[d]) ELSE dirs[d].data.next_directory = 0
               /\ \A k \in DOMAIN dirs[d].data.entries :
                    LET off == dirs[d].data.entries[k].offset
                    IN  off < Len(disk) /\ disk[off + 1] \in Page
    <3>1. /\ DOMAIN dirs = 1 .. Len(dirs) /\ Len(dirs) \in Nat /\ d \in Nat \ {0}
          /\ dirs[d].data \in DirectoryData
      BY DirectoryType
    <3>2. IF d < Len(dirs) THEN is_full(dirs[d]) ELSE dirs[d].data.next_directory = 0
      BY <2>2, <3>1 DEF DirectoriesLinked
    <3>3. ASSUME NEW k \in DOMAIN dirs[d].data.entries
          PROVE  /\ dirs[d].data.entries[k].offset < Len(disk)
                 /\ disk[dirs[d].data.entries[k].offset + 1] \in Page
      <4>1. k \in 1 .. DirCapacity
        BY <3>1, DirCapacityAssumption DEF DirectoryData
      <4>2. PageId(d, k) \in Nat /\ DirNo(PageId(d, k)) = d /\ SlotNo(PageId(d, k)) = k
        BY <3>1, <4>1, PageIds, ZenonT(30)
      <4>3. /\ Allocated(dirs, PageId(d, k))
            /\ get_entry(dirs, PageId(d, k)) = dirs[d].data.entries[k]
        BY <4>2 DEF Allocated, get_entry
      <4> QED BY <2>2, <4>2, <4>3, ZenonT(30) DEF PagesPlaced
    <3> QED BY <3>2, <3>3
  <2> QED BY <2>1, <2>3 DEF ChainIntact
<1>4. CrashInv => ChainIntact
  BY <1>1, <1>2, <1>3
<1> QED BY <1>4, CrashInvariant, PTL

\* Whatever calls and crashes came before, each call changes the record it is
\* meant to change and no other, and closing the file loses nothing.
THEOREM StoreCallEffects == StoreSpec => []CallEffects
<1>1. CrashInv => CallEffects
  <2> SUFFICES ASSUME CrashInv, status = "open" PROVE CallEffects
    BY Zenon DEF CallEffects
  <2> DEFINE before == ContentsOf(Now.heap, Now.disk)
             after(r) == ContentsOf(r.heap, r.disk)
             closed == close_heapfile(Now).disk
  <2>1. /\ Now \in State /\ Now.heap = heap /\ Now.disk = disk
        /\ Durable(Now, had) /\ Consistent(Now.heap, Now.disk) /\ Contents = before
        /\ \A rid \in Rids : /\ rid[1] \in Nat /\ rid[2] \in Slots /\ rid = <<rid[1], rid[2]>>
                             /\ Allocated(Now.heap.directory_buffer, rid[1])
    BY CallBegins DEF Contents
  <2>2. ASSUME NEW rec \in Record, Bounded
        PROVE  \/ \E rid \in Rid : /\ before[rid] = NoRecord
                                   /\ after(put_record(Now, rec)) = [before EXCEPT ![rid] = rec]
               \/ ~ VacantPageHasSlot /\ after(put_record(Now, rec)) = before
    <3> DEFINE r == put_record(Now, rec)
               vacant == vacant_page_id(Now.heap.directory_buffer)
    <3>1. \/ \E p \in Nat, s \in Slots :
               /\ Allocated(r.heap.directory_buffer, p)
               /\ <<p, s>> \in Rid => before[<<p, s>>] = NoRecord
               /\ after(r) = [before EXCEPT ![<<p, s>>] = rec]
          \/ /\ vacant # -1 /\ Filled(PageOf(Now.heap, Now.disk, vacant)) = Slots
             /\ after(r) = before
      BY <2>1, CallContents, Zenon
    <3>2. r \in Interrupted
      BY <2>2 DEF Interrupted
    <3>3. Len(r.disk) \in Nat /\ Len(r.disk) <= MaxBlocks
      BY <3>2, InterruptedLeft
    <3>4. Structure(r.heap.directory_buffer, r.disk)
      BY <2>1, PutConsistent DEF Consistent
    <3> HIDE DEF r, before, after
    <3>5. ASSUME NEW p \in Nat, NEW s \in Slots, Allocated(r.heap.directory_buffer, p)
          PROVE  <<p, s>> \in Rid
      <4>1. p < Len(r.disk)
        BY <3>4, <3>5, AllocatedBounded
      <4>2. p \in 0 .. MaxBlocks - 1
        BY <3>3, <4>1, MaxBlocksAssumption
      <4> QED BY <4>2 DEF Rid
    <3>6. CASE /\ vacant # -1 /\ Filled(PageOf(Now.heap, Now.disk, vacant)) = Slots
               /\ after(r) = before
      <4>1. ~ VacantPageHasSlot
        BY <2>1, <3>6 DEF VacantPageHasSlot
      <4> QED BY <3>6, <4>1 DEF r
    <3> QED BY <3>1, <3>5, <3>6, Zenon DEF r
  <2>3. ASSUME NEW rid \in Rids
        PROVE  /\ after(get_record(Now, rid[1])) = before
               /\ after(delete_record(Now, rid[1], rid[2])) = [before EXCEPT ![rid] = NoRecord]
               /\ \A rec \in Record :
                    after(update_record(Now, rid[1], rid[2], rec)) = [before EXCEPT ![rid] = rec]
    <3>1. \A p \in Nat, s \in Slots : Allocated(Now.heap.directory_buffer, p) =>
            /\ after(get_record(Now, p)) = before
            /\ after(delete_record(Now, p, s)) = [before EXCEPT ![<<p, s>>] = NoRecord]
      BY <2>1, CallContents, ZenonT(30)
    <3>2. \A p \in Nat, s \in Slots, rec \in Record : Allocated(Now.heap.directory_buffer, p) =>
            after(update_record(Now, p, s, rec)) = [before EXCEPT ![<<p, s>>] = rec]
      BY <2>1, CallContents, ZenonT(30)
    <3> HIDE DEF before, after
    <3> QED BY <2>1, <3>1, <3>2
  <2>4. ContentsOf(Reopened(closed), closed) = before
    BY <2>1, CloseContents
  <2> HIDE DEF before
  <2> QED BY <2>1, <2>2, <2>3, <2>4 DEF CallEffects
<1> QED BY <1>1, CrashInvariant, PTL

=============================================================================
