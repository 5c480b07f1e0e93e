-------------------------- MODULE HeapfileContents --------------------------
(***************************************************************************)
(* What a heap file contains: the record of each record id, as it is in    *)
(* memory while the file is open, and as open_heapfile would find it on    *)
(* disk otherwise.                                                         *)
(***************************************************************************)
EXTENDS Heapfile

CONSTANT NoRecord  \* what a record id without a record holds

ASSUME NoRecordAssumption == NoRecord \notin Record \cup {Blank}

Rid == (0 .. MaxBlocks - 1) \X Slots

\* The first n directories that the loop of open_heapfile reads from an offset on;
\* a directory without a successor in the file is the last.
ChainFrom(blocks) ==
  LET chain[n \in 0 .. Len(blocks)] ==
        [off \in 0 .. Len(blocks) - 1 |->
           LET next == blocks[off + 1].next_directory
           IN  IF n = 0 THEN <<>>
               ELSE <<[offset |-> off, data |-> blocks[off + 1]]>>
                      \o IF next \in 1 .. Len(blocks) - 1 THEN chain[n - 1][next] ELSE <<>>]
  IN  chain

DirectoriesFrom(blocks) == IF blocks = <<>> THEN <<>> ELSE ChainFrom(blocks)[Len(blocks)][0]

\* The heap file that open_heapfile makes of a file
Reopened(blocks) == [init_heapfile EXCEPT !.directory_buffer = DirectoriesFrom(blocks)]

ContentsOf(h, blocks) ==
  [rid \in Rid |->
     LET page == PageOf(h, blocks, rid[1])
     IN  IF Allocated(h.directory_buffer, rid[1]) /\ page.flag[rid[2]]
           THEN read_fixed_len_page(page, rid[2])
           ELSE NoRecord]

Contents == ContentsOf(IF status = "open" THEN heap ELSE Reopened(disk), disk)

-----------------------------------------------------------------------------
\* Whatever calls and crashes came before, put_record stores its record under
\* an id that held none, unless the page it was promised is full, update_record
\* and delete_record change the record of their id, and none of these, nor
\* get_record, nor closing and opening the file, changes any other record: no
\* page is lost when another one takes its place in the cache.
CallEffects ==
  status = "open" =>
    LET before == Contents
        after(st) == ContentsOf(st.heap, st.disk)
        put(rec) == after(put_record(Now, rec))
        closed == close_heapfile(Now).disk
    IN  /\ \A rec \in Record : Bounded =>
             \/ \E rid \in Rid : before[rid] = NoRecord /\ put(rec) = [before EXCEPT ![rid] = rec]
             \/ ~ VacantPageHasSlot /\ put(rec) = before
        /\ \A rid \in Rids :
             /\ after(get_record(Now, rid[1])) = before
             /\ after(delete_record(Now, rid[1], rid[2])) = [before EXCEPT ![rid] = NoRecord]
             /\ \A rec \in Record :
                  after(update_record(Now, rid[1], rid[2], rec)) = [before EXCEPT ![rid] = rec]
        /\ ContentsOf(Reopened(closed), closed) = before

\* The directories that close_heapfile or a crash leaves on disk can be opened:
\* the chain ends within the file, the entries are pages of the file, and every
\* directory but the last is full, as the iterator's page ids take it to be.
ChainIntact ==
  LET dirs == DirectoriesFrom(disk)
  IN  \A d \in DOMAIN dirs :
        /\ IF d < Len(dirs) THEN is_full(dirs[d]) ELSE dirs[d].data.next_directory = 0
        /\ \A k \in DOMAIN dirs[d].data.entries :
             LET off == dirs[d].data.entries[k].offset
             IN  off < Len(disk) /\ disk[off + 1] \in Page

=============================================================================
