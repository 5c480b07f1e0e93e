------------------------------ MODULE HeapScan ------------------------------
(***************************************************************************)
(* RecordIterator of a1/heapfile.cpp and the loop over it of the scan and  *)
(* select programs, composed with the heap file it walks.  The iterator    *)
(* shares the heap file's page cache, so a scan evicts a dirty page.       *)
(*                                                                         *)
(* Two things the code leaves undefined are modelled as such: has_next is  *)
(* not initialized by the constructor, so it starts with either value, and *)
(* directory_buffer[dir_no] past the end of the vector leads to "undefined"*)
(* from which nothing is promised.                                         *)
(***************************************************************************)
EXTENDS HeapfileContents

VARIABLES
  pc,        \* "idle", "loop", "test", "done" or "undefined"
  pid, slot, has_next,
  garbage,   \* the value that has_next was left with (history)
  seen       \* the record ids printed, with their records

scanVars == <<pc, pid, slot, has_next, garbage, seen>>

ScanInit ==
  /\ Init
  /\ pc = "idle"
  /\ pid = 0 /\ slot = -1
  /\ has_next = FALSE /\ garbage = FALSE
  /\ seen = <<>>

\* RecordIterator::RecordIterator, up to its call of increment_iterator
NewIterator ==
  /\ pc = "idle" /\ status = "open"
  /\ pid' = 0 /\ slot' = -1
  /\ has_next' \in BOOLEAN
  /\ garbage' = has_next'
  /\ pc' = "loop"
  /\ UNCHANGED <<vars, seen>>

\* increment_iterator: the test of its loop fails
Exhausted ==
  /\ pc = "loop" /\ ~ Allocated(heap.directory_buffer, pid)
  /\ has_next' = FALSE
  /\ pc' = "test"
  /\ UNCHANGED <<vars, pid, slot, garbage, seen>>

\* Mutant: the search of the next page begins after the slot of the last one.
NextSlotKept ==
  LET got == get_page(Now, pid)
      filled == get_next_filled_slot(got.heap.cached_page, slot)
  IN  /\ pc = "loop" /\ Allocated(heap.directory_buffer, pid)
      /\ Run(got)
      /\ IF filled >= 0
           THEN slot' = filled /\ pc' = "test" /\ UNCHANGED pid
           ELSE /\ pid' = pid + 1
                /\ pc' = IF DirNo(pid') \in DOMAIN heap.directory_buffer
                           THEN "loop" ELSE "undefined"
                /\ UNCHANGED slot
      /\ UNCHANGED <<status, offset, has_next, garbage, seen>>

\* Mutant: a page without further records is not left.
NextSlotStuck ==
  LET got == get_page(Now, pid)
      filled == get_next_filled_slot(got.heap.cached_page, slot)
  IN  /\ pc = "loop" /\ Allocated(heap.directory_buffer, pid)
      /\ Run(got)
      /\ IF filled >= 0
           THEN slot' = filled /\ pc' = "test"
           ELSE UNCHANGED <<slot, pc>>
      /\ UNCHANGED <<status, offset, pid, has_next, garbage, seen>>

\* increment_iterator: one round of its loop
NextSlot ==
  LET got == get_page(Now, pid)
      filled == get_next_filled_slot(got.heap.cached_page, slot)
  IN  /\ pc = "loop" /\ Allocated(heap.directory_buffer, pid)
      /\ Run(got)
      /\ slot' = filled
      /\ IF filled >= 0
           THEN pc' = "test" /\ UNCHANGED pid
           ELSE /\ pid' = pid + 1
                /\ pc' = IF DirNo(pid') \in DOMAIN heap.directory_buffer
                           THEN "loop" ELSE "undefined"
      /\ UNCHANGED <<status, offset, has_next, garbage, seen>>

\* The body of the loop of scan: nextRID and next, up to increment_iterator
Visit ==
  LET got == get_page(Now, pid)
  IN  /\ pc = "test" /\ has_next
      /\ Run(got)
      /\ seen' = Append(seen, [rid |-> <<pid, slot>>,
                               rec |-> read_fixed_len_page(got.heap.cached_page, slot)])
      /\ pc' = "loop"
      /\ UNCHANGED <<status, offset, pid, slot, has_next, garbage>>

\* hasNext returns false
Finish ==
  /\ pc = "test" /\ ~ has_next
  /\ pc' = "done"
  /\ UNCHANGED <<vars, pid, slot, has_next, garbage, seen>>

\* The iterator goes out of scope.
Discard ==
  /\ pc = "done"
  /\ pc' = "idle" /\ seen' = <<>>
  /\ pid' = 0 /\ slot' = -1
  /\ has_next' = FALSE /\ garbage' = FALSE
  /\ UNCHANGED vars

ScanStep == Exhausted \/ NextSlot \/ Visit \/ Finish

\* The calls of Heapfile come before and after a scan, not during one.
ScanNext ==
  \/ pc = "idle" /\ Next /\ UNCHANGED scanVars
  \/ NewIterator
  \/ ScanStep
  \/ Discard

\* The scan is straight-line code: it does not stop between two steps.
ScanSpec ==
  ScanInit /\ [][ScanNext]_<<vars, scanVars>> /\ WF_<<vars, scanVars>>(ScanStep)

-----------------------------------------------------------------------------
Live == LET held == Contents IN {rid \in Rid : held[rid] # NoRecord}

Before(a, b) == a[1] < b[1] \/ (a[1] = b[1] /\ a[2] < b[2])

\* A scan prints records that the file holds, each with its contents, once and
\* in the order of their ids, whichever page next and increment_iterator cache.
ScanSound ==
  /\ LET held == Contents
     IN  \A i \in DOMAIN seen : seen[i].rec = held[seen[i].rid]
  /\ \A i, j \in DOMAIN seen : i < j => Before(seen[i].rid, seen[j].rid)

\* If has_next happened to be true when the iterator was built, a scan that ends
\* has printed every record, and one that runs past the last directory too.
ScanComplete ==
  (pc \in {"done", "undefined"} /\ garbage) => {seen[i].rid : i \in DOMAIN seen} = Live

\* A scan comes to an end: no page makes increment_iterator loop.
ScanEnds == []<>(pc \notin {"loop", "test"})

=============================================================================
