-------------------------- MODULE HeapScan_proofs --------------------------
(***************************************************************************)
(* What a scan prints, for every page capacity, directory capacity, set of *)
(* records and size of the file.                                           *)
(***************************************************************************)
EXTENDS HeapScan, Heapfile_proofs

USE SMTT(30), ZenonT(30)

AnyRid == Nat \X Slots

\* The page of a record id is allocated and the slot filled.
Holds(h, blocks, rid) ==
  /\ Allocated(h.directory_buffer, rid[1])
  /\ PageOf(h, blocks, rid[1]).flag[rid[2]]

RecordOf(h, blocks, rid) == PageOf(h, blocks, rid[1]).rec[rid[2]]

UpTo(a, b) == a[1] < b[1] \/ (a[1] = b[1] /\ a[2] <= b[2])

Seen(rid) == \E i \in DOMAIN seen : seen[i].rid = rid

(***************************************************************************)
(* The inductive invariant: what has been printed is what the file holds   *)
(* up to the place of the iterator.  `garbage` is has_next before the      *)
(* first round: if it was false, nothing is printed.                       *)
(***************************************************************************)
ScanTypes ==
  /\ pc \in {"idle", "loop", "test", "done", "undefined"}
  /\ pid \in Nat /\ slot \in Slots \cup {-1}
  /\ has_next \in BOOLEAN /\ garbage \in BOOLEAN
  /\ seen \in Seq([rid : AnyRid, rec : Record \cup {Blank}])

Printed ==
  IF pc = "idle"
    THEN seen = <<>>
    ELSE /\ status = "open"
         /\ has_next => garbage
         /\ \A i \in DOMAIN seen : /\ Holds(heap, disk, seen[i].rid)
                                   /\ seen[i].rec = RecordOf(heap, disk, seen[i].rid)
         /\ \A i, j \in DOMAIN seen : i < j => Before(seen[i].rid, seen[j].rid)

AtLoop ==
  pc = "loop" =>
    /\ garbage => has_next
    /\ \A i \in DOMAIN seen : UpTo(seen[i].rid, <<pid, slot>>)
    /\ garbage => \A rid \in AnyRid :
                    Holds(heap, disk, rid) /\ UpTo(rid, <<pid, slot>>) => Seen(rid)

AtTest ==
  pc = "test" /\ has_next =>
    /\ slot \in Slots /\ Holds(heap, disk, <<pid, slot>>)
    /\ \A i \in DOMAIN seen : Before(seen[i].rid, <<pid, slot>>)
    /\ \A rid \in AnyRid : Holds(heap, disk, rid) /\ Before(rid, <<pid, slot>>) => Seen(rid)

AtEnd ==
  garbage /\ (pc \in {"done", "undefined"} \/ (pc = "test" /\ ~ has_next)) =>
    \A rid \in AnyRid : Holds(heap, disk, rid) => Seen(rid)

ScanInv == IInv /\ Sized /\ ScanTypes /\ Printed /\ AtLoop /\ AtTest /\ AtEnd

-----------------------------------------------------------------------------
\* The search of a page returns its next filled slot, if there is one.
LEMMA NextFilled ==
  ASSUME NEW page \in Page, NEW s \in Slots \cup {-1}
  PROVE  LET next == get_next_filled_slot(page, s)
         IN  \/ /\ next = -1
                /\ \A t \in Slots : page.flag[t] => t <= s
             \/ /\ next \in Slots /\ page.flag[next] /\ s < next
                /\ \A t \in Slots : page.flag[t] => t <= s \/ next <= t
<1> DEFINE later == {t \in Filled(page) : t > s}
<1>1. Slots \subseteq Nat /\ s \in Int
  BY CapacityAssumption DEF Slots
<1>2. later \subseteq Nat /\ \A t \in Slots : page.flag[t] /\ ~ (t <= s) => t \in later
  <2>1. \A t \in Slots : ~ (t <= s) => t > s
    BY <1>1
  <2> QED BY <2>1, <1>1, ZenonT(30) DEF Filled
<1>3. CASE later = {}
  BY <1>2, <1>3 DEF get_next_filled_slot
<1>4. CASE later # {}
  <2>1. First(later) \in later /\ \A t \in later : First(later) <= t
    <3> HIDE DEF later
    <3> QED BY <1>2, <1>4, FirstIsLeast, ZenonT(30)
  <2>2. get_next_filled_slot(page, s) = First(later)
    BY <1>4 DEF get_next_filled_slot
  <2>3. First(later) \in Slots /\ page.flag[First(later)] /\ s < First(later)
    BY <2>1, <1>1 DEF Filled
  <2> QED BY <2>1, <2>2, <2>3, <1>2
<1> QED BY <1>3, <1>4

\* A scan that has printed nothing.
LEMMA NothingSeen == <<>> \in Seq([rid : AnyRid, rec : Record \cup {Blank}])
<1> DEFINE R == [rid : AnyRid, rec : Record \cup {Blank}]
<1> HIDE DEF R
<1>1. <<>> \in Seq(R)
  OBVIOUS
<1> QED BY <1>1 DEF R

\* The order of record ids, component by component.
LEMMA Order ==
  /\ \A r, p, s : UpTo(r, <<p, s>>) <=> r[1] < p \/ (r[1] = p /\ r[2] <= s)
  /\ \A r, p, s : Before(r, <<p, s>>) <=> r[1] < p \/ (r[1] = p /\ r[2] < s)
BY DEF UpTo, Before

\* What the invariant says of the open heap file.
LEMMA OpenFile ==
  ASSUME ScanInv, status = "open"
  PROVE  /\ Now \in State /\ Now.heap = heap /\ Now.disk = disk
         /\ Consistent(heap, disk) /\ heap.directory_buffer \in Dirs
         /\ DirectoriesLinked(heap.directory_buffer, disk)
         /\ \A p \in Nat : Allocated(heap.directory_buffer, p) =>
              /\ PageOf(heap, disk, p) \in Page
              /\ p \in 0 .. MaxBlocks - 1
<1>1. /\ Now \in State /\ Now.heap = heap /\ Now.disk = disk
      /\ Consistent(heap, disk) /\ heap \in HeapStructure /\ disk \in Seq(Block)
  BY DEF Now, State, IInv, TypeOK, ScanInv
<1>2. /\ heap.directory_buffer \in Dirs /\ Structure(heap.directory_buffer, disk)
      /\ DirectoriesLinked(heap.directory_buffer, disk)
      /\ PagesPlaced(heap.directory_buffer, disk)
  BY <1>1 DEF Consistent, Structure
<1>3. ASSUME NEW p \in Nat, Allocated(heap.directory_buffer, p)
      PROVE  PageOf(heap, disk, p) \in Page /\ p \in 0 .. MaxBlocks - 1
  <2>1. p < Len(disk) /\ Len(disk) \in Nat /\ Len(disk) <= MaxBlocks
    BY <1>1, <1>2, <1>3, AllocatedBounded DEF ScanInv, Sized
  <2>2. p \in 0 .. MaxBlocks - 1
    BY <2>1, MaxBlocksAssumption
  <2>3. heap.cached_page \in Page
    BY <1>1 DEF HeapStructure
  <2> QED BY <2>2, <2>3, <1>2, <1>3 DEF PageOf, PagesPlaced
<1> QED BY <1>1, <1>2, <1>3

\* get_page, in a scan: the pages stay as they are.
LEMMA ScanGetPage ==
  ASSUME ScanInv, status = "open", Allocated(heap.directory_buffer, pid),
         Run(get_page(Now, pid)), UNCHANGED <<status, offset>>
  PROVE  /\ IInv' /\ Sized'
         /\ get_page(Now, pid).heap.cached_page = PageOf(heap, disk, pid)
         /\ \A rid \in AnyRid : Holds(heap', disk', rid) <=> Holds(heap, disk, rid)
         /\ \A rid \in AnyRid :
              Holds(heap, disk, rid) => RecordOf(heap', disk', rid) = RecordOf(heap, disk, rid)
         /\ heap'.directory_buffer = heap.directory_buffer
<1> DEFINE g == get_page(Now, pid)
<1>1. /\ pid \in Nat /\ Now \in State /\ Now.heap = heap /\ Now.disk = disk
      /\ Consistent(Now.heap, Now.disk)
  BY OpenFile DEF ScanInv, ScanTypes
<1>2. /\ g \in State /\ Consistent(g.heap, g.disk) /\ Fetched(Now, g, pid)
      /\ g.heap.directory_buffer = heap.directory_buffer
      /\ Len(g.disk) = Len(disk)
  BY <1>1, GetPageConsistent
<1>3. heap' = g.heap /\ disk' = g.disk
  BY DEF Run
<1> HIDE DEF g
<1>4. g.heap \in HeapStructure /\ g.disk \in Seq(Block)
  BY <1>2 DEF State
<1>5. IInv' /\ Sized'
  BY <1>1, <1>2, <1>3, <1>4 DEF ScanInv, IInv, TypeOK, Sized, Fetched
<1>6. \A p \in Nat : Allocated(heap.directory_buffer, p) =>
        PageOf(heap, disk, p)' = PageOf(heap, disk, p)
  BY <1>1, <1>2, <1>3 DEF Fetched, PageOf
<1>7. g.heap.cached_page = PageOf(heap, disk, pid)
  BY <1>1, <1>2, <1>3, <1>6 DEF Fetched, PageOf
<1>8. \A rid \in AnyRid : rid[1] \in Nat
  BY DEF AnyRid
<1> QED BY <1>2, <1>3, <1>5, <1>6, <1>7, <1>8 DEF Holds, RecordOf, g

-----------------------------------------------------------------------------
\* Nothing is printed before the scan, and the scan begins before the first slot.
LEMMA NewIteratorStep == ScanInv /\ NewIterator => ScanInv'
<1> SUFFICES ASSUME ScanInv, NewIterator PROVE ScanInv'
  OBVIOUS
<1>1. /\ pc = "idle" /\ status = "open" /\ seen = <<>>
      /\ pid' = 0 /\ slot' = -1 /\ has_next' \in BOOLEAN /\ garbage' = has_next'
      /\ pc' = "loop" /\ seen' = seen
      /\ status' = status /\ offset' = offset /\ heap' = heap /\ disk' = disk
  BY DEF NewIterator, ScanInv, Printed, vars
<1>2. IInv' /\ Sized'
  BY <1>1 DEF ScanInv, IInv, TypeOK, Sized
<1>3. ScanTypes' /\ Printed' /\ AtTest' /\ AtEnd'
  BY <1>1 DEF ScanInv, ScanTypes, Printed, AtTest, AtEnd
<1>4. \A rid \in AnyRid : ~ UpTo(rid, <<0, -1>>)
  BY CapacityAssumption DEF AnyRid, UpTo, Slots
<1>5. AtLoop'
  BY <1>1, <1>4 DEF AtLoop
<1> QED BY <1>2, <1>3, <1>5 DEF ScanInv

\* The loop of increment_iterator ends: no page has this id or a larger one.
LEMMA ExhaustedStep == ScanInv /\ Exhausted => ScanInv'
<1> SUFFICES ASSUME ScanInv, Exhausted PROVE ScanInv'
  OBVIOUS
<1>1. /\ pc = "loop" /\ ~ Allocated(heap.directory_buffer, pid)
      /\ has_next' = FALSE /\ pc' = "test"
      /\ pid' = pid /\ slot' = slot /\ garbage' = garbage /\ seen' = seen
      /\ status' = status /\ offset' = offset /\ heap' = heap /\ disk' = disk
  BY DEF Exhausted, vars
<1>2. IInv' /\ Sized'
  BY <1>1 DEF ScanInv, IInv, TypeOK, Sized
<1>3. ScanTypes' /\ AtLoop' /\ AtTest'
  BY <1>1, ZenonT(30) DEF ScanInv, ScanTypes, AtLoop, AtTest
<1>4. Printed'
  BY <1>1 DEF ScanInv, Printed, Holds, RecordOf
<1>5. status = "open" /\ pid \in Nat
  BY <1>1 DEF ScanInv, Printed, ScanTypes
<1>6. ASSUME NEW rid \in AnyRid, Holds(heap, disk, rid), garbage PROVE Seen(rid)
  <2>1. rid[1] \in Nat /\ Allocated(heap.directory_buffer, rid[1])
    BY <1>6 DEF AnyRid, Holds
  <2>2. rid[1] < pid
    BY <2>1, <1>1, <1>5, OpenFile, AllocatedContiguous
  <2> QED BY <2>2, <1>1, <1>6 DEF ScanInv, AtLoop, UpTo
<1>7. AtEnd'
  BY <1>1, <1>6 DEF AtEnd, Holds, Seen
<1> QED BY <1>2, <1>3, <1>4, <1>7 DEF ScanInv

\* A round of that loop goes to the next filled slot of the page, or to the next
\* page if there is none; past the last directory there are no pages left.
LEMMA NextSlotStep == ScanInv /\ NextSlot => ScanInv'
<1> SUFFICES ASSUME ScanInv, NextSlot PROVE ScanInv'
  OBVIOUS
<1> DEFINE page == PageOf(heap, disk, pid)
           filled == get_next_filled_slot(page, slot)
<1>1. /\ pc = "loop" /\ Allocated(heap.directory_buffer, pid)
      /\ Run(get_page(Now, pid)) /\ UNCHANGED <<status, offset>>
      /\ has_next' = has_next /\ garbage' = garbage /\ seen' = seen
      /\ status = "open" /\ pid \in Nat /\ slot \in Slots \cup {-1}
  BY DEF NextSlot, ScanInv, Printed, ScanTypes
<1>2. /\ IInv' /\ Sized'
      /\ get_page(Now, pid).heap.cached_page = page
      /\ \A rid \in AnyRid : Holds(heap', disk', rid) <=> Holds(heap, disk, rid)
      /\ \A rid \in AnyRid :
           Holds(heap, disk, rid) => RecordOf(heap', disk', rid) = RecordOf(heap, disk, rid)
      /\ heap'.directory_buffer = heap.directory_buffer
  BY <1>1, ScanGetPage
<1>3. /\ slot' = filled
      /\ IF filled >= 0
           THEN pc' = "test" /\ pid' = pid
           ELSE /\ pid' = pid + 1
                /\ pc' = IF DirNo(pid') \in DOMAIN heap.directory_buffer
                           THEN "loop" ELSE "undefined"
  BY <1>2 DEF NextSlot
<1>4. page \in Page
  BY <1>1, OpenFile
<1>5. \/ /\ filled = -1
         /\ \A t \in Slots : page.flag[t] => t <= slot
      \/ /\ filled \in Slots /\ page.flag[filled] /\ slot < filled
         /\ \A t \in Slots : page.flag[t] => t <= slot \/ filled <= t
  BY <1>1, <1>4, NextFilled
<1>6. \A rid \in AnyRid :
        Holds(heap, disk, rid) /\ rid[1] = pid => rid[2] \in Slots /\ page.flag[rid[2]]
  BY DEF AnyRid, Holds
<1> HIDE DEF filled, page
<1>7. \A t \in Slots : t \in Nat /\ t # -1 /\ t >= 0
  BY CapacityAssumption DEF Slots
<1>8. ScanTypes'
  BY <1>1, <1>3, <1>5, <1>7 DEF ScanInv, ScanTypes
<1>9. \A i \in DOMAIN seen : seen[i].rid \in AnyRid
  <2> DEFINE R == [rid : AnyRid, rec : Record \cup {Blank}]
  <2>1. seen \in Seq(R) /\ \A r \in R : r.rid \in AnyRid
    BY DEF ScanInv, ScanTypes
  <2> HIDE DEF R
  <2> QED BY <2>1
<1>10. Printed'
  <2>1. pc' # "idle"
    BY <1>3
  <2> QED BY <2>1, <1>1, <1>2, <1>9 DEF ScanInv, Printed
<1>11. AtLoop' /\ AtTest' /\ AtEnd'
  <2>1. CASE filled = -1
    <3>1. /\ slot' = -1 /\ pid' = pid + 1
          /\ pc' = IF DirNo(pid') \in DOMAIN heap.directory_buffer THEN "loop" ELSE "undefined"
      BY <2>1, <1>3
    <3>2. ASSUME NEW rid \in AnyRid, Holds(heap, disk, rid), UpTo(rid, <<pid + 1, -1>>), garbage
          PROVE  Seen(rid)
      <4>1. rid[1] \in Nat /\ rid[2] \in Slots
        BY DEF AnyRid
      <4>2. rid[1] <= pid
        <5>1. rid[1] < pid + 1 \/ (rid[1] = pid + 1 /\ rid[2] <= -1)
          BY <3>2, Order, Zenon
        <5>2. rid[2] \in Nat
          BY <4>1, <1>7
        <5> QED BY <5>1, <5>2, <4>1, <1>1
      <4>3. rid[1] = pid => rid[2] <= slot
        BY <2>1, <4>1, <3>2, <1>5, <1>6, <1>7
      <4>4. UpTo(rid, <<pid, slot>>)
        BY <4>1, <4>2, <4>3, <1>1 DEF UpTo
      <4> QED BY <4>4, <3>2, <1>1 DEF ScanInv, AtLoop
    <3>3. AtLoop'
      <4>1. \A i \in DOMAIN seen : UpTo(seen[i].rid, <<pid + 1, -1>>)
        <5> SUFFICES ASSUME NEW i \in DOMAIN seen PROVE UpTo(seen[i].rid, <<pid + 1, -1>>)
          OBVIOUS
        <5>1. seen[i].rid[1] \in Nat /\ seen[i].rid[1] <= pid
          BY <1>1, <1>9 DEF ScanInv, AtLoop, UpTo, AnyRid
        <5> QED BY <5>1, <1>1 DEF UpTo
      <4> QED BY <4>1, <3>1, <3>2, <1>1, <1>2 DEF ScanInv, AtLoop, Seen
    <3>4. AtTest'
      BY <3>1 DEF AtTest
    <3>5. AtEnd'
      <4> SUFFICES ASSUME garbage, pc' = "undefined", NEW rid \in AnyRid, Holds(heap, disk, rid)
                   PROVE  Seen(rid)
        BY <3>1, <1>1, <1>2 DEF AtEnd, Seen
      <4>1. ~ Allocated(heap.directory_buffer, pid + 1)
        BY <3>1 DEF Allocated
      <4>2. rid[1] \in Nat /\ Allocated(heap.directory_buffer, rid[1])
        BY DEF AnyRid, Holds
      <4>3. rid[1] < pid + 1
        BY <4>1, <4>2, <1>1, OpenFile, AllocatedContiguous
      <4> QED BY <4>3, <3>2 DEF UpTo
    <3> QED BY <3>3, <3>4, <3>5
  <2>2. CASE filled # -1
    <3>1. /\ slot' = filled /\ pid' = pid /\ pc' = "test"
          /\ filled \in Slots /\ page.flag[filled] /\ slot < filled
          /\ \A t \in Slots : page.flag[t] => t <= slot \/ filled <= t
      <4>1. /\ filled \in Slots /\ page.flag[filled] /\ slot < filled
            /\ \A t \in Slots : page.flag[t] => t <= slot \/ filled <= t
        BY <2>2, <1>5
      <4>2. filled >= 0
        BY <4>1, <1>7
      <4> QED BY <4>1, <4>2, <1>3
    <3>2. <<pid, filled>> \in AnyRid /\ Holds(heap, disk, <<pid, filled>>)
      BY <3>1, <1>1 DEF AnyRid, Holds, page
    <3>3. \A i \in DOMAIN seen : Before(seen[i].rid, <<pid, filled>>)
      <4> SUFFICES ASSUME NEW i \in DOMAIN seen PROVE Before(seen[i].rid, <<pid, filled>>)
        OBVIOUS
      <4>1. seen[i].rid[2] \in Slots /\ UpTo(seen[i].rid, <<pid, slot>>)
        BY <1>1, <1>9 DEF ScanInv, AtLoop, AnyRid
      <4>2. seen[i].rid[2] <= slot => seen[i].rid[2] < filled
        <5>1. seen[i].rid[2] \in Int /\ slot \in Int /\ filled \in Int
          BY <4>1, <3>1, <1>1, <1>7
        <5> QED BY <5>1, <3>1
      <4> QED BY <4>1, <4>2, Order
    <3>4. ASSUME NEW rid \in AnyRid, Holds(heap, disk, rid), garbage,
                 Before(rid, <<pid, filled>>)
          PROVE  Seen(rid)
      <4>1. rid[2] \in Slots /\ (rid[1] = pid => rid[2] <= slot)
        <5>1. rid[2] \in Slots /\ (rid[1] = pid => page.flag[rid[2]])
          BY <3>4, <1>6 DEF AnyRid
        <5>2. rid[1] = pid => ~ (filled <= rid[2])
          <6>1. rid[1] < pid \/ (rid[1] = pid /\ rid[2] < filled)
            BY <3>4, Order, Zenon
          <6>2. rid[2] \in Int /\ filled \in Int /\ pid \in Int
            BY <5>1, <3>1, <1>1, <1>7
          <6> QED BY <6>1, <6>2
        <5> QED BY <5>1, <5>2, <3>1
      <4>2. UpTo(rid, <<pid, slot>>)
        BY <4>1, <3>4 DEF Before, UpTo
      <4> QED BY <4>2, <3>4, <1>1 DEF ScanInv, AtLoop
    <3>5. has_next <=> garbage
      BY <1>1 DEF ScanInv, AtLoop, Printed, ScanTypes
    <3>6. AtTest'
      BY <3>1, <3>2, <3>3, <3>4, <3>5, <1>1, <1>2 DEF AtTest, Seen
    <3>7. AtLoop' /\ AtEnd'
      BY <3>1, <3>5, <1>1 DEF AtLoop, AtEnd
    <3> QED BY <3>6, <3>7
  <2> QED BY <2>1, <2>2
<1> QED BY <1>2, <1>8, <1>10, <1>11 DEF ScanInv

\* The body of the scan loop prints the record of the place it is at.
LEMMA VisitStep == ScanInv /\ Visit => ScanInv'
<1> SUFFICES ASSUME ScanInv, Visit PROVE ScanInv'
  OBVIOUS
<1> DEFINE here == <<pid, slot>>
           page == PageOf(heap, disk, pid)
           n == Len(seen)
           new == [rid |-> here, rec |-> page.rec[slot]]
           R == [rid : AnyRid, rec : Record \cup {Blank}]
<1>1. /\ pc = "test" /\ has_next /\ garbage /\ status = "open"
      /\ pid \in Nat /\ slot \in Slots /\ Holds(heap, disk, here)
  BY DEF Visit, ScanInv, ScanTypes, Printed, AtTest
<1>2. /\ Run(get_page(Now, pid)) /\ UNCHANGED <<status, offset>>
      /\ pc' = "loop" /\ pid' = pid /\ slot' = slot
      /\ has_next' = has_next /\ garbage' = garbage
  BY DEF Visit
<1>3. here \in AnyRid /\ here[1] = pid /\ here[2] = slot
  BY <1>1 DEF AnyRid
<1>4. Allocated(heap.directory_buffer, pid)
  BY <1>1, <1>3 DEF Holds
<1>5. /\ IInv' /\ Sized'
      /\ get_page(Now, pid).heap.cached_page = page
      /\ \A rid \in AnyRid : Holds(heap', disk', rid) <=> Holds(heap, disk, rid)
      /\ \A rid \in AnyRid :
           Holds(heap, disk, rid) => RecordOf(heap', disk', rid) = RecordOf(heap, disk, rid)
  BY <1>1, <1>2, <1>4, ScanGetPage
<1>6. seen' = Append(seen, new)
  BY <1>5 DEF Visit, read_fixed_len_page
<1>7. page \in Page /\ page.rec[slot] \in Record \cup {Blank}
  BY <1>1, <1>4, OpenFile DEF Page
<1>8. new \in R /\ new.rid = here /\ new.rec = RecordOf(heap, disk, here)
  BY <1>3, <1>7 DEF RecordOf
<1>9. seen \in Seq(R) /\ \A r \in R : r.rid \in AnyRid
  BY DEF ScanInv, ScanTypes
<1> HIDE DEF R, new, here, page
<1>10. /\ seen' \in Seq(R) /\ Len(seen') = n + 1 /\ n \in Nat
       /\ DOMAIN seen' = 1 .. n + 1 /\ DOMAIN seen = 1 .. n
       /\ seen'[n + 1] = new /\ \A i \in 1 .. n : seen'[i] = seen[i]
  BY <1>6, <1>8, <1>9
<1> HIDE DEF n
<1>11. \A i \in DOMAIN seen' :
         i = n + 1 \/ (i \in DOMAIN seen /\ seen'[i] = seen[i] /\ i # n + 1)
  BY <1>10
<1>12. \A i \in DOMAIN seen : seen[i].rid \in AnyRid /\ Before(seen[i].rid, here)
  BY <1>1, <1>9 DEF ScanInv, AtTest, here
<1>13. ScanTypes'
  BY <1>1, <1>2, <1>10 DEF ScanInv, ScanTypes, R
<1>14. \A i \in DOMAIN seen' : /\ Holds(heap', disk', seen'[i].rid)
                               /\ seen'[i].rec = RecordOf(heap', disk', seen'[i].rid)
  <2> SUFFICES ASSUME NEW i \in DOMAIN seen'
               PROVE  /\ Holds(heap', disk', seen'[i].rid)
                      /\ seen'[i].rec = RecordOf(heap', disk', seen'[i].rid)
    OBVIOUS
  <2>1. CASE i = n + 1
    BY <2>1, <1>1, <1>3, <1>5, <1>8, <1>10
  <2>2. CASE i \in DOMAIN seen /\ seen'[i] = seen[i]
    <3>1. /\ Holds(heap, disk, seen[i].rid) /\ seen[i].rid \in AnyRid
          /\ seen[i].rec = RecordOf(heap, disk, seen[i].rid)
      BY <2>2, <1>1, <1>12 DEF ScanInv, Printed
    <3> QED BY <2>2, <3>1, <1>5
  <2> QED BY <2>1, <2>2, <1>11
<1>15. \A i, j \in DOMAIN seen' : i < j => Before(seen'[i].rid, seen'[j].rid)
  <2> SUFFICES ASSUME NEW i \in DOMAIN seen', NEW j \in DOMAIN seen', i < j
               PROVE  Before(seen'[i].rid, seen'[j].rid)
    OBVIOUS
  <2>1. i \in DOMAIN seen /\ seen'[i] = seen[i]
    BY <1>10
  <2>2. CASE j = n + 1
    BY <2>1, <2>2, <1>8, <1>10, <1>12
  <2>3. CASE j \in DOMAIN seen /\ seen'[j] = seen[j]
    BY <2>1, <2>3, <1>1 DEF ScanInv, Printed
  <2> QED BY <2>2, <2>3, <1>11
<1>16. Printed'
  BY <1>1, <1>2, <1>14, <1>15 DEF Printed
<1>17. \A rid \in AnyRid : Seen(rid) \/ rid = here => Seen(rid)'
  <2> SUFFICES ASSUME NEW rid \in AnyRid, Seen(rid) \/ rid = here
               PROVE  \E i \in DOMAIN seen' : seen'[i].rid = rid
    BY DEF Seen
  <2>1. CASE rid = here
    BY <2>1, <1>8, <1>10
  <2>2. CASE Seen(rid)
    BY <2>2, <1>10 DEF Seen
  <2> QED BY <2>1, <2>2
<1>18. \A t \in Slots : t \in Int
  BY CapacityAssumption DEF Slots
<1>19. ASSUME NEW rid \in AnyRid, Holds(heap, disk, rid), UpTo(rid, here)
       PROVE  Seen(rid)'
  <2>1. CASE Before(rid, here)
    BY <2>1, <1>1, <1>17, <1>19 DEF ScanInv, AtTest, here
  <2>2. CASE ~ Before(rid, here)
    <3>1. rid[1] \in Nat /\ rid[2] \in Slots /\ rid = <<rid[1], rid[2]>>
      BY DEF AnyRid
    <3>2. rid[1] = pid /\ rid[2] <= slot /\ ~ (rid[2] < slot)
      BY <2>2, <1>19, Order, Zenon DEF here
    <3>3. rid[2] = slot
      BY <3>1, <3>2, <1>1, <1>18
    <3>4. rid = here
      BY <3>1, <3>2, <3>3 DEF here
    <3> QED BY <3>4, <1>17
  <2> QED BY <2>1, <2>2
<1>20. \A i \in DOMAIN seen' : UpTo(seen'[i].rid, here)
  <2>1. UpTo(here, here)
    BY <1>1, <1>3, <1>18 DEF UpTo
  <2>2. \A rid \in AnyRid : Before(rid, here) => UpTo(rid, here)
    <3> SUFFICES ASSUME NEW rid \in AnyRid, Before(rid, here) PROVE UpTo(rid, here)
      OBVIOUS
    <3>1. rid[2] \in Int /\ slot \in Int
      BY <1>1, <1>18 DEF AnyRid
    <3>2. rid[2] < slot => rid[2] <= slot
      BY <3>1
    <3> QED BY <3>2, Order, Zenon DEF here
  <2> QED BY <2>1, <2>2, <1>8, <1>10, <1>11, <1>12
<1>21. AtLoop'
  BY <1>1, <1>2, <1>5, <1>19, <1>20 DEF AtLoop, here
<1>22. AtTest' /\ AtEnd'
  BY <1>2 DEF AtTest, AtEnd
<1> QED BY <1>5, <1>13, <1>16, <1>21, <1>22 DEF ScanInv

\* hasNext has returned false, the iterator goes out of scope, or the heap file is
\* used between two scans.
LEMMA OtherSteps ==
  ASSUME ScanInv,
         Finish \/ Discard \/ (pc = "idle" /\ Next /\ UNCHANGED scanVars)
           \/ UNCHANGED <<vars, scanVars>>
  PROVE  ScanInv'
<1>1. CASE Finish
  <2>1. /\ pc = "test" /\ ~ has_next /\ pc' = "done"
        /\ pid' = pid /\ slot' = slot /\ has_next' = has_next /\ garbage' = garbage
        /\ seen' = seen
        /\ status' = status /\ offset' = offset /\ heap' = heap /\ disk' = disk
    BY <1>1 DEF Finish, vars
  <2>2. IInv' /\ Sized' /\ ScanTypes'
    BY <2>1 DEF ScanInv, IInv, TypeOK, Sized, ScanTypes
  <2>3. Printed' /\ AtLoop' /\ AtTest' /\ AtEnd'
    BY <2>1 DEF ScanInv, Printed, AtLoop, AtTest, AtEnd, Holds, RecordOf, Seen
  <2> QED BY <2>2, <2>3 DEF ScanInv
<1>2. CASE Discard
  <2>1. /\ pc' = "idle" /\ seen' = <<>> /\ pid' = 0 /\ slot' = -1
        /\ has_next' = FALSE /\ garbage' = FALSE
        /\ status' = status /\ offset' = offset /\ heap' = heap /\ disk' = disk
    BY <1>2 DEF Discard, vars
  <2>2. IInv' /\ Sized'
    BY <2>1 DEF ScanInv, IInv, TypeOK, Sized
  <2>3. ScanTypes'
    BY <2>1, NothingSeen, ZenonT(30) DEF ScanTypes
  <2>4. Printed' /\ AtLoop' /\ AtTest' /\ AtEnd'
    BY <2>1 DEF Printed, AtLoop, AtTest, AtEnd
  <2> QED BY <2>2, <2>3, <2>4 DEF ScanInv
<1>3. CASE pc = "idle" /\ Next /\ UNCHANGED scanVars
  <2>1. /\ pc = "idle" /\ pc' = pc /\ seen' = seen /\ pid' = pid /\ slot' = slot
        /\ has_next' = has_next /\ garbage' = garbage
    BY <1>3 DEF scanVars
  <2>2. IInv' /\ Sized'
    BY <1>3, NextInvariant, NextSized DEF ScanInv
  <2>3. ScanTypes' /\ Printed' /\ AtLoop' /\ AtTest' /\ AtEnd'
    <3>1. ScanTypes'
      BY <2>1 DEF ScanInv, ScanTypes
    <3>2. Printed' /\ AtLoop' /\ AtTest' /\ AtEnd'
      BY <2>1 DEF ScanInv, Printed, AtLoop, AtTest, AtEnd
    <3> QED BY <3>1, <3>2
  <2> QED BY <2>2, <2>3 DEF ScanInv
<1>4. CASE UNCHANGED <<vars, scanVars>>
  <2>1. /\ pc' = pc /\ seen' = seen /\ pid' = pid /\ slot' = slot
        /\ has_next' = has_next /\ garbage' = garbage
        /\ status' = status /\ offset' = offset /\ heap' = heap /\ disk' = disk
    BY <1>4 DEF vars, scanVars
  <2>2. IInv' /\ Sized' /\ ScanTypes'
    BY <2>1 DEF ScanInv, IInv, TypeOK, Sized, ScanTypes
  <2>3. Printed' /\ AtLoop' /\ AtTest' /\ AtEnd'
    BY <2>1 DEF ScanInv, Printed, AtLoop, AtTest, AtEnd, Holds, RecordOf, Seen
  <2> QED BY <2>2, <2>3 DEF ScanInv
<1> QED BY <1>1, <1>2, <1>3, <1>4

\* The invariant is inductive.
LEMMA ScanInvariant ==
  /\ ScanInit => ScanInv
  /\ ScanInv /\ [ScanNext]_<<vars, scanVars>> => ScanInv'
<1>1. ASSUME ScanInit PROVE ScanInv
  <2>1. Init /\ pc = "idle" /\ pid = 0 /\ slot = -1 /\ has_next = FALSE /\ garbage = FALSE
        /\ seen = <<>>
    BY <1>1 DEF ScanInit
  <2>2. IInv /\ Sized
    <3>1. IInv
      BY <2>1, InitInvariant
    <3>2. disk = <<>> /\ Len(<<>>) <= MaxBlocks
      BY <2>1, MaxBlocksAssumption DEF Init
    <3> QED BY <3>1, <3>2 DEF Sized
  <2>3. ScanTypes
    BY <2>1, NothingSeen, ZenonT(30) DEF ScanTypes
  <2>4. Printed /\ AtLoop /\ AtTest /\ AtEnd
    BY <2>1 DEF Printed, AtLoop, AtTest, AtEnd
  <2> QED BY <2>2, <2>3, <2>4 DEF ScanInv
<1>2. ASSUME ScanInv, [ScanNext]_<<vars, scanVars>> PROVE ScanInv'
  BY <1>2, NewIteratorStep, ExhaustedStep, NextSlotStep, VisitStep, OtherSteps
     DEF ScanNext, ScanStep
<1> QED BY <1>1, <1>2

-----------------------------------------------------------------------------
\* A scan prints records that the file holds, each with its contents, once and in
\* the order of their ids: neither next nor increment_iterator, which share the
\* page cache, ever looks at another page than the one of the iterator's place.
THEOREM ScanSoundness == ScanSpec => []ScanSound
<1>1. ScanInv => ScanSound
  <2> SUFFICES ASSUME ScanInv PROVE ScanSound
    OBVIOUS
  <2>1. CASE pc = "idle"
    BY <2>1 DEF ScanInv, Printed, ScanSound
  <2>2. CASE pc # "idle"
    <3>1. /\ status = "open"
          /\ \A i, j \in DOMAIN seen : i < j => Before(seen[i].rid, seen[j].rid)
      BY <2>2 DEF ScanInv, Printed
    <3>2. ASSUME NEW i \in DOMAIN seen PROVE seen[i].rec = Contents[seen[i].rid]
      <4> DEFINE R == [rid : AnyRid, rec : Record \cup {Blank}]
                 rid == seen[i].rid
      <4>1. seen \in Seq(R) /\ \A r \in R : r.rid \in AnyRid
        BY DEF ScanInv, ScanTypes
      <4> HIDE DEF R
      <4>2. rid \in AnyRid /\ Holds(heap, disk, rid) /\ seen[i].rec = RecordOf(heap, disk, rid)
        BY <2>2, <4>1 DEF ScanInv, Printed
      <4> HIDE DEF rid
      <4>3. rid \in Rid
        BY <4>2, <3>1, OpenFile DEF AnyRid, Rid, Holds
      <4>4. Contents[rid] = RecordOf(heap, disk, rid)
        BY <4>2, <4>3, <3>1 DEF Contents, ContentsOf, Holds, RecordOf, read_fixed_len_page
      <4> QED BY <4>2, <4>4 DEF rid
    <3> QED BY <3>1, <3>2 DEF ScanSound
  <2> QED BY <2>1, <2>2
<1> QED BY ScanInvariant, <1>1, PTL DEF ScanSpec

\* A scan whose uninitialized has_next happened to be true has printed every
\* record of the file when it ends, or when it runs past the last directory.
THEOREM ScanCompleteness == ScanSpec => []ScanComplete
<1>1. ScanInv => ScanComplete
  <2> SUFFICES ASSUME ScanInv, pc \in {"done", "undefined"}, garbage
               PROVE  {seen[i].rid : i \in DOMAIN seen} = Live
    BY DEF ScanComplete
  <2>1. status = "open"
    BY DEF ScanInv, Printed
  <2>2. \A rid \in Rid : rid \in AnyRid
    BY MaxBlocksAssumption DEF Rid, AnyRid
  <2>3. \A rid \in AnyRid : Holds(heap, disk, rid) => rid \in Rid
    BY <2>1, OpenFile DEF AnyRid, Rid, Holds
  <2>4. \A rid \in Rid : Contents[rid] # NoRecord <=> Holds(heap, disk, rid)
    <3> SUFFICES ASSUME NEW rid \in Rid
                 PROVE  Contents[rid] # NoRecord <=> Holds(heap, disk, rid)
      OBVIOUS
    <3>1. rid[1] \in Nat /\ rid[2] \in Slots
      BY <2>2 DEF AnyRid
    <3>2. Contents[rid] = IF Holds(heap, disk, rid) THEN RecordOf(heap, disk, rid) ELSE NoRecord
      BY <2>1 DEF Contents, ContentsOf, Holds, RecordOf, read_fixed_len_page
    <3>3. Holds(heap, disk, rid) => RecordOf(heap, disk, rid) \in Record \cup {Blank}
      BY <2>1, <3>1, OpenFile DEF Holds, RecordOf, Page
    <3> QED BY <3>2, <3>3, NoRecordAssumption
  <2>5. \A rid \in AnyRid : Holds(heap, disk, rid) => Seen(rid)
    BY DEF ScanInv, AtEnd
  <2>6. \A i \in DOMAIN seen : seen[i].rid \in AnyRid /\ Holds(heap, disk, seen[i].rid)
    <3> DEFINE R == [rid : AnyRid, rec : Record \cup {Blank}]
    <3>1. seen \in Seq(R) /\ \A r \in R : r.rid \in AnyRid
      BY DEF ScanInv, ScanTypes
    <3> HIDE DEF R
    <3> QED BY <3>1 DEF ScanInv, Printed
  <2>7. Live = {rid \in Rid : Holds(heap, disk, rid)}
    BY <2>4 DEF Live
  <2> QED BY <2>2, <2>3, <2>5, <2>6, <2>7 DEF Seen
<1> QED BY ScanInvariant, <1>1, PTL DEF ScanSpec

=============================================================================
