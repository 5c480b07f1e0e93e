---------------------- MODULE HeapfileContents_proofs ----------------------
(***************************************************************************)
(* What the calls on a heap file do to its records, and to what a process  *)
(* that dies during a call leaves on disk, for every page capacity,        *)
(* directory capacity, set of records and size of the file.                *)
(***************************************************************************)
EXTENDS HeapfileContents, Heapfile_proofs, SequenceTheorems

USE SMTT(30), ZenonT(30)

-----------------------------------------------------------------------------
\* One value of the function that the loop of open_heapfile is modelled by.
ChainStep(blocks, f, n) ==
  [off \in 0 .. Len(blocks) - 1 |->
     LET next == blocks[off + 1].next_directory
     IN  IF n = 0 THEN <<>>
         ELSE <<[offset |-> off, data |-> blocks[off + 1]]>>
                \o IF next \in 1 .. Len(blocks) - 1 THEN f[n - 1][next] ELSE <<>>]

\* A value depends on the one before it only.
LEMMA ChainStepLocal ==
  ASSUME NEW blocks, NEW f, NEW g, NEW n, n = 0 \/ f[n - 1] = g[n - 1]
  PROVE  ChainStep(blocks, f, n) = ChainStep(blocks, g, n)
<1>1. CASE n = 0
  BY <1>1 DEF ChainStep
<1>2. CASE n # 0
  BY <1>2, Zenon DEF ChainStep
<1> QED BY <1>1, <1>2

\* The recursive definition of ChainFrom has a solution, and ChainFrom is one.
LEMMA ChainDefined ==
  ASSUME NEW blocks, Len(blocks) \in Nat
  PROVE  ChainFrom(blocks)
           = [n \in 0 .. Len(blocks) |-> ChainStep(blocks, ChainFrom(blocks), n)]
<1> DEFINE Solves(f, m) == f = [n \in 0 .. m |-> ChainStep(blocks, f, n)]
           bad == {m \in Nat : ~ \E f : Solves(f, m)}
<1>1. bad = {}
  <2> SUFFICES ASSUME bad # {} PROVE FALSE
    OBVIOUS
  <2>1. PICK m \in bad : \A k \in bad : m <= k
    <3>1. bad \subseteq Nat
      OBVIOUS
    <3> HIDE DEF bad
    <3> QED BY <3>1, LeastElement, Zenon
  <2>2. m \in Nat /\ ~ \E f : Solves(f, m)
    BY <2>1
  <2>3. CASE m = 0
    <3> DEFINE f == [n \in 0 .. 0 |-> ChainStep(blocks, <<>>, n)]
    <3>1. \A n \in 0 .. 0 : ChainStep(blocks, <<>>, n) = ChainStep(blocks, f, n)
      <4> SUFFICES ASSUME NEW n \in 0 .. 0
                   PROVE  ChainStep(blocks, <<>>, n) = ChainStep(blocks, f, n)
        OBVIOUS
      <4>1. n = 0
        OBVIOUS
      <4> HIDE DEF f
      <4> QED BY <4>1, ChainStepLocal
    <3>2. Solves(f, 0)
      BY <3>1
    <3> QED BY <2>2, <2>3, <3>2
  <2>4. CASE m # 0
    <3>1. m - 1 \in Nat /\ m - 1 \notin bad
      BY <2>1, <2>2, <2>4
    <3>2. PICK f : Solves(f, m - 1)
      BY <3>1
    <3> DEFINE g == [n \in 0 .. m |-> IF n = m THEN ChainStep(blocks, f, m) ELSE f[n]]
    <3>3. ASSUME NEW n \in 0 .. m PROVE g[n] = ChainStep(blocks, g, n)
      <4>1. n = 0 \/ (n - 1 \in 0 .. m /\ n - 1 # m)
        BY <2>2
      <4>2. n = 0 \/ f[n - 1] = g[n - 1]
        BY <4>1
      <4>3. g[n] = ChainStep(blocks, f, n)
        <5>1. CASE n = m
          BY <5>1
        <5>2. CASE n # m
          <6>1. n \in 0 .. m - 1
            BY <5>2, <2>2
          <6> HIDE DEF g
          <6>2. f[n] = ChainStep(blocks, f, n)
            BY <6>1, <3>2
          <6> QED BY <5>2, <6>2 DEF g
        <5> QED BY <5>1, <5>2
      <4> HIDE DEF g, Solves
      <4>4. ChainStep(blocks, f, n) = ChainStep(blocks, g, n)
        BY <4>2, ChainStepLocal
      <4> QED BY <4>3, <4>4
    <3>4. g = [n \in 0 .. m |-> g[n]]
      OBVIOUS
    <3>5. Solves(g, m)
      <4> HIDE DEF g
      <4> QED BY <3>3, <3>4
    <3> QED BY <2>2, <3>5, Zenon
  <2> QED BY <2>3, <2>4
<1>2. \E f : Solves(f, Len(blocks))
  BY <1>1
<1>3. ChainFrom(blocks) = CHOOSE f : Solves(f, Len(blocks))
  BY DEF ChainFrom, ChainStep
<1> HIDE DEF Solves
<1>4. Solves(ChainFrom(blocks), Len(blocks))
  BY <1>2, <1>3
<1> QED BY <1>4 DEF Solves

\* A closed heap file has no more directories than blocks.
LEMMA DirectoriesBounded ==
  ASSUME NEW dirs \in Dirs, NEW blocks, Len(blocks) \in Nat, DirectoriesLinked(dirs, blocks)
  PROVE  Len(dirs) <= Len(blocks)
<1> DEFINE S == 1 .. Len(dirs)
           T == 0 .. Len(blocks) - 1
           f == [d \in S |-> dirs[d].offset]
<1>1. Len(dirs) \in Nat /\ DOMAIN dirs = S /\ \A d \in S : dirs[d].offset \in Nat
  BY DirectoryType
<1>2. f \in [S -> T]
  BY <1>1 DEF DirectoriesLinked
<1>3. \A x, y \in S : f[x] = f[y] => x = y
  BY <1>1 DEF DirectoriesLinked
<1>4. IsFiniteSet(S) /\ IsFiniteSet(T) /\ Cardinality(S) = Len(dirs)
  <2> DEFINE n == Len(dirs)
  <2>1. n \in Nat /\ 1 \in Int /\ n \in Int /\ 0 \in Int /\ Len(blocks) - 1 \in Int
    BY <1>1
  <2> HIDE DEF n
  <2>2. IsFiniteSet(1 .. n) /\ Cardinality(1 .. n) = IF 1 > n THEN 0 ELSE n - 1 + 1
    BY <2>1, FS_Interval, Zenon
  <2>3. Cardinality(1 .. n) = n
    BY <2>1, <2>2
  <2>4. IsFiniteSet(T)
    BY <2>1, FS_Interval, Zenon
  <2> QED BY <2>2, <2>3, <2>4 DEF n
<1>5. Cardinality(T) = Len(blocks)
  <2> DEFINE n == Len(blocks)
  <2>1. n \in Nat /\ 0 \in Int /\ n - 1 \in Int
    OBVIOUS
  <2> HIDE DEF n
  <2>2. Cardinality(0 .. n - 1) = IF 0 > n - 1 THEN 0 ELSE (n - 1) - 0 + 1
    BY <2>1, FS_Interval, Zenon
  <2>3. Cardinality(0 .. n - 1) = n
    BY <2>1, <2>2
  <2> QED BY <2>3 DEF n
<1> HIDE DEF S, T, f
<1>6. ~ (Cardinality(T) < Cardinality(S))
  <2> SUFFICES ASSUME Cardinality(T) < Cardinality(S) PROVE FALSE
    OBVIOUS
  <2>1. \E x, y \in S : x # y /\ f[x] = f[y]
    BY <1>2, <1>4, FS_PigeonHole, Zenon
  <2> QED BY <2>1, <1>3
<1> QED BY <1>1, <1>4, <1>5, <1>6

\* open_heapfile reads the directories of a closed heap file.
LEMMA ChainIsDirectories ==
  ASSUME NEW dirs \in Dirs, NEW blocks, OnDisk(dirs, blocks)
  PROVE  DirectoriesFrom(blocks) = dirs
<1> DEFINE N == Len(dirs)
           L == Len(blocks)
           c == ChainFrom(blocks)
<1>1. /\ blocks \in Seq(Block) /\ L \in Nat /\ DirectoriesLinked(dirs, blocks)
      /\ \A d \in DOMAIN dirs : blocks[dirs[d].offset + 1] = dirs[d].data
  BY DEF OnDisk, Consistent, Structure, Unused
<1>2. /\ N \in Nat \ {0} /\ DOMAIN dirs = 1 .. N /\ dirs \in Seq(Directory)
      /\ \A d \in 1 .. N : /\ dirs[d] \in Directory /\ dirs[d].offset \in 0 .. L - 1
  <2>1. N \in Nat /\ DOMAIN dirs = 1 .. N /\ dirs \in Seq(Directory) /\ N > 0
    BY <1>1, DirectoryType DEF DirectoriesLinked, Dirs
  <2>2. ASSUME NEW d \in 1 .. N
        PROVE  dirs[d] \in Directory /\ dirs[d].offset \in 0 .. L - 1
    <3>1. dirs[d] \in Directory /\ dirs[d].offset \in Nat /\ dirs[d].offset < L
      BY <2>1, <1>1, DirectoryType DEF DirectoriesLinked
    <3> QED BY <3>1, <1>1
  <2> QED BY <2>1, <2>2
<1>3. \A d \in 1 .. N : dirs[d] = [offset |-> dirs[d].offset, data |-> blocks[dirs[d].offset + 1]]
  BY <1>1, <1>2 DEF Directory
<1>13. N \in Nat \ {0} /\ L \in Nat
  BY <1>1, <1>2
<1>4. ASSUME NEW d \in 1 .. N, d < N
      PROVE  /\ d + 1 \in 1 .. N
             /\ blocks[dirs[d].offset + 1].next_directory = dirs[d + 1].offset
             /\ dirs[d + 1].offset \in 1 .. L - 1
  <2>1. d + 1 \in 1 .. N /\ 1 \in 1 .. N /\ d # N /\ d + 1 # 1
    <3> HIDE DEF N
    <3> QED BY <1>13, <1>4
  <2>2. dirs[d].data.next_directory = dirs[d + 1].offset /\ dirs[d + 1].offset # 0
    BY <2>1, <1>1, <1>2, Zenon DEF DirectoriesLinked
  <2>3. dirs[d + 1].offset \in 1 .. L - 1
    <3>1. dirs[d + 1].offset \in 0 .. L - 1
      BY <2>1, <1>2, Zenon
    <3> HIDE DEF N, L
    <3> QED BY <2>2, <3>1, <1>13
  <2>4. blocks[dirs[d].offset + 1] = dirs[d].data
    BY <1>1, <1>2
  <2> QED BY <2>1, <2>2, <2>3, <2>4
<1>5. /\ blocks[dirs[N].offset + 1].next_directory = 0 /\ N \in 1 .. N
      /\ 0 \notin 1 .. L - 1
  BY <1>1, <1>2 DEF DirectoriesLinked
<1>6. ASSUME NEW n \in 0 .. L, NEW off \in 0 .. L - 1, n # 0
      PROVE  LET next == blocks[off + 1].next_directory
             IN  c[n][off] = <<[offset |-> off, data |-> blocks[off + 1]]>>
                               \o IF next \in 1 .. L - 1 THEN c[n - 1][next] ELSE <<>>
  <2>1. c[n] = ChainStep(blocks, c, n)
    BY <1>1, ChainDefined
  <2> HIDE DEF c
  <2> QED BY <2>1, <1>6, Zenon DEF ChainStep
<1> DEFINE P(d) == \A n \in 0 .. L : n > N - d => c[n][dirs[d].offset] = SubSeq(dirs, d, N)
           bad == {k \in Nat : k < N /\ ~ P(N - k)}
<1> HIDE DEF c, N, L
<1>7. bad = {}
  <2> SUFFICES ASSUME bad # {} PROVE FALSE
    OBVIOUS
  <2>1. PICK k \in bad : \A j \in bad : k <= j
    <3>1. bad \subseteq Nat
      OBVIOUS
    <3> HIDE DEF bad
    <3> QED BY <3>1, LeastElement, Zenon
  <2> DEFINE d == N - k
  <2>2. k \in Nat /\ k < N /\ ~ P(d) /\ d \in 1 .. N /\ d = N - k
    BY <2>1, <1>13
  <2>3. PICK n \in 0 .. L : n > N - d /\ c[n][dirs[d].offset] # SubSeq(dirs, d, N)
    BY <2>2, Zenon
  <2>4. \A j \in Nat : j < N /\ j < k => P(N - j)
    <3> HIDE DEF P
    <3> QED BY <2>1, <2>2
  <2> HIDE DEF d, P, bad
  <2>5. n # 0 /\ n \in Nat
    BY <2>2, <2>3, <1>13
  <2>6. SubSeq(dirs, d, N) = <<dirs[d]>> \o SubSeq(dirs, d + 1, N)
    <3>1. dirs \in Seq(Directory) /\ d \in 1 .. Len(dirs) /\ N \in d .. Len(dirs)
      BY <2>2, <1>2, <1>13 DEF N
    <3> QED BY <3>1, SubSeqRecursiveFirst
  <2>7. CASE d = N
    <3>1. c[n][dirs[d].offset] = <<dirs[d]>> \o <<>>
      <4>1. dirs[d].offset \in 0 .. L - 1
        BY <2>2, <1>2
      <4>2. dirs[d] = [offset |-> dirs[d].offset, data |-> blocks[dirs[d].offset + 1]]
        BY <2>2, <1>3
      <4>3. blocks[dirs[d].offset + 1].next_directory \notin 1 .. L - 1
        BY <2>7, <1>5
      <4> QED BY <2>5, <4>1, <4>2, <4>3, <1>6, Zenon
    <3>2. SubSeq(dirs, d + 1, N) = <<>>
      <4>1. d + 1 \in Int /\ N \in Int /\ N < d + 1
        BY <2>2, <2>7, <1>13
      <4> QED BY <4>1, SubSeqEmpty
    <3> QED BY <2>3, <2>6, <3>1, <3>2, Zenon
  <2>8. CASE d # N
    <3>1. d < N /\ d + 1 = N - (k - 1) /\ k - 1 \in Nat /\ k - 1 < N /\ k - 1 < k
      BY <2>2, <2>8, <1>13
    <3>2. P(d + 1)
      BY <2>4, <3>1
    <3>3. n - 1 \in 0 .. L /\ n - 1 > N - (d + 1)
      BY <2>2, <2>3, <2>5, <1>13
    <3>4. c[n - 1][dirs[d + 1].offset] = SubSeq(dirs, d + 1, N)
      BY <3>2, <3>3 DEF P
    <3>5. c[n][dirs[d].offset] = <<dirs[d]>> \o SubSeq(dirs, d + 1, N)
      <4>1. dirs[d].offset \in 0 .. L - 1
        BY <2>2, <1>2
      <4>2. /\ blocks[dirs[d].offset + 1].next_directory = dirs[d + 1].offset
            /\ dirs[d + 1].offset \in 1 .. L - 1
        BY <2>2, <3>1, <1>4
      <4>3. dirs[d] = [offset |-> dirs[d].offset, data |-> blocks[dirs[d].offset + 1]]
        BY <2>2, <1>3
      <4> QED BY <2>5, <3>4, <4>1, <4>2, <4>3, <1>6, ZenonT(30)
    <3> QED BY <2>3, <2>6, <3>5
  <2> QED BY <2>7, <2>8
<1>8. P(1)
  <2>1. N - 1 \in Nat /\ N - 1 < N /\ N - (N - 1) = 1
    BY <1>2
  <2>2. N - 1 \notin bad
    BY <1>7
  <2> QED BY <2>1, <2>2
<1>9. N <= L /\ L \in 0 .. L /\ L > N - 1
  <2>1. N <= L
    BY <1>1, DirectoriesBounded DEF N, L
  <2> QED BY <2>1, <1>1, <1>2
<1>10. c[L][dirs[1].offset] = SubSeq(dirs, 1, N)
  BY <1>8, <1>9
<1>11. SubSeq(dirs, 1, N) = dirs
  BY <1>2 DEF N
<1>12. dirs[1].offset = 0 /\ blocks # <<>>
  <2>1. L # 0
    BY <1>2, <1>9
  <2> QED BY <2>1, <1>1 DEF DirectoriesLinked, L
<1> QED BY <1>10, <1>11, <1>12, Zenon DEF DirectoriesFrom, c, L


-----------------------------------------------------------------------------
(***************************************************************************)
(* What a crash may leave behind.  Recoverable(dirs, blocks, values) holds *)
(* of a file that a heap file with these directories in memory may have on *)
(* disk: its directories are earlier ones of the same chain, its pages     *)
(* hold, for each record id, one of `values`, and the record ids that the  *)
(* directories on disk do not lead to had no record at some time.          *)
(***************************************************************************)
Value(page, slot) == IF page.flag[slot] THEN read_fixed_len_page(page, slot) ELSE NoRecord

\* The block on disk of a directory in memory
Earlier(dirs, blocks, d) == blocks[dirs[d].offset + 1]

\* A directory reaches the disk empty, when it is created, and then only when the
\* file is closed: entries may be missing there, and the link to the next one.
Behind(dirs, blocks) ==
  /\ \A d \in DOMAIN dirs :
       LET old == Earlier(dirs, blocks, d)
       IN  /\ old \in DirectoryData
           /\ Len(old.entries) <= Len(dirs[d].data.entries)
           /\ old.next_directory # 0 =>
                /\ old.next_directory = dirs[d].data.next_directory
                /\ Len(old.entries) = DirCapacity
  /\ \A p \in Nat :
       LET old == Earlier(dirs, blocks, DirNo(p))
       IN  Allocated(dirs, p) /\ SlotNo(p) \in DOMAIN old.entries =>
             old.entries[SlotNo(p)].offset = get_entry(dirs, p).offset

\* The directories on disk lead to the page.
Reached(dirs, blocks, p) ==
  /\ Allocated(dirs, p)
  /\ SlotNo(p) \in DOMAIN Earlier(dirs, blocks, DirNo(p)).entries
  /\ \A d \in DOMAIN dirs : d < DirNo(p) => Earlier(dirs, blocks, d).next_directory # 0

PagesKept(dirs, blocks, values) ==
  \A rid \in Rid :
    /\ Allocated(dirs, rid[1]) =>
         Value(blocks[get_entry(dirs, rid[1]).offset + 1], rid[2]) \in values[rid]
    /\ ~ Reached(dirs, blocks, rid[1]) => NoRecord \in values[rid]

Recoverable(dirs, blocks, values) ==
  /\ Structure(dirs, blocks)
  /\ Behind(dirs, blocks)
  /\ PagesKept(dirs, blocks, values)

\* The values of the open heap file
Holding(h, blocks, values) ==
  \A rid \in Rid : ContentsOf(h, blocks)[rid] \in values[rid]

\* The files that the process has left on disk at some point of a call
Left(st, values) ==
  \A b \in st.was : /\ Len(b) <= Len(st.disk)
                    /\ \E dirs \in Dirs : Recoverable(dirs, b, values)

Durable(st, values) ==
  /\ Consistent(st.heap, st.disk)
  /\ Recoverable(st.heap.directory_buffer, st.disk, values)
  /\ Holding(st.heap, st.disk, values)
  /\ Left(st, values)

-----------------------------------------------------------------------------
\* The record of a record id, from its page.
LEMMA ContentsAre ==
  ASSUME NEW h, NEW blocks, NEW rid \in Rid
  PROVE  ContentsOf(h, blocks)[rid]
           = IF Allocated(h.directory_buffer, rid[1])
               THEN Value(PageOf(h, blocks, rid[1]), rid[2]) ELSE NoRecord
BY DEF ContentsOf, Value

\* A record id is a page id and a slot.
LEMMA RidType ==
  ASSUME NEW rid \in Rid
  PROVE  rid[1] \in Nat /\ rid[1] < MaxBlocks /\ rid[2] \in Slots /\ rid = <<rid[1], rid[2]>>
<1>1. rid[1] \in 0 .. MaxBlocks - 1 /\ rid[2] \in Slots /\ rid = <<rid[1], rid[2]>>
  BY DEF Rid
<1> QED BY <1>1, MaxBlocksAssumption

\* open_heapfile makes of a closed heap file one with the same directories.
LEMMA ReopenedUnused ==
  ASSUME NEW dirs \in Dirs, NEW blocks, OnDisk(dirs, blocks)
  PROVE  Reopened(blocks) = Unused(dirs)
<1>1. DirectoriesFrom(blocks) = dirs
  BY ChainIsDirectories
<1>2. ASSUME NEW h, h = Unused(<<>>), NEW g, g = [h EXCEPT !.directory_buffer = dirs]
      PROVE  g = Unused(dirs)
  BY <1>2, Zenon DEF Unused
<1>3. init_heapfile = Unused(<<>>)
  BY DEF init_heapfile, Unused
<1> QED BY <1>1, <1>2, <1>3, Zenon DEF Reopened

\* A file that is recoverable has a chain of directories, which open_heapfile
\* reads, and the records it finds are among the values.
LEMMA RecoverableOpens ==
  ASSUME NEW dirs \in Dirs, NEW blocks, NEW values, Recoverable(dirs, blocks, values)
  PROVE  /\ \E read \in Dirs : OnDisk(read, blocks)
         /\ Holding(Reopened(blocks), blocks, values)
<1> DEFINE N == Len(dirs)
           old(d) == Earlier(dirs, blocks, d)
           ends == {d \in 1 .. N : old(d).next_directory = 0}
<1>1. /\ blocks \in Seq(Block) /\ DirectoriesLinked(dirs, blocks) /\ PagesPlaced(dirs, blocks)
      /\ Behind(dirs, blocks) /\ PagesKept(dirs, blocks, values)
  BY DEF Recoverable, Structure
<1>2. /\ N \in Nat \ {0} /\ DOMAIN dirs = 1 .. N
      /\ \A d \in 1 .. N : dirs[d].offset \in Nat
  BY <1>1, DirectoryType DEF DirectoriesLinked
<1>3. \A d \in 1 .. N :
        /\ old(d) \in DirectoryData
        /\ Len(old(d).entries) <= Len(dirs[d].data.entries)
        /\ old(d).next_directory # 0 =>
             /\ old(d).next_directory = dirs[d].data.next_directory
             /\ Len(old(d).entries) = DirCapacity
  BY <1>1, <1>2 DEF Behind
<1>4. ends # {}
  <2>1. N \in 1 .. N /\ dirs[N].data.next_directory = 0
    BY <1>1, <1>2 DEF DirectoriesLinked
  <2>2. old(N).next_directory = 0
    BY <2>1, <1>3
  <2> QED BY <2>1, <2>2
<1>5. PICK m \in ends : \A e \in ends : m <= e
  <2>1. ends \subseteq Nat
    BY <1>2
  <2> HIDE DEF ends
  <2> QED BY <2>1, <1>4, LeastElement, Zenon
<1>6. m \in 1 .. N /\ old(m).next_directory = 0
  BY <1>5
<1>7. \A d \in 1 .. N : d < m => old(d).next_directory # 0
  <2> SUFFICES ASSUME NEW d \in 1 .. N, d < m, old(d).next_directory = 0 PROVE FALSE
    OBVIOUS
  <2>1. d \in ends
    OBVIOUS
  <2>2. m <= d
    BY <2>1, <1>5
  <2> QED BY <2>2, <1>2, <1>6
<1> HIDE DEF ends
<1> DEFINE read == [d \in 1 .. m |-> [offset |-> dirs[d].offset, data |-> old(d)]]
<1>8. /\ read \in Dirs /\ Len(read) = m /\ DOMAIN read = 1 .. m
      /\ \A d \in 1 .. m : /\ d \in 1 .. N
                           /\ read[d].offset = dirs[d].offset /\ read[d].data = old(d)
  <2>1. m \in Nat /\ \A d \in 1 .. m : d \in 1 .. N
    BY <1>2, <1>6
  <2>2. \A d \in 1 .. m : [offset |-> dirs[d].offset, data |-> old(d)] \in Directory
    BY <2>1, <1>2, <1>3 DEF Directory
  <2>3. read \in [1 .. m -> Directory]
    BY <2>2
  <2> QED BY <2>1, <2>3 DEF Dirs
<1> HIDE DEF read
<1>9. ASSUME NEW p \in Nat
      PROVE  /\ Allocated(read, p) <=> Reached(dirs, blocks, p)
             /\ Allocated(read, p) => get_entry(read, p).offset = get_entry(dirs, p).offset
  <2>1. ASSUME Allocated(read, p)
        PROVE  /\ Reached(dirs, blocks, p)
               /\ get_entry(read, p).offset = get_entry(dirs, p).offset
    <3>1. DirNo(p) \in 1 .. m /\ SlotNo(p) \in DOMAIN old(DirNo(p)).entries
      BY <2>1, <1>8 DEF Allocated
    <3>2. DirNo(p) \in 1 .. N /\ old(DirNo(p)) \in DirectoryData
      BY <3>1, <1>3, <1>8
    <3>3. dirs[DirNo(p)].data \in DirectoryData
      BY <3>2, <1>2, DirectoryType
    <3>4. SlotNo(p) \in DOMAIN dirs[DirNo(p)].data.entries
      <4>1. Len(old(DirNo(p)).entries) <= Len(dirs[DirNo(p)].data.entries)
        BY <3>2, <1>3
      <4> QED BY <4>1, <3>1, <3>2, <3>3 DEF DirectoryData
    <3>5. Allocated(dirs, p)
      BY <3>2, <3>4, <1>2 DEF Allocated
    <3>6. \A d \in DOMAIN dirs : d < DirNo(p) => old(d).next_directory # 0
      <4> SUFFICES ASSUME NEW d \in DOMAIN dirs, d < DirNo(p) PROVE old(d).next_directory # 0
        OBVIOUS
      <4>1. d \in 1 .. N /\ d < m
        BY <3>1, <1>2, <1>6
      <4> QED BY <4>1, <1>7
    <3>7. Reached(dirs, blocks, p)
      BY <3>1, <3>5, <3>6 DEF Reached
    <3>8. get_entry(read, p) = old(DirNo(p)).entries[SlotNo(p)]
      BY <3>1, <1>8 DEF get_entry
    <3> QED BY <3>1, <3>5, <3>7, <3>8, <1>1 DEF Behind
  <2>2. ASSUME Reached(dirs, blocks, p) PROVE Allocated(read, p)
    <3>1. DirNo(p) \in 1 .. N /\ SlotNo(p) \in DOMAIN old(DirNo(p)).entries
      BY <2>2, <1>2 DEF Reached, Allocated
    <3>2. ~ (m < DirNo(p))
      BY <2>2, <1>2, <1>6 DEF Reached
    <3>3. DirNo(p) \in 1 .. m
      BY <3>1, <3>2, <1>2, <1>6
    <3> QED BY <3>1, <3>3, <1>8 DEF Allocated
  <2> QED BY <2>1, <2>2
<1>10. DirectoriesLinked(read, blocks)
  <2>1. Len(read) > 0 /\ read[1].offset = 0
    <3>1. m > 0 /\ 1 \in 1 .. m
      BY <1>2, <1>6
    <3> QED BY <3>1, <1>1, <1>8 DEF DirectoriesLinked
  <2>2. ASSUME NEW d \in DOMAIN read
        PROVE  /\ read[d].offset < Len(blocks)
               /\ d < Len(read) => is_full(read[d])
               /\ read[d].data.next_directory = IF d = Len(read) THEN 0 ELSE read[d + 1].offset
    <3>1. d \in 1 .. m /\ d \in 1 .. N /\ read[d].offset = dirs[d].offset /\ read[d].data = old(d)
      BY <1>8
    <3>2. read[d].offset < Len(blocks)
      BY <3>1, <1>1, <1>2 DEF DirectoriesLinked
    <3>3. CASE d = m
      BY <3>1, <3>2, <3>3, <1>6, <1>8
    <3>4. CASE d # m
      <4>1. d < m /\ d + 1 \in 1 .. m /\ d < N
        BY <3>1, <3>4, <1>2, <1>6
      <4>2. old(d).next_directory = dirs[d].data.next_directory /\ Len(old(d).entries) = DirCapacity
        BY <3>1, <4>1, <1>3, <1>7
      <4>3. dirs[d].data.next_directory = dirs[d + 1].offset
        BY <3>1, <4>1, <1>1, <1>2 DEF DirectoriesLinked
      <4> QED BY <3>1, <3>2, <3>4, <4>1, <4>2, <4>3, <1>8 DEF is_full
    <3> QED BY <3>3, <3>4
  <2>3. \A d, e \in DOMAIN read : read[d].offset = read[e].offset => d = e
    BY <1>1, <1>2, <1>8 DEF DirectoriesLinked
  <2> QED BY <2>1, <2>2, <2>3 DEF DirectoriesLinked
<1>11. PagesPlaced(read, blocks)
  <2>1. \A d \in DOMAIN read : d \in DOMAIN dirs /\ read[d].offset = dirs[d].offset
    BY <1>2, <1>8
  <2>2. \A p \in Nat : Allocated(read, p) =>
          Allocated(dirs, p) /\ get_entry(read, p).offset = get_entry(dirs, p).offset
    BY <1>9 DEF Reached
  <2> QED BY <2>1, <2>2, <1>1 DEF PagesPlaced
<1>12. OnDisk(read, blocks)
  <2>1. Structure(read, blocks)
    BY <1>1, <1>8, <1>10, <1>11 DEF Structure
  <2>2. /\ Unused(read).directory_buffer = read /\ Unused(read).cached_pid = -1
        /\ Unused(read).page_cache_dirty = FALSE /\ Unused(read) \in HeapStructure
    BY <1>8, PageCalls DEF Unused, HeapStructure, Dirs
  <2>3. Consistent(Unused(read), blocks)
    BY <2>1, <2>2 DEF Consistent, Cached
  <2>4. \A d \in DOMAIN read : blocks[read[d].offset + 1] = read[d].data
    BY <1>8 DEF Earlier
  <2> QED BY <2>3, <2>4 DEF OnDisk
<1>13. ASSUME NEW rid \in Rid
       PROVE  ContentsOf(Reopened(blocks), blocks)[rid] \in values[rid]
  <2> DEFINE p == rid[1]
             h == Reopened(blocks)
  <2>1. h.directory_buffer = read /\ h.cached_pid = -1 /\ p \in Nat
    BY <1>8, <1>12, ReopenedUnused, RidType DEF Unused
  <2> HIDE DEF h, p
  <2>2. CASE Allocated(read, p)
    <3>1. PageOf(h, blocks, p) = blocks[get_entry(dirs, p).offset + 1]
      BY <2>1, <2>2, <1>9 DEF PageOf
    <3>2. Allocated(dirs, p)
      BY <2>1, <2>2, <1>9 DEF Reached
    <3> QED BY <2>1, <2>2, <3>1, <3>2, <1>1, ContentsAre DEF PagesKept, h, p
  <2>3. CASE ~ Allocated(read, p)
    <3>1. ~ Reached(dirs, blocks, p)
      BY <2>1, <2>3, <1>9
    <3>2. ContentsOf(h, blocks)[rid] = NoRecord
      BY <2>1, <2>3, ContentsAre DEF p
    <3> QED BY <3>1, <3>2, <1>1 DEF PagesKept, h, p
  <2> QED BY <2>2, <2>3 DEF h
<1> QED BY <1>8, <1>12, <1>13 DEF Holding

-----------------------------------------------------------------------------
\* A file whose directory blocks are those of a recoverable one, and whose pages
\* hold some of the values.
LEMMA SameDirectories ==
  ASSUME NEW dirs, NEW blocks, NEW file, NEW values,
         Recoverable(dirs, blocks, values), Structure(dirs, file),
         \A d \in DOMAIN dirs : Earlier(dirs, file, d) = Earlier(dirs, blocks, d),
         \A rid \in Rid : Allocated(dirs, rid[1]) =>
           Value(file[get_entry(dirs, rid[1]).offset + 1], rid[2]) \in values[rid]
  PROVE  Recoverable(dirs, file, values)
<1>1. \A p \in Nat : Allocated(dirs, p) =>
        Earlier(dirs, file, DirNo(p)) = Earlier(dirs, blocks, DirNo(p))
  BY DEF Allocated
<1>2. Behind(dirs, file)
  BY <1>1 DEF Recoverable, Behind
<1>3. ASSUME NEW p \in Nat, Reached(dirs, blocks, p) PROVE Reached(dirs, file, p)
  BY <1>1, <1>3 DEF Reached
<1>4. PagesKept(dirs, file, values)
  BY <1>3, RidType DEF Recoverable, PagesKept
<1> QED BY <1>2, <1>4 DEF Recoverable

\* The cached page is written to a block that is no directory's.
LEMMA FlushLeavesDirectories ==
  ASSUME NEW st \in State, Consistent(st.heap, st.disk)
  PROVE  LET f == FlushCache(st)
             dirs == st.heap.directory_buffer
         IN  /\ \A d \in DOMAIN dirs : Earlier(dirs, f.disk, d) = Earlier(dirs, st.disk, d)
             /\ f.was = st.was \/ f.was = st.was \cup {f.disk}
<1> DEFINE f == FlushCache(st)
           dirs == st.heap.directory_buffer
           pid == st.heap.cached_pid
           off == get_entry(dirs, pid).offset
<1>1. /\ st.heap \in HeapStructure /\ st.disk \in Seq(Block) /\ dirs \in Dirs
      /\ DirectoriesLinked(dirs, st.disk) /\ PagesPlaced(dirs, st.disk)
  BY DEF State, Consistent, Structure
<1>2. CASE ~ st.heap.page_cache_dirty
  BY <1>2 DEF FlushCache
<1>3. CASE st.heap.page_cache_dirty
  <2>1. pid \in Nat /\ Allocated(dirs, pid)
    BY <1>1, <1>3 DEF Consistent, Cached, HeapStructure
  <2>2. /\ off \in Nat /\ off < Len(st.disk) /\ Len(st.disk) \in Nat
        /\ \A d \in DOMAIN dirs : off # dirs[d].offset /\ dirs[d].offset \in Nat
    BY <2>1, <1>1, EntryType, DirectoryType DEF PagesPlaced, Entry
  <2>3. f = write_block(st, st.heap.cached_page, off)
    BY <1>3 DEF FlushCache
  <2> HIDE DEF off, f
  <2> DEFINE written == [st.disk EXCEPT ![off + 1] = st.heap.cached_page]
  <2>4. f = [heap |-> st.heap, disk |-> written, was |-> st.was \cup {written}]
    <3>1. off # Len(st.disk)
      BY <2>2
    <3> QED BY <2>3, <3>1, Zenon DEF write_block
  <2>5. f.disk = written /\ f.was = st.was \cup {f.disk}
    BY <2>4
  <2>6. ASSUME NEW d \in DOMAIN dirs
        PROVE  written[dirs[d].offset + 1] = st.disk[dirs[d].offset + 1]
    <3>1. dirs[d].offset + 1 # off + 1
      BY <2>2
    <3> QED BY <3>1
  <2> HIDE DEF written
  <2> QED BY <2>5, <2>6 DEF Earlier, f
<1>4. st.heap.page_cache_dirty \in BOOLEAN
  BY <1>1 DEF HeapStructure
<1> QED BY <1>2, <1>3, <1>4

\* Writing out the cached page is durable: it holds values of the heap file.
LEMMA FlushDurable ==
  ASSUME NEW st \in State, NEW values, Durable(st, values)
  PROVE  LET f == FlushCache(st)
         IN  /\ Recoverable(st.heap.directory_buffer, f.disk, values)
             /\ Left(f, values)
<1> DEFINE f == FlushCache(st)
           dirs == st.heap.directory_buffer
<1>1. /\ f \in State /\ f.heap = st.heap /\ Len(f.disk) = Len(st.disk)
      /\ Structure(dirs, f.disk)
      /\ \A p \in Nat : Allocated(dirs, p) =>
           f.disk[get_entry(dirs, p).offset + 1] = PageOf(st.heap, st.disk, p)
  BY FlushWritesPage, Zenon DEF Durable
<1>2. /\ \A d \in DOMAIN dirs : Earlier(dirs, f.disk, d) = Earlier(dirs, st.disk, d)
      /\ f.was = st.was \/ f.was = st.was \cup {f.disk}
  BY FlushLeavesDirectories DEF Durable
<1> HIDE DEF f
<1>3. ASSUME NEW rid \in Rid, Allocated(dirs, rid[1])
      PROVE  Value(f.disk[get_entry(dirs, rid[1]).offset + 1], rid[2]) \in values[rid]
  <2>1. rid[1] \in Nat
    BY RidType
  <2> QED BY <2>1, <1>1, <1>3, ContentsAre DEF Durable, Holding
<1>4. Recoverable(dirs, f.disk, values)
  BY <1>1, <1>2, <1>3, SameDirectories DEF Durable
<1>5. dirs \in Dirs /\ Len(st.disk) \in Nat
  BY <1>1 DEF Structure, State
<1>6. Left(f, values)
  BY <1>1, <1>2, <1>4, <1>5 DEF Durable, Left
<1> QED BY <1>4, <1>6 DEF f

\* The contents depend on the allocated pages only.
LEMMA SameHolding ==
  ASSUME NEW st, NEW g, NEW values, Holding(st.heap, st.disk, values),
         \A p \in Nat : Allocated(g.heap.directory_buffer, p) =>
           /\ Allocated(st.heap.directory_buffer, p)
           /\ PageOf(g.heap, g.disk, p) = PageOf(st.heap, st.disk, p),
         \A p \in Nat : Allocated(st.heap.directory_buffer, p) => Allocated(g.heap.directory_buffer, p)
  PROVE  Holding(g.heap, g.disk, values)
<1> SUFFICES ASSUME NEW rid \in Rid
             PROVE  ContentsOf(g.heap, g.disk)[rid] \in values[rid]
  BY DEF Holding
<1>1. rid[1] \in Nat /\ ContentsOf(st.heap, st.disk)[rid] \in values[rid]
  BY RidType DEF Holding
<1>2. ContentsOf(g.heap, g.disk)[rid] = ContentsOf(st.heap, st.disk)[rid]
  BY <1>1, ContentsAre
<1> QED BY <1>1, <1>2

\* get_page is durable.
LEMMA GetDurable ==
  ASSUME NEW st \in State, NEW values, Durable(st, values), NEW pid \in Nat,
         Allocated(st.heap.directory_buffer, pid)
  PROVE  Durable(get_page(st, pid), values)
<1> DEFINE g == get_page(st, pid)
           f == FlushCache(st)
           dirs == st.heap.directory_buffer
<1>1. CASE st.heap.cached_pid = pid
  BY <1>1 DEF get_page
<1>2. CASE st.heap.cached_pid # pid
  <2>1. /\ Consistent(g.heap, g.disk) /\ Fetched(st, g, pid)
        /\ g.heap.directory_buffer = dirs
    BY GetPageConsistent DEF Durable
  <2>2. g.disk = f.disk /\ g.was = f.was
    BY <1>2 DEF get_page, Cache, WithHeap
  <2>3. Recoverable(dirs, f.disk, values) /\ Left(f, values)
    BY FlushDurable
  <2> HIDE DEF g, f
  <2>4. Holding(g.heap, g.disk, values)
    BY <2>1, SameHolding DEF Durable, Fetched
  <2>5. Left(g, values)
    BY <2>2, <2>3 DEF Left
  <2> QED BY <2>1, <2>2, <2>3, <2>4, <2>5 DEF Durable, g
<1> QED BY <1>1, <1>2

-----------------------------------------------------------------------------
\* A block at the end of the file that no directory leads to changes nothing.
LEMMA ExtendedRecoverable ==
  ASSUME NEW dirs, NEW blocks, NEW longer, NEW values,
         Recoverable(dirs, blocks, values), Extends(blocks, longer)
  PROVE  Recoverable(dirs, longer, values)
<1>1. /\ dirs \in Dirs /\ blocks \in Seq(Block) /\ longer \in Seq(Block)
      /\ Len(blocks) \in Nat /\ Len(longer) \in Nat /\ Len(longer) > Len(blocks)
      /\ DirectoriesLinked(dirs, blocks) /\ PagesPlaced(dirs, blocks)
  BY DEF Recoverable, Structure, Extends
<1>2. ASSUME NEW off \in Nat, off < Len(blocks)
      PROVE  off < Len(longer) /\ longer[off + 1] = blocks[off + 1]
  <2>1. off + 1 \in 1 .. Len(blocks) /\ off < Len(longer)
    BY <1>1, <1>2
  <2> QED BY <2>1 DEF Extends
<1>3. \A d \in DOMAIN dirs : dirs[d].offset \in Nat /\ dirs[d].offset < Len(blocks)
  BY <1>1, DirectoryType DEF DirectoriesLinked
<1>4. \A p \in Nat : Allocated(dirs, p) =>
        get_entry(dirs, p).offset \in Nat /\ get_entry(dirs, p).offset < Len(blocks)
  BY <1>1, EntryType DEF PagesPlaced, Entry
<1>5. DirectoriesLinked(dirs, longer)
  BY <1>1, <1>2, <1>3 DEF DirectoriesLinked
<1>6. PagesPlaced(dirs, longer)
  BY <1>1, <1>2, <1>4 DEF PagesPlaced
<1>7. Structure(dirs, longer)
  BY <1>1, <1>5, <1>6 DEF Structure
<1>8. \A d \in DOMAIN dirs : Earlier(dirs, longer, d) = Earlier(dirs, blocks, d)
  BY <1>2, <1>3 DEF Earlier
<1>9. \A rid \in Rid : Allocated(dirs, rid[1]) =>
        Value(longer[get_entry(dirs, rid[1]).offset + 1], rid[2]) \in values[rid]
  BY <1>2, <1>4, RidType DEF Recoverable, PagesKept
<1> QED BY <1>7, <1>8, <1>9, SameDirectories

\* No record of an empty page
LEMMA EmptyPage ==
  ASSUME NEW slot \in Slots
  PROVE  Value(init_fixed_len_page, slot) = NoRecord
BY DEF Value, init_fixed_len_page

\* A new page and its entry, in a directory that had room or in a new one, which
\* the directory on disk before it does not lead to.
LEMMA GrownRecoverable ==
  ASSUME NEW dirs, NEW blocks, NEW new, NEW longer, NEW pid, NEW entry, NEW values,
         Recoverable(dirs, blocks, values), Structure(new, longer),
         Added(dirs, new, pid, entry), Lengthened(dirs, blocks, new, longer),
         longer[entry.offset + 1] = init_fixed_len_page
  PROVE  Recoverable(new, longer, values)
<1>1. /\ dirs \in Dirs /\ new \in Dirs /\ pid \in Nat
      /\ Structure(dirs, blocks) /\ Behind(dirs, blocks) /\ PagesKept(dirs, blocks, values)
      /\ Recoverable(dirs, longer, values)
  BY ExtendedRecoverable DEF Recoverable, Structure, Added, Lengthened
<1>2. Behind(dirs, longer) /\ PagesKept(dirs, longer, values)
  BY <1>1 DEF Recoverable
<1>3. \A d \in DOMAIN dirs : d \in DOMAIN new /\ Earlier(new, longer, d) = Earlier(dirs, longer, d)
  BY DEF Lengthened, Earlier
<1>4. \A d \in DOMAIN new : d \notin DOMAIN dirs => Earlier(new, longer, d) = NewDirectory
  BY DEF Lengthened, Earlier
<1>5. NewDirectory \in DirectoryData /\ NewDirectory.entries = <<>> /\ NewDirectory.next_directory = 0
  <2>1. <<>> \in Seq(Entry) /\ Len(<<>>) <= DirCapacity
    BY DirCapacityAssumption
  <2> QED BY <2>1 DEF NewDirectory, DirectoryData
<1>6. \A d \in DOMAIN dirs : dirs[d].data \in DirectoryData
  BY <1>1, DirectoryType
<1>7. \A d \in DOMAIN new : new[d].data \in DirectoryData
  BY <1>1, DirectoryType
<1>8. \A data \in DirectoryData : /\ Len(data.entries) \in Nat
                                  /\ DOMAIN data.entries = 1 .. Len(data.entries)
  BY DEF DirectoryData
<1>9. ASSUME NEW d \in DOMAIN new
      PROVE  LET old == Earlier(new, longer, d)
             IN  /\ old \in DirectoryData
                 /\ Len(old.entries) <= Len(new[d].data.entries)
                 /\ old.next_directory # 0 =>
                      /\ old.next_directory = new[d].data.next_directory
                      /\ Len(old.entries) = DirCapacity
  <2> DEFINE old == Earlier(new, longer, d)
  <2>1. CASE d \in DOMAIN dirs
    <3>1. /\ old = Earlier(dirs, longer, d) /\ old \in DirectoryData
          /\ Len(old.entries) <= Len(dirs[d].data.entries)
          /\ old.next_directory # 0 =>
               /\ old.next_directory = dirs[d].data.next_directory
               /\ Len(old.entries) = DirCapacity
      BY <2>1, <1>2, <1>3 DEF Behind
    <3> HIDE DEF old
    <3>2. /\ Len(dirs[d].data.entries) <= Len(new[d].data.entries)
          /\ dirs[d].data.next_directory # 0 =>
               new[d].data.next_directory = dirs[d].data.next_directory
      BY <2>1 DEF Lengthened
    <3>3. Len(old.entries) <= Len(new[d].data.entries)
      <4>1. Len(old.entries) \in Nat /\ Len(dirs[d].data.entries) \in Nat /\ Len(new[d].data.entries) \in Nat
        BY <2>1, <3>1, <1>6, <1>7, <1>8
      <4> QED BY <4>1, <3>1, <3>2
    <3> QED BY <3>1, <3>2, <3>3 DEF old
  <2>2. CASE d \notin DOMAIN dirs
    <3>1. old = NewDirectory /\ Len(new[d].data.entries) \in Nat
      BY <2>2, <1>4, <1>7, <1>8
    <3>2. Len(NewDirectory.entries) = 0
      BY <1>5
    <3> QED BY <3>1, <3>2, <1>5
  <2> QED BY <2>1, <2>2
<1>10. ASSUME NEW p \in Nat, Allocated(new, p),
              SlotNo(p) \in DOMAIN Earlier(new, longer, DirNo(p)).entries
       PROVE  /\ Allocated(dirs, p) /\ get_entry(new, p) = get_entry(dirs, p)
              /\ Earlier(new, longer, DirNo(p)) = Earlier(dirs, longer, DirNo(p))
  <2>1. DirNo(p) \in DOMAIN dirs
    <3> SUFFICES ASSUME DirNo(p) \notin DOMAIN dirs PROVE FALSE
      OBVIOUS
    <3>1. Earlier(new, longer, DirNo(p)) = NewDirectory
      BY <1>4, <1>10 DEF Allocated
    <3> QED BY <3>1, <1>5, <1>10
  <2> DEFINE old == Earlier(dirs, longer, DirNo(p))
  <2>2. old = Earlier(new, longer, DirNo(p)) /\ old \in DirectoryData
        /\ Len(old.entries) <= Len(dirs[DirNo(p)].data.entries)
    BY <2>1, <1>2, <1>3 DEF Behind
  <2>3. SlotNo(p) \in DOMAIN dirs[DirNo(p)].data.entries
    <3>1. SlotNo(p) \in 1 .. Len(old.entries) /\ Len(old.entries) \in Nat
      BY <2>2, <1>8, <1>10
    <3>2. /\ Len(dirs[DirNo(p)].data.entries) \in Nat
          /\ DOMAIN dirs[DirNo(p)].data.entries = 1 .. Len(dirs[DirNo(p)].data.entries)
      BY <2>1, <1>6, <1>8
    <3> HIDE DEF old
    <3> QED BY <3>1, <3>2, <2>2
  <2>4. Allocated(dirs, p)
    BY <2>1, <2>3 DEF Allocated
  <2> QED BY <2>2, <2>4 DEF Added
<1>11. Behind(new, longer)
  BY <1>2, <1>9, <1>10 DEF Behind
<1>12. ASSUME NEW p \in Nat, Reached(dirs, longer, p)
       PROVE  Reached(new, longer, p)
  <2>1. Allocated(dirs, p) /\ Allocated(new, p) /\ DirNo(p) \in DOMAIN dirs
    BY <1>12 DEF Reached, Added, Allocated
  <2>2. SlotNo(p) \in DOMAIN Earlier(new, longer, DirNo(p)).entries
    BY <2>1, <1>3, <1>12 DEF Reached
  <2>3. ASSUME NEW d \in DOMAIN new, d < DirNo(p)
        PROVE  Earlier(new, longer, d).next_directory # 0
    <3>1. d \in DOMAIN dirs
      BY <2>1, <2>3, <1>1, DirectoryType
    <3> QED BY <3>1, <2>3, <1>3, <1>12 DEF Reached
  <2> QED BY <2>1, <2>2, <2>3 DEF Reached
<1>13. ASSUME NEW rid \in Rid
       PROVE  /\ Allocated(new, rid[1]) =>
                   Value(longer[get_entry(new, rid[1]).offset + 1], rid[2]) \in values[rid]
              /\ ~ Reached(new, longer, rid[1]) => NoRecord \in values[rid]
  <2>1. rid[1] \in Nat /\ rid[2] \in Slots
    BY RidType
  <2>2. ~ Reached(new, longer, rid[1]) => NoRecord \in values[rid]
    BY <2>1, <1>2, <1>12 DEF PagesKept
  <2>3. CASE rid[1] = pid
    <3>1. ~ Reached(dirs, longer, pid) /\ get_entry(new, pid) = entry
      BY DEF Reached, Added
    <3>2. NoRecord \in values[rid]
      BY <2>3, <3>1, <1>2 DEF PagesKept
    <3> QED BY <2>1, <2>2, <2>3, <3>1, <3>2, EmptyPage
  <2>4. CASE rid[1] # pid
    <3>1. Allocated(new, rid[1]) =>
            Allocated(dirs, rid[1]) /\ get_entry(new, rid[1]) = get_entry(dirs, rid[1])
      BY <2>1, <2>4 DEF Added
    <3> QED BY <2>2, <3>1, <1>2 DEF PagesKept
  <2> QED BY <2>3, <2>4
<1>14. PagesKept(new, longer, values)
  BY <1>13 DEF PagesKept
<1> QED BY <1>11, <1>14 DEF Recoverable

\* append_entry is durable.
LEMMA AppendDurable ==
  ASSUME NEW st \in State, NEW values, Durable(st, values)
  PROVE  LET page == init_fixed_len_page
             entry == [offset |-> EndOfFile(st), free_space |-> fixed_len_page_freeslots(page)]
             a == append_entry(write_block(st, page, entry.offset), entry)
         IN  Durable(a, values)
<1> DEFINE page == init_fixed_len_page
           entry == [offset |-> EndOfFile(st), free_space |-> fixed_len_page_freeslots(page)]
           a == append_entry(write_block(st, page, entry.offset), entry)
           dirs == st.heap.directory_buffer
           new == a.heap.directory_buffer
           pid == appended_pid(dirs)
           paged == Append(st.disk, page)
<1>1. /\ Consistent(st.heap, st.disk) /\ Recoverable(dirs, st.disk, values)
      /\ Holding(st.heap, st.disk, values) /\ Left(st, values)
      /\ st.disk \in Seq(Block) /\ dirs \in Dirs
  BY DEF Durable, Recoverable, Structure
<1>2. /\ a \in State /\ Consistent(a.heap, a.disk)
      /\ pid \in Nat
      /\ PageOf(a.heap, a.disk, pid) = page
      /\ OneMore(st.heap, st.disk, a.heap, a.disk, pid)
      /\ Added(dirs, new, pid, entry)
      /\ Lengthened(dirs, st.disk, new, a.disk)
      /\ a.disk[Len(st.disk) + 1] = page
      /\ \A b \in a.was : b \in st.was \/ b = paged \/ b = a.disk
  BY <1>1, AppendConsistent, Zenon
<1>3. entry.offset = Len(st.disk)
  BY DEF EndOfFile
<1> HIDE DEF a, pid, entry
<1>4. Structure(new, a.disk)
  BY <1>2, ZenonT(30) DEF Consistent
<1>5. Recoverable(new, a.disk, values)
  BY <1>1, <1>2, <1>3, <1>4, GrownRecoverable
<1>6. ASSUME NEW rid \in Rid
      PROVE  ContentsOf(a.heap, a.disk)[rid] \in values[rid]
  <2>1. rid[1] \in Nat /\ rid[2] \in Slots
    BY RidType
  <2>2. CASE rid[1] = pid
    <3>1. ~ Reached(dirs, st.disk, pid) /\ Allocated(new, pid)
      BY <1>2 DEF Reached, Added
    <3>2. NoRecord \in values[rid]
      BY <2>2, <3>1, <1>1 DEF Recoverable, PagesKept
    <3> QED BY <2>1, <2>2, <3>1, <3>2, <1>2, ContentsAre, EmptyPage
  <2>3. CASE rid[1] # pid
    <3>1. ContentsOf(a.heap, a.disk)[rid] = ContentsOf(st.heap, st.disk)[rid]
      BY <2>1, <2>3, <1>2, ContentsAre DEF OneMore
    <3> QED BY <3>1, <1>1 DEF Holding
  <2> QED BY <2>2, <2>3
<1>7. Holding(a.heap, a.disk, values)
  BY <1>6 DEF Holding
<1>8. ASSUME NEW b \in a.was
      PROVE  Len(b) <= Len(a.disk) /\ \E old \in Dirs : Recoverable(old, b, values)
  <2>1. Len(st.disk) \in Nat /\ Len(a.disk) \in Nat /\ Len(st.disk) + 1 <= Len(a.disk)
    BY <1>1, <1>2 DEF Lengthened, Extends
  <2>2. CASE b \in st.was
    <3>1. b \in Seq(Block)
      BY <2>2 DEF State
    <3> QED BY <3>1, <2>1, <2>2, <1>1 DEF Left
  <2>3. CASE b = paged
    <3>1. page \in Block
      BY PageCalls DEF Block
    <3>2. Extends(st.disk, paged) /\ Len(paged) = Len(st.disk) + 1
      <4> HIDE DEF page
      <4> QED BY <3>1, <1>1 DEF Extends
    <3>3. Recoverable(dirs, paged, values)
      BY <3>2, <1>1, ExtendedRecoverable
    <3> QED BY <2>1, <2>3, <3>2, <3>3, <1>1
  <2>4. CASE b = a.disk
    BY <2>1, <2>4, <1>4, <1>5 DEF Structure
  <2> QED BY <2>2, <2>3, <2>4, <1>2
<1>9. Left(a, values)
  BY <1>8 DEF Left
<1> QED BY <1>2, <1>5, <1>7, <1>9, ZenonT(30) DEF Durable, a, entry

\* get_free_pid and the get_page that follows it are durable.
LEMMA FreePageDurable ==
  ASSUME NEW st \in State, NEW values, Durable(st, values)
  PROVE  Durable(FreePage(st), values)
<1> DEFINE dirs == st.heap.directory_buffer
           pid == vacant_page_id(dirs)
<1>1. dirs \in Dirs /\ Consistent(st.heap, st.disk)
  BY DEF Durable, Consistent, Structure
<1>2. CASE pid = -1
  <2> DEFINE page == init_fixed_len_page
             entry == [offset |-> EndOfFile(st), free_space |-> fixed_len_page_freeslots(page)]
             a == append_entry(write_block(st, page, entry.offset), entry)
             new == appended_pid(dirs)
  <2>1. FreePage(st) = alloc_page(st)
    BY <1>2 DEF FreePage
  <2>2. a \in State /\ new \in Nat /\ Allocated(a.heap.directory_buffer, new)
    BY <1>1, AppendConsistent, Zenon
  <2>3. Durable(a, values)
    BY AppendDurable, Zenon
  <2>4. alloc_page(st) = get_page(a, new)
    BY <1>1, AllocIsGet, Zenon
  <2> HIDE DEF a, new
  <2> QED BY <2>1, <2>2, <2>3, <2>4, GetDurable
<1>3. CASE pid # -1
  <2>1. FreePage(st) = get_page(st, pid)
    BY <1>3 DEF FreePage
  <2>2. pid \in Nat /\ Allocated(dirs, pid)
    BY <1>1, <1>3, VacantPage
  <2> HIDE DEF pid
  <2> QED BY <2>1, <2>2, GetDurable
<1> QED BY <1>2, <1>3

\* commit_page, after the cached page has been changed, when the values that a
\* crash may bring back are extended by those of the new page.
LEMMA CommitDurable ==
  ASSUME NEW st \in State, NEW values, Durable(st, values), st.heap.cached_pid # -1,
         NEW page \in Page, NEW wider, \A rid \in Rid : values[rid] \subseteq wider[rid],
         \A rid \in Rid : rid[1] = st.heap.cached_pid => Value(page, rid[2]) \in wider[rid]
  PROVE  LET c == commit_page(SetPage(st, page))
         IN  /\ Recoverable(c.heap.directory_buffer, c.disk, wider)
             /\ Holding(c.heap, c.disk, wider)
             /\ c.was = st.was /\ c.disk = st.disk
<1> DEFINE dirs == st.heap.directory_buffer
           pid == st.heap.cached_pid
           free == fixed_len_page_freeslots(page)
           new == SetFreeSpace(dirs, pid, free)
           c == commit_page(SetPage(st, page))
<1>1. /\ st.heap \in HeapStructure /\ Consistent(st.heap, st.disk)
      /\ Recoverable(dirs, st.disk, values) /\ Holding(st.heap, st.disk, values)
  BY DEF State, Durable
<1>2. SetPage(st, page).heap = [st.heap EXCEPT !.cached_page = page]
      /\ SetPage(st, page).disk = st.disk /\ SetPage(st, page).was = st.was
  BY DEF SetPage, WithHeap
<1>3. /\ [st.heap EXCEPT !.cached_page = page].directory_buffer = dirs
      /\ [st.heap EXCEPT !.cached_page = page].cached_page = page
      /\ [st.heap EXCEPT !.cached_page = page].cached_pid = pid
  BY <1>1 DEF HeapStructure
<1>4. c = [heap |-> [directory_buffer |-> new, cached_page |-> page, cached_pid |-> pid,
                     page_cache_dirty |-> TRUE],
           disk |-> st.disk, was |-> st.was]
  BY <1>2, <1>3, Zenon DEF commit_page, WithHeap
<1>5. c.heap.directory_buffer = new /\ c.disk = st.disk /\ c.was = st.was
  BY <1>4
<1>6. Consistent(c.heap, c.disk) /\ Written(st, c, pid, page)
  BY <1>1, CommitConsistent
<1>7. dirs \in Dirs /\ pid \in Nat /\ Allocated(dirs, pid)
  BY <1>1 DEF Consistent, Cached, HeapStructure, Dirs
<1>8. free \in 0 .. Capacity
  BY FreeSlots
<1>9. /\ new \in Dirs /\ DOMAIN new = DOMAIN dirs
      /\ \A d \in DOMAIN dirs :
           /\ new[d].offset = dirs[d].offset
           /\ new[d].data.next_directory = dirs[d].data.next_directory
           /\ Len(new[d].data.entries) = Len(dirs[d].data.entries)
      /\ \A p \in Nat : Allocated(new, p) <=> Allocated(dirs, p)
      /\ \A p \in Nat : Allocated(dirs, p) => get_entry(new, p).offset = get_entry(dirs, p).offset
  <2> HIDE DEF dirs, pid, free
  <2>1. /\ new \in Dirs
        /\ Len(new) = Len(dirs) /\ DOMAIN new = DOMAIN dirs
        /\ \A d \in DOMAIN dirs :
             /\ new[d].offset = dirs[d].offset
             /\ new[d].data.next_directory = dirs[d].data.next_directory
             /\ Len(new[d].data.entries) = Len(dirs[d].data.entries)
        /\ \A p \in Nat : Allocated(new, p) <=> Allocated(dirs, p)
        /\ \A p \in Nat : Allocated(dirs, p) =>
             /\ get_entry(new, p).offset = get_entry(dirs, p).offset
             /\ get_entry(new, p).free_space
                  = IF p = pid THEN free ELSE get_entry(dirs, p).free_space
    BY <1>7, <1>8, SetFreeSpaceEffect, Zenon
  <2> HIDE DEF new
  <2> QED BY <2>1
<1> HIDE DEF c, new, free
<1>10. Structure(new, st.disk)
  BY <1>5, <1>6 DEF Consistent
<1>11. \A d \in DOMAIN dirs : Earlier(new, st.disk, d) = Earlier(dirs, st.disk, d)
  BY <1>9 DEF Earlier
<1>12. \A p \in Nat : Allocated(dirs, p) => DirNo(p) \in DOMAIN dirs
  BY DEF Allocated
<1>13. Behind(new, st.disk)
  BY <1>1, <1>9, <1>11, <1>12, ZenonT(30) DEF Recoverable, Behind
<1>14. \A p \in Nat : Reached(dirs, st.disk, p) => Reached(new, st.disk, p)
  BY <1>9, <1>11, <1>12 DEF Reached
<1>15. ASSUME NEW rid \in Rid
       PROVE  /\ Allocated(new, rid[1]) =>
                   Value(st.disk[get_entry(new, rid[1]).offset + 1], rid[2]) \in wider[rid]
              /\ ~ Reached(new, st.disk, rid[1]) => NoRecord \in wider[rid]
  <2>1. rid[1] \in Nat
    BY RidType
  <2> QED BY <2>1, <1>1, <1>9, <1>14, ZenonT(30) DEF Recoverable, PagesKept
<1>16. Recoverable(new, st.disk, wider)
  BY <1>10, <1>13, <1>15 DEF Recoverable, PagesKept
<1>17. ASSUME NEW rid \in Rid
       PROVE  ContentsOf(c.heap, c.disk)[rid] \in wider[rid]
  <2>1. rid[1] \in Nat
    BY RidType
  <2>2. CASE rid[1] = pid
    BY <2>1, <2>2, <1>6, <1>7, ContentsAre DEF Written
  <2>3. CASE rid[1] # pid
    <3>1. ContentsOf(c.heap, c.disk)[rid] = ContentsOf(st.heap, st.disk)[rid]
      BY <2>1, <2>3, <1>6, ContentsAre DEF Written
    <3> QED BY <3>1, <1>1 DEF Holding
  <2> QED BY <2>2, <2>3
<1> QED BY <1>5, <1>16, <1>17 DEF Holding, c

-----------------------------------------------------------------------------
\* The loop of close_heapfile, stopped after n rounds: the directories on disk
\* lead to more pages than before, never to fewer.
LEMMA WrittenRecoverable ==
  ASSUME NEW dirs, NEW blocks, NEW values, Recoverable(dirs, blocks, values),
         NEW n \in 0 .. Len(dirs)
  PROVE  Recoverable(dirs, DirectoriesWritten(dirs, blocks, n), values)
<1> DEFINE file == DirectoriesWritten(dirs, blocks, n)
<1>1. /\ Structure(dirs, blocks) /\ Behind(dirs, blocks) /\ PagesKept(dirs, blocks, values)
      /\ dirs \in Dirs /\ DirectoriesLinked(dirs, blocks)
  BY DEF Recoverable, Structure
<1>2. /\ Structure(dirs, file)
      /\ \A d \in DOMAIN dirs : file[dirs[d].offset + 1]
           = IF d <= n THEN dirs[d].data ELSE blocks[dirs[d].offset + 1]
      /\ \A p \in Nat : Allocated(dirs, p) =>
           file[get_entry(dirs, p).offset + 1] = blocks[get_entry(dirs, p).offset + 1]
  BY <1>1, WrittenDirectories
<1> HIDE DEF file
<1>3. \A d \in DOMAIN dirs :
        Earlier(dirs, file, d) = IF d <= n THEN dirs[d].data ELSE Earlier(dirs, blocks, d)
  BY <1>2 DEF Earlier
<1>4. /\ Len(dirs) \in Nat \ {0} /\ DOMAIN dirs = 1 .. Len(dirs) /\ 1 \in DOMAIN dirs
      /\ \A d \in DOMAIN dirs : dirs[d].data \in DirectoryData
  BY <1>1, DirectoryType DEF DirectoriesLinked
<1>5. ASSUME NEW d \in DOMAIN dirs, d # Len(dirs)
      PROVE  /\ dirs[d].data.next_directory # 0
             /\ Len(dirs[d].data.entries) = DirCapacity
  <2>1. d + 1 \in DOMAIN dirs /\ d + 1 # 1 /\ d < Len(dirs)
    BY <1>4, <1>5
  <2>2. dirs[d + 1].offset # dirs[1].offset /\ dirs[1].offset = 0
    BY <2>1, <1>1, <1>4 DEF DirectoriesLinked
  <2> QED BY <2>1, <2>2, <1>1, <1>5 DEF DirectoriesLinked, is_full
<1>6. dirs[Len(dirs)].data.next_directory = 0
  BY <1>1, <1>4 DEF DirectoriesLinked
<1>7. ASSUME NEW d \in DOMAIN dirs
      PROVE  LET old == Earlier(dirs, file, d)
             IN  /\ old \in DirectoryData
                 /\ Len(old.entries) <= Len(dirs[d].data.entries)
                 /\ old.next_directory # 0 =>
                      /\ old.next_directory = dirs[d].data.next_directory
                      /\ Len(old.entries) = DirCapacity
  <2>1. CASE d <= n
    <3>1. Earlier(dirs, file, d) = dirs[d].data /\ dirs[d].data \in DirectoryData
      BY <2>1, <1>3, <1>4
    <3>2. Len(dirs[d].data.entries) \in Nat
      BY <3>1 DEF DirectoryData
    <3> QED BY <3>1, <3>2, <1>5, <1>6
  <2>2. CASE ~ (d <= n)
    BY <2>2, <1>1, <1>3 DEF Behind
  <2> QED BY <2>1, <2>2
<1>8. ASSUME NEW p \in Nat, Allocated(dirs, p),
             SlotNo(p) \in DOMAIN Earlier(dirs, file, DirNo(p)).entries
      PROVE  Earlier(dirs, file, DirNo(p)).entries[SlotNo(p)].offset = get_entry(dirs, p).offset
  <2>1. DirNo(p) \in DOMAIN dirs
    BY <1>8 DEF Allocated
  <2>2. CASE DirNo(p) <= n
    BY <2>1, <2>2, <1>3 DEF get_entry
  <2>3. CASE ~ (DirNo(p) <= n)
    BY <2>1, <2>3, <1>1, <1>3, <1>8 DEF Behind
  <2> QED BY <2>2, <2>3
<1>9. Behind(dirs, file)
  BY <1>7, <1>8 DEF Behind
<1>10. ASSUME NEW p \in Nat, Reached(dirs, blocks, p)
       PROVE  Reached(dirs, file, p)
  <2>1. /\ DirNo(p) \in DOMAIN dirs /\ SlotNo(p) \in DOMAIN dirs[DirNo(p)].data.entries
        /\ Allocated(dirs, p)
    BY <1>10 DEF Reached, Allocated
  <2>2. SlotNo(p) \in DOMAIN Earlier(dirs, file, DirNo(p)).entries
    BY <2>1, <1>3, <1>10 DEF Reached
  <2>3. ASSUME NEW d \in DOMAIN dirs, d < DirNo(p)
        PROVE  Earlier(dirs, file, d).next_directory # 0
    <3>1. d # Len(dirs)
      BY <2>1, <2>3, <1>4
    <3>2. CASE d <= n
      BY <3>1, <3>2, <1>3, <1>5
    <3>3. CASE ~ (d <= n)
      BY <2>3, <3>3, <1>3, <1>10 DEF Reached
    <3> QED BY <3>2, <3>3
  <2> QED BY <2>1, <2>2, <2>3 DEF Reached
<1>11. ASSUME NEW rid \in Rid
       PROVE  /\ Allocated(dirs, rid[1]) =>
                   Value(file[get_entry(dirs, rid[1]).offset + 1], rid[2]) \in values[rid]
              /\ ~ Reached(dirs, file, rid[1]) => NoRecord \in values[rid]
  <2>1. rid[1] \in Nat
    BY RidType
  <2> QED BY <2>1, <1>1, <1>2, <1>10, Zenon DEF PagesKept
<1> QED BY <1>2, <1>9, <1>11, Zenon DEF Recoverable, PagesKept, file

\* close_heapfile may be interrupted at any of its writes.
LEMMA CloseDurable ==
  ASSUME NEW st \in State, NEW values, Durable(st, values)
  PROVE  Left(close_heapfile(st), values)
<1> DEFINE f == FlushCache(st)
           dirs == st.heap.directory_buffer
           file(n) == DirectoriesWritten(dirs, f.disk, n)
           c == close_heapfile(st)
<1>1. /\ Recoverable(dirs, f.disk, values) /\ Left(f, values)
  BY FlushDurable
<1>2. c.was = f.was \cup {file(n) : n \in 0 .. Len(dirs)} /\ c.disk = file(Len(dirs))
  BY DEF close_heapfile
<1> HIDE DEF f, c
<1>3. Structure(dirs, f.disk) /\ dirs \in Dirs /\ Len(dirs) \in Nat
  BY <1>1 DEF Recoverable, Structure, Dirs
<1>4. \A n \in 0 .. Len(dirs) : Len(file(n)) = Len(f.disk) /\ Recoverable(dirs, file(n), values)
  BY <1>1, <1>3, WrittenDirectories, WrittenRecoverable
<1> HIDE DEF file
<1>5. Len(c.disk) = Len(f.disk) /\ Len(f.disk) \in Nat
  BY <1>2, <1>3, <1>4 DEF Structure
<1>6. ASSUME NEW b \in c.was
      PROVE  Len(b) <= Len(c.disk) /\ \E old \in Dirs : Recoverable(old, b, values)
  <2>1. CASE b \in f.was
    BY <2>1, <1>1, <1>5 DEF Left
  <2>2. CASE b \in {file(n) : n \in 0 .. Len(dirs)}
    BY <2>2, <1>3, <1>4, <1>5
  <2> QED BY <2>1, <2>2, <1>2
<1> QED BY <1>6 DEF Left, c

-----------------------------------------------------------------------------
(***************************************************************************)
(* The calls.  Ready says that a call leaves the heap file durable once    *)
(* its effect counts among the values a crash may bring back, and that a   *)
(* crash during the call brings back earlier values only.                  *)
(***************************************************************************)
Wider(r, values) == [rid \in Rid |-> values[rid] \cup {ContentsOf(r.heap, r.disk)[rid]}]

Ready(r, values) ==
  /\ r \in State
  /\ Consistent(r.heap, r.disk)
  /\ Recoverable(r.heap.directory_buffer, r.disk, Wider(r, values))
  /\ Holding(r.heap, r.disk, Wider(r, values))
  /\ Left(r, values)

\* More values, more files.
LEMMA WiderRecoverable ==
  ASSUME NEW dirs, NEW blocks, NEW values, NEW wider, Recoverable(dirs, blocks, values),
         \A rid \in Rid : values[rid] \subseteq wider[rid]
  PROVE  Recoverable(dirs, blocks, wider)
BY DEF Recoverable, PagesKept

\* A call that changes no value.
LEMMA ReadReady ==
  ASSUME NEW r \in State, NEW values, Durable(r, values)
  PROVE  Ready(r, values)
<1>1. \A rid \in Rid : values[rid] \subseteq Wider(r, values)[rid]
  BY DEF Wider
<1> QED BY <1>1, WiderRecoverable DEF Ready, Durable, Holding

\* A call that changes the page in the cache and commits it.
LEMMA CommitReady ==
  ASSUME NEW st \in State, NEW values, Durable(st, values), st.heap.cached_pid # -1,
         NEW page \in Page
  PROVE  Ready(commit_page(SetPage(st, page)), values)
<1> DEFINE c == commit_page(SetPage(st, page))
           wider == Wider(c, values)
           pid == st.heap.cached_pid
<1>1. /\ c \in State /\ Consistent(c.heap, c.disk) /\ Written(st, c, pid, page)
  BY CommitConsistent, Zenon DEF Durable
<1>2. \A rid \in Rid : values[rid] \subseteq wider[rid]
  BY DEF Wider
<1>3. ASSUME NEW rid \in Rid, rid[1] = pid
      PROVE  Value(page, rid[2]) \in wider[rid]
  <2>1. rid[1] \in Nat
    BY RidType
  <2>2. ContentsOf(c.heap, c.disk)[rid] = Value(page, rid[2])
    <3> HIDE DEF c
    <3> QED BY <2>1, <1>1, <1>3, ContentsAre DEF Written
  <2> HIDE DEF c
  <2> QED BY <2>2 DEF Wider
<1>4. /\ Recoverable(c.heap.directory_buffer, c.disk, wider)
      /\ Holding(c.heap, c.disk, wider)
      /\ c.was = st.was /\ c.disk = st.disk
  <2> HIDE DEF wider
  <2> QED BY <1>2, <1>3, CommitDurable
<1> HIDE DEF c
<1>5. Left(c, values)
  BY <1>4 DEF Durable, Left
<1> QED BY <1>1, <1>4, <1>5, ZenonT(30) DEF Ready, c

\* The calls on an open heap file.
LEMMA CallsReady ==
  ASSUME NEW st \in State, NEW values, Durable(st, values)
  PROVE  LET dirs == st.heap.directory_buffer
         IN  /\ \A rec \in Record : Ready(put_record(st, rec), values)
             /\ \A pid \in Nat : Allocated(dirs, pid) => Ready(get_record(st, pid), values)
             /\ \A pid \in Nat, slot \in Slots, rec \in Record :
                  Allocated(dirs, pid) => Ready(update_record(st, pid, slot, rec), values)
             /\ \A pid \in Nat, slot \in Slots :
                  Allocated(dirs, pid) => Ready(delete_record(st, pid, slot), values)
<1> DEFINE dirs == st.heap.directory_buffer
<1>1. Consistent(st.heap, st.disk)
  BY DEF Durable
<1>2. ASSUME NEW rec \in Record PROVE Ready(put_record(st, rec), values)
  <2> DEFINE got == FreePage(st)
             page == add_fixed_len_page(got.heap.cached_page, rec)
  <2>1. got \in State /\ got.heap.cached_pid \in Nat /\ Durable(got, values)
    BY <1>1, FreePageConsistent, FreePageDurable
  <2>2. put_record(st, rec) = commit_page(SetPage(got, page))
    BY DEF put_record
  <2> HIDE DEF got
  <2>3. page \in Page /\ got.heap.cached_pid # -1
    BY <2>1, PageCalls DEF State, HeapStructure
  <2> HIDE DEF page
  <2> QED BY <2>1, <2>2, <2>3, CommitReady
<1>3. ASSUME NEW pid \in Nat, Allocated(dirs, pid)
      PROVE  /\ get_page(st, pid) \in State /\ Durable(get_page(st, pid), values)
             /\ get_page(st, pid).heap.cached_pid # -1
             /\ get_page(st, pid).heap.cached_page \in Page
  <2>1. get_page(st, pid) \in State /\ get_page(st, pid).heap.cached_pid = pid
    BY <1>1, <1>3, GetPageConsistent DEF Fetched
  <2>2. Durable(get_page(st, pid), values)
    BY <1>3, GetDurable
  <2> QED BY <2>1, <2>2 DEF State, HeapStructure
<1>4. ASSUME NEW pid \in Nat, Allocated(dirs, pid)
      PROVE  Ready(get_record(st, pid), values)
  BY <1>3, <1>4, ReadReady DEF get_record
<1>5. ASSUME NEW pid \in Nat, NEW slot \in Slots, NEW rec \in Record, Allocated(dirs, pid)
      PROVE  Ready(update_record(st, pid, slot, rec), values)
  <2> DEFINE got == get_page(st, pid)
             page == write_fixed_len_page(got.heap.cached_page, slot, rec)
  <2>1. got \in State /\ Durable(got, values) /\ got.heap.cached_pid # -1
    BY <1>3, <1>5
  <2>2. page \in Page
    BY <1>3, <1>5, PageCalls
  <2>3. update_record(st, pid, slot, rec) = commit_page(SetPage(got, page))
    BY DEF update_record
  <2> HIDE DEF got, page
  <2> QED BY <2>1, <2>2, <2>3, CommitReady
<1>6. ASSUME NEW pid \in Nat, NEW slot \in Slots, Allocated(dirs, pid)
      PROVE  Ready(delete_record(st, pid, slot), values)
  <2> DEFINE got == get_page(st, pid)
             page == delete_fixed_len_page(got.heap.cached_page, slot)
  <2>1. got \in State /\ Durable(got, values) /\ got.heap.cached_pid # -1
    BY <1>3, <1>6
  <2>2. page \in Page
    BY <1>3, <1>6, PageCalls
  <2>3. delete_record(st, pid, slot) = commit_page(SetPage(got, page))
    BY DEF delete_record
  <2> HIDE DEF got, page
  <2> QED BY <2>1, <2>2, <2>3, CommitReady
<1> QED BY <1>2, <1>4, <1>5, <1>6

-----------------------------------------------------------------------------
\* The contents differ in slot s of page p, which has value v.
OneSet(before, after, p, s, v) == after = [before EXCEPT ![<<p, s>>] = v]

\* A call that changes one slot of one page changes one record id.
LEMMA OneRecord ==
  ASSUME NEW st, NEW r, NEW p \in Nat, NEW s \in Slots, NEW page, Written(st, r, p, page),
         NEW old, old = IF Allocated(st.heap.directory_buffer, p)
                          THEN PageOf(st.heap, st.disk, p) ELSE init_fixed_len_page,
         \A t \in Slots : t # s => Value(page, t) = Value(old, t)
  PROVE  OneSet(ContentsOf(st.heap, st.disk), ContentsOf(r.heap, r.disk), p, s, Value(page, s))
<1> DEFINE before == ContentsOf(st.heap, st.disk)
           after == ContentsOf(r.heap, r.disk)
<1>1. before = [rid \in Rid |-> before[rid]] /\ after = [rid \in Rid |-> after[rid]]
  BY ZenonT(30) DEF ContentsOf
<1>2. ASSUME NEW rid \in Rid
      PROVE  after[rid] = IF rid = <<p, s>> THEN Value(page, s) ELSE before[rid]
  <2>1. rid[1] \in Nat /\ rid[2] \in Slots /\ rid = <<rid[1], rid[2]>>
    BY RidType
  <2>2. /\ before[rid] = IF Allocated(st.heap.directory_buffer, rid[1])
                           THEN Value(PageOf(st.heap, st.disk, rid[1]), rid[2]) ELSE NoRecord
        /\ after[rid] = IF Allocated(r.heap.directory_buffer, rid[1])
                          THEN Value(PageOf(r.heap, r.disk, rid[1]), rid[2]) ELSE NoRecord
    BY ContentsAre
  <2> HIDE DEF before, after
  <2>3. CASE rid[1] = p
    <3>1. after[rid] = Value(page, rid[2])
      BY <2>1, <2>2, <2>3 DEF Written
    <3>2. before[rid] = Value(old, rid[2])
      BY <2>1, <2>2, <2>3, EmptyPage
    <3> QED BY <2>1, <2>3, <3>1, <3>2
  <2>4. CASE rid[1] # p
    <3>1. after[rid] = before[rid]
      BY <2>1, <2>2, <2>4 DEF Written
    <3>2. rid # <<p, s>>
      BY <2>1, <2>4
    <3> QED BY <3>1, <3>2
  <2> QED BY <2>3, <2>4, ZenonT(30)
<1> HIDE DEF before, after
<1>3. after = [before EXCEPT ![<<p, s>>] = Value(page, s)]
  BY <1>1, <1>2
<1> QED BY <1>3 DEF before, after, OneSet

\* What the calls of page.h do to the values of a page.
LEMMA PageValues ==
  ASSUME NEW page \in Page
  PROVE  /\ \A s \in Slots, rec \in Record :
              LET new == write_fixed_len_page(page, s, rec)
              IN  Value(new, s) = rec /\ \A t \in Slots : t # s => Value(new, t) = Value(page, t)
         /\ \A s \in Slots :
              LET new == delete_fixed_len_page(page, s)
              IN  Value(new, s) = NoRecord /\ \A t \in Slots : t # s => Value(new, t) = Value(page, t)
         /\ \A rec \in Record :
              LET new == add_fixed_len_page(page, rec)
              IN  \/ Filled(page) = Slots /\ new = page
                  \/ \E s \in Slots :
                       /\ Value(page, s) = NoRecord /\ Value(new, s) = rec
                       /\ \A t \in Slots : t # s => Value(new, t) = Value(page, t)
<1>1. ASSUME NEW s \in Slots, NEW rec \in Record
      PROVE  LET new == write_fixed_len_page(page, s, rec)
             IN  Value(new, s) = rec /\ \A t \in Slots : t # s => Value(new, t) = Value(page, t)
  BY DEF Page, Value, write_fixed_len_page, read_fixed_len_page
<1>2. ASSUME NEW s \in Slots
      PROVE  LET new == delete_fixed_len_page(page, s)
             IN  Value(new, s) = NoRecord /\ \A t \in Slots : t # s => Value(new, t) = Value(page, t)
  BY DEF Page, Value, delete_fixed_len_page, read_fixed_len_page
<1>3. ASSUME NEW rec \in Record
      PROVE  LET new == add_fixed_len_page(page, rec)
             IN  \/ Filled(page) = Slots /\ new = page
                 \/ \E s \in Slots :
                      /\ Value(page, s) = NoRecord /\ Value(new, s) = rec
                      /\ \A t \in Slots : t # s => Value(new, t) = Value(page, t)
  <2> DEFINE free == Slots \ Filled(page)
             new == add_fixed_len_page(page, rec)
  <2>1. CASE free = {}
    BY <2>1 DEF add_fixed_len_page, Filled
  <2>2. CASE free # {}
    <3>1. First(free) \in free
      BY <2>2, FirstIsLeast, CapacityAssumption DEF Slots
    <3>2. new = write_fixed_len_page(page, First(free), rec)
      BY <2>2 DEF add_fixed_len_page
    <3>3. First(free) \in Slots /\ Value(page, First(free)) = NoRecord
      BY <3>1 DEF Filled, Value
    <3> HIDE DEF free, new
    <3> QED BY <3>2, <3>3, <1>1 DEF new
  <2> QED BY <2>1, <2>2
<1> QED BY <1>1, <1>2, <1>3

\* What the calls change: put_record one record id that held none, or nothing if
\* the page it was promised is full, update_record and delete_record their own.
LEMMA CallContents ==
  ASSUME NEW st \in State, Consistent(st.heap, st.disk)
  PROVE  LET dirs == st.heap.directory_buffer
             before == ContentsOf(st.heap, st.disk)
             after(r) == ContentsOf(r.heap, r.disk)
             vacant == vacant_page_id(dirs)
         IN  /\ \A rec \in Record :
                  LET r == put_record(st, rec)
                  IN  \/ \E p \in Nat, s \in Slots :
                           /\ Allocated(r.heap.directory_buffer, p)
                           /\ <<p, s>> \in Rid => before[<<p, s>>] = NoRecord
                           /\ after(r) = [before EXCEPT ![<<p, s>>] = rec]
                      \/ /\ vacant # -1 /\ Filled(PageOf(st.heap, st.disk, vacant)) = Slots
                         /\ after(r) = before
             /\ \A p \in Nat, s \in Slots : Allocated(dirs, p) =>
                  /\ after(get_record(st, p)) = before
                  /\ after(delete_record(st, p, s)) = [before EXCEPT ![<<p, s>>] = NoRecord]
             /\ \A p \in Nat, s \in Slots, rec \in Record : Allocated(dirs, p) =>
                  after(update_record(st, p, s, rec)) = [before EXCEPT ![<<p, s>>] = rec]
<1> DEFINE dirs == st.heap.directory_buffer
           before == ContentsOf(st.heap, st.disk)
           after(r) == ContentsOf(r.heap, r.disk)
           vacant == vacant_page_id(dirs)
           old(p) == IF Allocated(dirs, p) THEN PageOf(st.heap, st.disk, p)
                                           ELSE init_fixed_len_page
<1>1. ASSUME NEW rid \in Rid
      PROVE  before[rid] = Value(old(rid[1]), rid[2])
  <2>1. rid[2] \in Slots
    BY RidType
  <2> QED BY <2>1, ContentsAre, EmptyPage, Zenon
<1>2. ASSUME NEW r, \A rid \in Rid : after(r)[rid] = before[rid]
      PROVE  after(r) = before
  BY <1>2, ZenonT(30) DEF ContentsOf
<1>3. ASSUME NEW rec \in Record
      PROVE  LET r == put_record(st, rec)
             IN  \/ \E p \in Nat, s \in Slots :
                      /\ Allocated(r.heap.directory_buffer, p)
                      /\ <<p, s>> \in Rid => before[<<p, s>>] = NoRecord
                      /\ after(r) = [before EXCEPT ![<<p, s>>] = rec]
                 \/ /\ vacant # -1 /\ Filled(PageOf(st.heap, st.disk, vacant)) = Slots
                    /\ after(r) = before
  <2> DEFINE r == put_record(st, rec)
  <2>1. PICK p \in Nat : /\ Allocated(dirs, p) => p = vacant
                         /\ old(p) \in Page
                         /\ Written(st, r, p, add_fixed_len_page(old(p), rec))
    BY PutConsistent, Zenon
  <2> DEFINE page == add_fixed_len_page(old(p), rec)
  <2> HIDE DEF r
  <2>2. \/ Filled(old(p)) = Slots /\ page = old(p)
        \/ \E s \in Slots : /\ Value(old(p), s) = NoRecord /\ Value(page, s) = rec
                            /\ \A t \in Slots : t # s => Value(page, t) = Value(old(p), t)
    <3> HIDE DEF old
    <3> QED BY <2>1, PageValues
  <2>3. CASE Filled(old(p)) = Slots /\ page = old(p)
    <3>1. Allocated(dirs, p)
      <4>1. 0 \in Slots
        BY CapacityAssumption DEF Slots
      <4>2. 0 \notin Filled(init_fixed_len_page)
        BY <4>1 DEF Filled, init_fixed_len_page
      <4> QED BY <2>3, <4>1, <4>2
    <3>2. p = vacant /\ vacant # -1 /\ old(p) = PageOf(st.heap, st.disk, vacant)
      BY <2>1, <3>1
    <3>3. ASSUME NEW rid \in Rid PROVE after(r)[rid] = before[rid]
      <4>1. rid[1] \in Nat
        BY RidType
      <4> HIDE DEF old
      <4>2. /\ Written(st, r, p, page) /\ page = old(p)
            /\ old(p) = PageOf(st.heap, st.disk, p)
        BY <2>1, <2>3, <3>2
      <4> HIDE DEF page
      <4>3. Allocated(r.heap.directory_buffer, rid[1]) <=> Allocated(dirs, rid[1])
        BY <3>1, <4>1, <4>2, ZenonT(30) DEF Written
      <4>4. Allocated(dirs, rid[1]) =>
              PageOf(r.heap, r.disk, rid[1]) = PageOf(st.heap, st.disk, rid[1])
        BY <4>1, <4>2, <4>3 DEF Written
      <4> QED BY <4>3, <4>4, ContentsAre
    <3> HIDE DEF after, before
    <3> QED BY <2>3, <3>2, <3>3, <1>2, ZenonT(30) DEF r
  <2>4. ASSUME NEW s \in Slots, Value(old(p), s) = NoRecord, Value(page, s) = rec,
               \A t \in Slots : t # s => Value(page, t) = Value(old(p), t)
        PROVE  /\ Allocated(r.heap.directory_buffer, p)
               /\ <<p, s>> \in Rid => before[<<p, s>>] = NoRecord
               /\ after(r) = [before EXCEPT ![<<p, s>>] = rec]
    <3>1. Allocated(r.heap.directory_buffer, p)
      BY <2>1 DEF Written
    <3>2. <<p, s>> \in Rid => before[<<p, s>>] = NoRecord
      <4>1. <<p, s>>[1] = p /\ <<p, s>>[2] = s
        OBVIOUS
      <4> HIDE DEF before, old
      <4> QED BY <4>1, <1>1, <2>4
    <3>3. after(r) = [before EXCEPT ![<<p, s>>] = rec]
      <4> DEFINE o == old(p)
      <4>1. o = IF Allocated(st.heap.directory_buffer, p)
                  THEN PageOf(st.heap, st.disk, p) ELSE init_fixed_len_page
        OBVIOUS
      <4>2. \A t \in Slots : t # s => Value(page, t) = Value(o, t)
        BY <2>4
      <4>3. Written(st, r, p, page)
        BY <2>1
      <4> HIDE DEF o, page
      <4>4. OneSet(ContentsOf(st.heap, st.disk), ContentsOf(r.heap, r.disk), p, s, Value(page, s))
        BY <4>1, <4>2, <4>3, OneRecord, ZenonT(30)
      <4>5. Value(page, s) = rec
        BY <2>4
      <4> QED BY <4>4, <4>5 DEF OneSet
    <3> QED BY <3>1, <3>2, <3>3
  <2> HIDE DEF old, before, after, page
  <2> QED BY <2>2, <2>3, <2>4 DEF r
<1>4. ASSUME NEW p \in Nat, NEW s \in Slots, Allocated(dirs, p)
      PROVE  /\ after(get_record(st, p)) = before
             /\ after(delete_record(st, p, s)) = [before EXCEPT ![<<p, s>>] = NoRecord]
             /\ \A rec \in Record :
                  after(update_record(st, p, s, rec)) = [before EXCEPT ![<<p, s>>] = rec]
  <2> DEFINE got == get_page(st, p)
             o == PageOf(st.heap, st.disk, p)
             changed(page) == commit_page(SetPage(got, page))
  <2>1. /\ got.heap.cached_page = o /\ o \in Page
        /\ \A page \in Page : Written(st, changed(page), p, page)
    BY <1>4, ChangeConsistent
  <2>2. Fetched(st, got, p)
    BY <1>4, GetPageConsistent
  <2>3. after(get_record(st, p)) = before
    <3>1. get_record(st, p) = got
      BY DEF get_record
    <3> HIDE DEF got
    <3>2. ASSUME NEW rid \in Rid PROVE after(got)[rid] = before[rid]
      <4>1. rid[1] \in Nat
        BY RidType
      <4> QED BY <2>2, <4>1, <1>4, ContentsAre DEF Fetched
    <3> HIDE DEF after, before
    <3> QED BY <3>1, <3>2, <1>2
  <2>4. ASSUME NEW page \in Page, NEW value, Value(page, s) = value,
               \A t \in Slots : t # s => Value(page, t) = Value(o, t)
        PROVE  after(changed(page)) = [before EXCEPT ![<<p, s>>] = value]
    <3> DEFINE r == changed(page)
    <3>1. Written(st, r, p, page)
      BY <2>1
    <3> HIDE DEF r
    <3>2. o = IF Allocated(st.heap.directory_buffer, p)
                THEN PageOf(st.heap, st.disk, p) ELSE init_fixed_len_page
      BY <1>4
    <3> HIDE DEF o
    <3>3. OneSet(ContentsOf(st.heap, st.disk), ContentsOf(r.heap, r.disk), p, s, Value(page, s))
      BY <2>4, <3>1, <3>2, OneRecord, ZenonT(30)
    <3> QED BY <2>4, <3>3 DEF r, OneSet
  <2>5. after(delete_record(st, p, s)) = [before EXCEPT ![<<p, s>>] = NoRecord]
    <3> DEFINE page == delete_fixed_len_page(o, s)
    <3>1. page \in Page
      BY <2>1, PageCalls
    <3>2. Value(page, s) = NoRecord /\ \A t \in Slots : t # s => Value(page, t) = Value(o, t)
      BY <2>1, PageValues
    <3>3. delete_record(st, p, s) = changed(page)
      BY <2>1 DEF delete_record
    <3> HIDE DEF page, changed, after, before, o
    <3> QED BY <2>4, <3>1, <3>2, <3>3
  <2>6. ASSUME NEW rec \in Record
        PROVE  after(update_record(st, p, s, rec)) = [before EXCEPT ![<<p, s>>] = rec]
    <3> DEFINE page == write_fixed_len_page(o, s, rec)
    <3>1. page \in Page
      BY <2>1, PageCalls
    <3>2. Value(page, s) = rec /\ \A t \in Slots : t # s => Value(page, t) = Value(o, t)
      BY <2>1, PageValues
    <3>3. update_record(st, p, s, rec) = changed(page)
      BY <2>1 DEF update_record
    <3> HIDE DEF page, changed, after, before, o
    <3> QED BY <2>4, <3>1, <3>2, <3>3
  <2> QED BY <2>3, <2>5, <2>6
<1>5. ASSUME NEW p \in Nat, NEW s \in Slots, NEW rec \in Record, Allocated(dirs, p)
      PROVE  after(update_record(st, p, s, rec)) = [before EXCEPT ![<<p, s>>] = rec]
  <2> HIDE DEF before, after
  <2> QED BY <1>4, <1>5
<1> QED BY <1>3, <1>4, <1>5, ZenonT(30)

=============================================================================
