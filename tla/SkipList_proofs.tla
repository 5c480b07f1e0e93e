--------------------------- MODULE SkipList_proofs ---------------------------
(***************************************************************************)
(* Proofs about the skip list for any set of keys, any height and any      *)
(* number of readers: the lists stay sorted while a node is inserted, and  *)
(* no reader misses a key that was there when it began to look.            *)
(***************************************************************************)
EXTENDS SkipList, TLAPS

(* The insert in progress has linked its key on the levels below the next  *)
(* one and on no other.                                                    *)
WriterInv ==
  writer.key # NoKey =>
    /\ writer.level < writer.height
    /\ \A l \in Levels : writer.key \in linked[l] <=> l < writer.level

(* A search stands at a node of its level before its target.               *)
SearchInv ==
  \A r \in Readers :
    LET rd == reader[r] IN
    /\ seen[r] \subseteq linked[0]
    /\ rd.op # "none" =>
         /\ rd.did = "none" /\ rd.node = NULL
         /\ rd.x \in linked[rd.level] \cup {Head}
    /\ rd.op \in {"seek", "prev"} => rd.target \in Keys /\ rd.x < rd.target

IInv == TypeOK /\ ListsSorted /\ ReadersCorrect /\ WriterInv /\ SearchInv
-----------------------------------------------------------------------------
(* The empty list satisfies the invariant.                                 *)
LEMMA InitInv == Init => IInv
<1> SUFFICES ASSUME Init PROVE IInv
  OBVIOUS
<1> USE KeysAssumption, HeightAssumption
<1>1. TypeOK
  BY DEF Init, TypeOK, Levels, Nodes, NoKey, NULL, Head
<1>2. ListsSorted
  BY DEF Init, ListsSorted, NoneBetween, Levels, Nodes, NULL, Head
<1>3. ReadersCorrect
  BY DEF Init, ReadersCorrect, NoKey, NULL, Head
<1>4. WriterInv
  BY DEF Init, WriterInv, NoKey
<1>5. SearchInv
  BY DEF Init, SearchInv
<1> QED
  BY <1>1, <1>2, <1>3, <1>4, <1>5 DEF IInv

(* InsertStart changes neither links nor readers.                          *)
LEMMA InsertStartInv == IInv /\ InsertStart => IInv'
<1> SUFFICES ASSUME IInv, InsertStart PROVE IInv'
  OBVIOUS
<1> USE KeysAssumption, HeightAssumption DEF IInv
<1> PICK key \in Keys \ linked[0], height \in 1 .. kMaxHeight :
       /\ writer' = [key |-> key, height |-> height, level |-> 0]
       /\ max_height' = IF height > max_height THEN height ELSE max_height
  BY DEF InsertStart
<1>u. UNCHANGED <<next, linked, reader, seen>>
  BY DEF InsertStart
<1>1. TypeOK'
  BY <1>u DEF TypeOK, Levels
<1>2. ListsSorted'
  BY <1>u DEF ListsSorted, NoneBetween
<1>3. ReadersCorrect'
  BY <1>u DEF ReadersCorrect, NoneBetween
<1>4. WriterInv'
  <2>1. \A l \in Levels : key \notin linked[l]
    BY DEF ListsSorted, Levels
  <2> QED
    BY <1>u, <2>1 DEF WriterInv, Levels, TypeOK
<1>5. SearchInv'
  BY <1>u DEF SearchInv
<1> QED
  BY <1>1, <1>2, <1>3, <1>4, <1>5

(* A node is linked between its neighbours on one level.                   *)
LEMMA InsertLinkInv == IInv /\ InsertLink => IInv'
<1> SUFFICES ASSUME IInv, InsertLink PROVE IInv'
  OBVIOUS
<1> USE KeysAssumption, HeightAssumption DEF IInv
<1> DEFINE l == writer.level
           key == writer.key
<1>k. key \in Keys /\ l \in Levels /\ key \in Nat \ {0}
  BY DEF InsertLink, TypeOK
<1> PICK prev \in Nodes :
       /\ IsPrev(prev, l, key)
       /\ next' = [next EXCEPT ![l] = [@ EXCEPT ![key] = next[l][prev], ![prev] = key]]
  BY DEF InsertLink
<1>l. linked' = [linked EXCEPT ![l] = @ \cup {key}]
  BY DEF InsertLink
<1>w. writer' = IF l + 1 = writer.height THEN [key |-> NoKey, height |-> 0, level |-> 0]
                ELSE [writer EXCEPT !.level = l + 1]
  BY DEF InsertLink
<1>u. UNCHANGED <<max_height, reader, seen>>
  BY DEF InsertLink
<1>n. key \notin linked[l] /\ writer.level < writer.height /\ \A m \in Levels : m < l => key \in linked[m]
  BY <1>k DEF WriterInv, InsertLink, Levels
<1>p. prev \in linked[l] \cup {Head} /\ prev < key /\ prev # key
  BY <1>k DEF IsPrev, Nodes, Head
<1>t. /\ next \in [Levels -> [Nodes -> Keys \cup {NULL}]]
      /\ linked \in [Levels -> SUBSET Keys]
      /\ next[l] \in [Nodes -> Keys \cup {NULL}]
      /\ key \in Nodes /\ prev \in Nodes
  BY <1>k DEF TypeOK, Nodes
<1>g. \A m \in Levels : linked[m] \subseteq linked'[m]
  BY <1>l, <1>t
<1>1. TypeOK'
  <2>1. next' \in [Levels -> [Nodes -> Keys \cup {NULL}]]
    BY <1>k, <1>t
  <2>2. linked' \in [Levels -> SUBSET Keys]
    BY <1>k, <1>l, <1>t
  <2>3. writer' \in [key : Keys \cup {NoKey}, height : 0 .. kMaxHeight, level : Levels]
    <3>0. writer \in [key : Keys \cup {NoKey}, height : 0 .. kMaxHeight, level : Levels]
      BY DEF TypeOK
    <3>1. CASE l + 1 = writer.height
      BY <3>1, <1>w DEF Levels
    <3>2. CASE l + 1 # writer.height
      <4>1. l + 1 \in Levels
        BY <3>0, <3>2, <1>n, <1>k DEF Levels
      <4>2. writer' = [writer EXCEPT !.level = l + 1]
        BY <3>2, <1>w
      <4> QED
        BY <3>0, <4>1, <4>2
    <3> QED
      BY <3>1, <3>2
  <2> QED
    BY <2>1, <2>2, <2>3, <1>u DEF TypeOK
<1>2. ListsSorted'
  <2>1. ASSUME NEW m \in Levels, NEW n \in linked'[m] \cup {Head}
        PROVE  /\ next'[m][n] = NULL \/ (next'[m][n] \in linked'[m] /\ n < next'[m][n])
               /\ NoneBetween(linked'[m], n, next'[m][n])
    <3>1. CASE m # l
      <4>1. next'[m] = next[m] /\ linked'[m] = linked[m]
        BY <3>1, <1>l, <1>t
      <4> QED
        BY <4>1 DEF ListsSorted
    <3>2. CASE m = l
      <4>0. /\ next'[l] = [next[l] EXCEPT ![key] = next[l][prev], ![prev] = key]
            /\ linked'[l] = linked[l] \cup {key}
        BY <1>l, <1>t, <1>k
      <4>s. \A i \in linked[l] \cup {Head} :
              /\ next[l][i] = NULL \/ (next[l][i] \in linked[l] /\ i < next[l][i])
              /\ NoneBetween(linked[l], i, next[l][i])
        BY <1>k DEF ListsSorted
      <4>i. linked[l] \subseteq Nat /\ prev \in Nat
        <5>1. linked[l] \subseteq Keys
          BY <1>t, <1>k
        <5> QED
          BY <5>1, <1>p DEF Head
      <4>1. CASE n = key
        <5>1. next'[l][n] = next[l][prev]
          BY <4>0, <4>1, <1>t, <1>p
        <5>2. next[l][prev] = NULL \/ (next[l][prev] \in linked[l] /\ key < next[l][prev])
          BY <4>s, <1>p, <1>n, <4>i, <1>k DEF IsPrev
        <5>3. NoneBetween(linked[l] \cup {key}, key, next[l][prev])
          BY <4>s, <1>p, <4>i, <1>k DEF NoneBetween
        <5> QED
          BY <3>2, <4>0, <4>1, <5>1, <5>2, <5>3
      <4>2. CASE n = prev
        <5>1. next'[l][n] = key
          BY <4>0, <4>2, <1>t, <1>p
        <5>2. NoneBetween(linked[l] \cup {key}, prev, key)
          <6> SUFFICES ASSUME NEW i \in linked[l] \cup {key}, prev < i, key = NULL \/ i < key
                       PROVE  FALSE
            BY DEF NoneBetween
          <6>1. i \in linked[l] /\ i < key /\ i \in Nat
            BY <1>k, <4>i DEF NULL
          <6>2. ~(next[l][prev] = NULL \/ i < next[l][prev])
            BY <6>1, <4>s, <1>p DEF NoneBetween
          <6>3. next[l][prev] \in linked[l] /\ next[l][prev] >= key
            BY <6>2, <4>s, <1>p DEF IsPrev
          <6> QED
            BY <6>1, <6>2, <6>3, <4>i, <1>k
        <5> QED
          BY <3>2, <4>0, <4>2, <5>1, <5>2, <1>p
      <4>3. CASE n # key /\ n # prev
        <5>1. n \in linked[l] \cup {Head} /\ next'[l][n] = next[l][n] /\ n \in Nat /\ n \in Nodes
          BY <3>2, <4>0, <4>3, <4>i, <1>t DEF Head, Nodes
        <5>2. next[l][n] = NULL \/ (next[l][n] \in linked[l] /\ n < next[l][n])
          BY <5>1, <4>s
        <5>3. ~(n < key /\ (next[l][n] = NULL \/ key < next[l][n]))
          <6> SUFFICES ASSUME n < key, next[l][n] = NULL \/ key < next[l][n] PROVE FALSE
            OBVIOUS
          <6>1. ~(n < prev)
            <7> SUFFICES ASSUME n < prev PROVE FALSE
              OBVIOUS
            <7>1. prev \in linked[l]
              BY <1>p, <5>1 DEF Head
            <7>2. next[l][n] # NULL /\ ~(prev < next[l][n])
              BY <7>1, <5>1, <4>s DEF NoneBetween
            <7> QED
              BY <7>2, <5>2, <4>i, <1>k, <1>p
          <6>2. prev < n /\ n \in linked[l]
            BY <6>1, <4>3, <5>1, <4>i DEF Head
          <6>3. next[l][prev] # NULL /\ ~(n < next[l][prev])
            BY <6>2, <4>s, <1>p DEF NoneBetween
          <6>4. next[l][prev] \in linked[l] /\ next[l][prev] >= key
            BY <6>3, <4>s, <1>p DEF IsPrev
          <6> QED
            BY <6>3, <6>4, <4>i, <5>1, <1>k
        <5>4. NoneBetween(linked[l] \cup {key}, n, next[l][n])
          BY <5>1, <5>3, <4>s DEF NoneBetween
        <5> QED
          BY <3>2, <4>0, <5>1, <5>2, <5>4
      <4> QED
        BY <4>1, <4>2, <4>3
    <3> QED
      BY <3>1, <3>2
  <2>2. ASSUME NEW i \in Levels, NEW m \in Levels, i <= m
        PROVE  linked'[m] \subseteq linked'[i]
    <3>1. linked[m] \subseteq linked[i]
      BY <2>2 DEF ListsSorted
    <3>2. CASE m = l
      <4>1. key \in linked'[i]
        BY <2>2, <3>2, <1>l, <1>n, <1>t, <1>k DEF Levels
      <4> QED
        BY <3>1, <3>2, <4>1, <1>g, <1>l, <1>t
    <3>3. CASE m # l
      BY <3>1, <3>3, <1>g, <1>l, <1>t
    <3> QED
      BY <3>2, <3>3
  <2> QED
    BY <2>1, <2>2 DEF ListsSorted
<1>3. ReadersCorrect'
  BY <1>u, <1>g DEF ReadersCorrect, NoneBetween, Levels
<1>4. WriterInv'
  BY <1>w, <1>l, <1>n, <1>t, <1>k DEF WriterInv, NoKey, Levels, TypeOK
<1>5. SearchInv'
  BY <1>u, <1>g DEF SearchInv, Levels, TypeOK
<1> QED
  BY <1>1, <1>2, <1>3, <1>4, <1>5

(* What a reader does leaves the lists and the writer alone.               *)
LEMMA ReaderFrame ==
  ASSUME IInv, UNCHANGED <<next, linked, max_height, writer>>
  PROVE  ListsSorted' /\ WriterInv'
BY DEF IInv, ListsSorted, NoneBetween, WriterInv

(* A search begins at the head of the list.                                *)
LEMMA StartSearchInv ==
  ASSUME IInv, NEW r \in Readers, NEW op \in {"seek", "last", "prev"},
         NEW target \in Keys \cup {NoKey}, op # "last" => target \in Keys,
         StartSearch(r, op, target)
  PROVE  IInv'
<1> USE KeysAssumption, HeightAssumption DEF IInv
<1> PICK height \in 1 .. max_height :
       reader' = [reader EXCEPT ![r] = [op |-> op, did |-> "none", target |-> target,
                                        x |-> Head, level |-> height - 1, node |-> NULL]]
  BY DEF StartSearch
<1>u. UNCHANGED <<next, linked, max_height, writer>>
  BY DEF StartSearch
<1>s. seen' = [seen EXCEPT ![r] = linked[0]]
  BY DEF StartSearch
<1>h. height - 1 \in Levels /\ 0 \in Levels
  BY DEF TypeOK, Levels
<1>1. TypeOK'
  BY <1>u, <1>s, <1>h DEF TypeOK, Nodes
<1>2. ReadersCorrect'
  BY <1>u, <1>s DEF ReadersCorrect, TypeOK, NoneBetween
<1>3. SearchInv'
  BY <1>u, <1>s, <1>h DEF SearchInv, TypeOK, Head
<1> QED
  BY <1>1, <1>2, <1>3, <1>u, ReaderFrame

(* Following one link of the lowest level finds the next key of the list.  *)
LEMMA FollowInv ==
  ASSUME IInv, NEW r \in Readers, NEW n \in linked[0] \cup {Head}, Follow(r, n)
  PROVE  IInv'
<1> USE KeysAssumption, HeightAssumption DEF IInv
<1>r. reader' = [reader EXCEPT ![r] = [op |-> "none", did |-> "next", target |-> n,
                                      x |-> Head, level |-> 0, node |-> next[0][n]]]
  BY DEF Follow
<1>u. UNCHANGED <<next, linked, max_height, writer>>
  BY DEF Follow
<1>s. seen' = [seen EXCEPT ![r] = linked[0]]
  BY DEF Follow
<1>h. 0 \in Levels /\ n \in Nodes
  BY DEF TypeOK, Levels, Nodes
<1>n. /\ next[0][n] = NULL \/ (next[0][n] \in linked[0] /\ n < next[0][n])
      /\ NoneBetween(linked[0], n, next[0][n])
  BY <1>h DEF ListsSorted
<1>1. TypeOK'
  <2>1. next[0][n] \in Keys \cup {NULL} /\ Head \in Nodes
    BY <1>h DEF TypeOK, Nodes
  <2>2. reader' \in [Readers -> [op : {"none", "seek", "last", "prev"},
                                 did : {"none", "seek", "last", "prev", "next"},
                                 target : Nodes \cup {NoKey},
                                 x : Nodes,
                                 level : Levels,
                                 node : Keys \cup {NULL}]]
    BY <2>1, <1>h, <1>r DEF TypeOK
  <2> QED
    BY <2>2, <1>u, <1>s, <1>h DEF TypeOK
<1>2. ReadersCorrect'
  <2> SUFFICES ASSUME NEW q \in Readers
               PROVE  LET rd == reader'[q] IN
                      /\ rd.node # NULL => rd.node \in linked[0]
                      /\ rd.did = "seek" =>
                           /\ rd.node = NULL \/ rd.node >= rd.target
                           /\ \A k \in seen'[q] : ~(rd.target <= k /\ (rd.node = NULL \/ k < rd.node))
                      /\ rd.did = "next" =>
                           /\ rd.node = NULL \/ rd.node > rd.target
                           /\ NoneBetween(seen'[q], rd.target, rd.node)
                      /\ rd.did = "prev" =>
                           /\ rd.node < rd.target
                           /\ \A k \in seen'[q] : ~(rd.node < k /\ k < rd.target)
                      /\ rd.did = "last" =>
                           \A k \in seen'[q] : k <= rd.node
    BY <1>u DEF ReadersCorrect, NoneBetween
  <2>1. CASE q = r
    BY <2>1, <1>r, <1>s, <1>n, <1>h DEF TypeOK, Nodes, Head
  <2>2. CASE q # r
    BY <2>2, <1>r, <1>s DEF ReadersCorrect, TypeOK
  <2> QED
    BY <2>1, <2>2
<1>3. SearchInv'
  BY <1>u, <1>s, <1>h, <1>r DEF SearchInv, TypeOK
<1> QED
  BY <1>1, <1>2, <1>3, <1>u, ReaderFrame

(* One pass of a search: to the next node, a level down, or to its end.    *)
LEMMA StepInv ==
  ASSUME IInv, NEW r \in Readers, Step(r)
  PROVE  IInv'
<1> USE KeysAssumption, HeightAssumption DEF IInv
<1> DEFINE rd == reader[r]
           n == next[rd.level][rd.x]
           found == IF rd.op = "seek" THEN n ELSE IF rd.x = Head THEN NULL ELSE rd.x
<1>u. UNCHANGED <<next, linked, max_height, writer, seen>> /\ rd.op # "none"
  BY DEF Step
<1>t. /\ rd \in [op : {"none", "seek", "last", "prev"},
                 did : {"none", "seek", "last", "prev", "next"},
                 target : Nodes \cup {NoKey}, x : Nodes, level : Levels,
                 node : Keys \cup {NULL}]
      /\ 0 \in Levels
  BY DEF TypeOK, Levels
<1>x. /\ rd.x \in linked[rd.level] \cup {Head}
      /\ rd.did = "none" /\ rd.node = NULL
      /\ rd.op \in {"seek", "prev"} => rd.target \in Keys /\ rd.x < rd.target
      /\ seen[r] \subseteq linked[0]
  BY <1>u DEF SearchInv
<1>n. /\ n = NULL \/ (n \in linked[rd.level] /\ rd.x < n)
      /\ NoneBetween(linked[rd.level], rd.x, n)
      /\ n \in Keys \cup {NULL}
  <2>1. n \in Keys \cup {NULL}
    BY <1>t DEF TypeOK
  <2> QED
    BY <2>1, <1>t, <1>x DEF ListsSorted
<1>i. /\ rd.x \in Nat /\ \A k \in Keys : k \in Nat /\ k > 0
      /\ rd.op \in {"seek", "prev"} => rd.target \in Nat /\ rd.target > 0
  <2>1. rd.x \in Keys \cup {0}
    BY <1>t DEF Nodes, Head
  <2>2. \A k \in Keys : k \in Nat /\ k > 0
    OBVIOUS
  <2>3. rd.x \in Nat
    BY <2>1, <2>2
  <2>4. rd.op \in {"seek", "prev"} => rd.target \in Keys
    BY <1>x
  <2> HIDE DEF rd
  <2> QED
    BY <2>2, <2>3, <2>4
<1>o. \A q \in Readers : q # r => reader'[q] = reader[q]
  BY DEF Step, TypeOK
<1>1. CASE KeepsGoing(rd, n)
  <2>1. reader' = [reader EXCEPT ![r] =
                     [op |-> rd.op, did |-> rd.did, target |-> rd.target, x |-> n,
                      level |-> rd.level, node |-> rd.node]]
    <3>1. reader' = [reader EXCEPT ![r] = [rd EXCEPT !.x = n]]
      BY <1>1 DEF Step
    <3>2. [rd EXCEPT !.x = n] =
            [op |-> rd.op, did |-> rd.did, target |-> rd.target, x |-> n,
             level |-> rd.level, node |-> rd.node]
      <4> HIDE DEF rd, n
      <4> QED
        BY <1>t
    <3> QED
      BY <3>1, <3>2
  <2>2. n \in Keys /\ n \in linked[rd.level] /\ (rd.op \in {"seek", "prev"} => n < rd.target)
    BY <1>1, <1>n DEF KeepsGoing
  <2>3. TypeOK'
    BY <2>1, <2>2, <1>t, <1>u DEF TypeOK, Nodes
  <2>4. ReadersCorrect'
    BY <2>1, <1>u, <1>x, <1>t, <1>o DEF ReadersCorrect, NoneBetween, TypeOK
  <2>5. SearchInv'
    BY <2>1, <2>2, <1>u, <1>x, <1>o DEF SearchInv, TypeOK
  <2> QED
    BY <2>3, <2>4, <2>5, <1>u, ReaderFrame
<1>2. CASE ~KeepsGoing(rd, n) /\ rd.level > 0
  <2>1. reader' = [reader EXCEPT ![r] =
                     [op |-> rd.op, did |-> rd.did, target |-> rd.target, x |-> rd.x,
                      level |-> rd.level - 1, node |-> rd.node]]
    <3>1. reader' = [reader EXCEPT ![r] = [rd EXCEPT !.level = rd.level - 1]]
      BY <1>2 DEF Step
    <3>2. [rd EXCEPT !.level = rd.level - 1] =
            [op |-> rd.op, did |-> rd.did, target |-> rd.target, x |-> rd.x,
             level |-> rd.level - 1, node |-> rd.node]
      <4> HIDE DEF rd, n
      <4> QED
        BY <1>t
    <3> QED
      BY <3>1, <3>2
  <2>2. rd.level - 1 \in Levels /\ rd.level - 1 <= rd.level
    BY <1>2, <1>t DEF Levels
  <2>3. rd.x \in linked[rd.level - 1] \cup {Head}
    BY <2>2, <1>x, <1>t DEF ListsSorted
  <2>4. TypeOK'
    BY <2>1, <2>2, <1>t, <1>u DEF TypeOK
  <2>5. ReadersCorrect'
    BY <2>1, <1>u, <1>x, <1>t, <1>o DEF ReadersCorrect, NoneBetween, TypeOK
  <2>6. SearchInv'
    BY <2>1, <2>3, <1>u, <1>x, <1>o DEF SearchInv, TypeOK
  <2> QED
    BY <2>4, <2>5, <2>6, <1>u, ReaderFrame
<1>3. CASE ~KeepsGoing(rd, n) /\ ~(rd.level > 0)
  <2>1. reader' = [reader EXCEPT ![r] =
                     [op |-> "none", did |-> rd.op, target |-> rd.target, x |-> rd.x,
                      level |-> rd.level, node |-> found]]
    BY <1>3 DEF Step
  <2>2. rd.level = 0
    BY <1>3, <1>t DEF Levels
  <2>3. linked[0] \subseteq Keys /\ seen[r] \subseteq linked[0]
    BY <1>t, <1>x DEF TypeOK
  <2>4. found \in linked[0] \cup {NULL} /\ found \in Keys \cup {NULL}
    BY <2>2, <2>3, <1>n, <1>x DEF Head
  <2>5. TypeOK'
    BY <2>1, <2>4, <1>t, <1>u DEF TypeOK
  <2>6. SearchInv'
    BY <2>1, <1>u, <1>x, <1>o DEF SearchInv, TypeOK
  <2>7. \A k \in seen[r] : ~(rd.x < k /\ (n = NULL \/ k < n))
    BY <2>2, <2>3, <1>n DEF NoneBetween
  <2>i. /\ \A k \in seen[r] : k \in Nat /\ k > 0
        /\ n = NULL \/ n \in Nat
    BY <2>3, <1>i, <1>n
  <2>8. CASE rd.op = "seek"
    <3> HIDE DEF rd, n
    <3>1. n = NULL \/ n >= rd.target
      BY <2>8, <1>3, <1>i, <2>i DEF KeepsGoing
    <3>2. \A k \in seen[r] : ~(rd.target <= k /\ (n = NULL \/ k < n))
      <4> SUFFICES ASSUME NEW k \in seen[r], rd.target <= k
                   PROVE  rd.x < k
        BY <2>7
      <4>1. k \in Nat
        BY <2>i
      <4> QED
        BY <4>1, <2>8, <1>x, <1>i
    <3>3. /\ reader'[r].op = "none" /\ reader'[r].did = "seek" /\ reader'[r].node = n
          /\ reader'[r].target = rd.target
      BY <2>1, <2>8 DEF TypeOK
    <3>4. ReadersCorrect'
      BY <3>1, <3>2, <3>3, <2>4, <2>8, <1>u, <1>o DEF ReadersCorrect, NoneBetween
    <3> QED
      BY <2>5, <2>6, <3>4, <1>u, ReaderFrame
  <2>9. CASE rd.op = "prev"
    <3> HIDE DEF rd, n
    <3>1. found < rd.target
      BY <2>9, <1>x, <1>i DEF Head, NULL
    <3>2. \A k \in seen[r] : ~(found < k /\ k < rd.target)
      <4> SUFFICES ASSUME NEW k \in seen[r], found < k, k < rd.target
                   PROVE  FALSE
        OBVIOUS
      <4>1. k \in Nat /\ k > 0
        BY <2>i
      <4>2. rd.x < k
        BY <4>1, <2>9, <1>i DEF Head
      <4>3. n = NULL \/ k < n
        BY <2>9, <1>3, <1>i, <2>i, <4>1 DEF KeepsGoing
      <4> QED
        BY <4>2, <4>3, <2>7
    <3>3. /\ reader'[r].op = "none" /\ reader'[r].did = "prev" /\ reader'[r].node = found
          /\ reader'[r].target = rd.target
      BY <2>1, <2>9 DEF TypeOK
    <3>4. ReadersCorrect'
      BY <3>1, <3>2, <3>3, <2>4, <1>u, <1>o DEF ReadersCorrect, NoneBetween
    <3> QED
      BY <2>5, <2>6, <3>4, <1>u, ReaderFrame
  <2>10. CASE rd.op = "last"
    <3> HIDE DEF rd, n
    <3>1. n = NULL
      BY <2>10, <1>3 DEF KeepsGoing
    <3>2. \A k \in seen[r] : k <= found
      <4> SUFFICES ASSUME NEW k \in seen[r] PROVE k <= found
        OBVIOUS
      <4>1. k \in Nat /\ k > 0
        BY <2>i
      <4>2. ~(rd.x < k)
        BY <3>1, <2>7
      <4> QED
        BY <4>1, <4>2, <2>10, <1>i DEF Head
    <3>3. /\ reader'[r].op = "none" /\ reader'[r].did = "last" /\ reader'[r].node = found
      BY <2>1, <2>10 DEF TypeOK
    <3>4. ReadersCorrect'
      BY <3>2, <3>3, <2>4, <1>u, <1>o DEF ReadersCorrect, NoneBetween
    <3> QED
      BY <2>5, <2>6, <3>4, <1>u, ReaderFrame
  <2> QED
    BY <2>8, <2>9, <2>10, <1>t, <1>u
<1> QED
  BY <1>1, <1>2, <1>3

(* Every step of Insert and of a reader preserves the invariant.           *)
LEMMA NextInv == IInv /\ [Next]_vars => IInv'
<1> SUFFICES ASSUME IInv, [Next]_vars PROVE IInv'
  OBVIOUS
<1>1. CASE InsertStart
  BY <1>1, InsertStartInv
<1>2. CASE InsertLink
  BY <1>2, InsertLinkInv
<1>3. ASSUME NEW r \in Readers, Seek(r) PROVE IInv'
  BY <1>3, StartSearchInv DEF Seek
<1>4. ASSUME NEW r \in Readers, SeekToLast(r) PROVE IInv'
  BY <1>4, StartSearchInv DEF SeekToLast
<1>5. ASSUME NEW r \in Readers, Prev(r) PROVE IInv'
  <2>1. reader[r].node \in Keys
    BY <1>5 DEF Prev, IInv, TypeOK
  <2> QED
    BY <2>1, <1>5, StartSearchInv DEF Prev
<1>6. ASSUME NEW r \in Readers, SeekToFirst(r) PROVE IInv'
  BY <1>6, FollowInv DEF SeekToFirst
<1>7. ASSUME NEW r \in Readers, Advance(r) PROVE IInv'
  <2>1. reader[r].node \in linked[0]
    BY <1>7 DEF Advance, IInv, ReadersCorrect
  <2> QED
    BY <2>1, <1>7, FollowInv DEF Advance
<1>8. ASSUME NEW r \in Readers, Step(r) PROVE IInv'
  BY <1>8, StepInv
<1>9. CASE UNCHANGED vars
  BY <1>9 DEF vars, IInv, TypeOK, ListsSorted, ReadersCorrect, WriterInv, SearchInv, NoneBetween
<1> QED
  BY <1>1, <1>2, <1>3, <1>4, <1>5, <1>6, <1>7, <1>8, <1>9 DEF Next

(* IInv holds in every reachable state.                                    *)
LEMMA SkipListInv == Spec => []IInv
  BY InitInv, NextInv, PTL DEF Spec

(* For every set of keys, height and number of readers, every level of the *)
(* list stays sorted, holds only nodes of the level below and leaves none  *)
(* of its nodes out, also while Insert is linking one.                     *)
THEOREM SkipListSorted == Spec => []ListsSorted
<1>1. IInv => ListsSorted
  BY DEF IInv
<1> QED
  BY <1>1, SkipListInv, PTL

(* Readers that run beside one writer find what skiplist.h's "Thread       *)
(* safety" comment promises, for every set of keys, height and number of   *)
(* readers.                                                                *)
THEOREM SkipListCorrect == Spec => [](TypeOK /\ ReadersCorrect)
<1>1. IInv => TypeOK /\ ReadersCorrect
  BY DEF IInv
<1> QED
  BY <1>1, SkipListInv, PTL

=============================================================================
