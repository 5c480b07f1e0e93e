------------------------------ MODULE SkipList ------------------------------
(***************************************************************************)
(* The skip list of a memtable (db/skiplist.h).  One thread at a time      *)
(* inserts; readers walk the list without a lock.  A step is one load or   *)
(* one store of a pointer.  The links are published with release stores    *)
(* and read with acquire loads, so a reader that sees a node sees its      *)
(* links of the levels already linked.  max_height_ is read without a      *)
(* barrier: a reader may get any value it has had.                         *)
(***************************************************************************)
EXTENDS Integers

CONSTANTS Keys,            \* keys that may be inserted, positive numbers
          kMaxHeight,
          Readers

ASSUME KeysAssumption == Keys \subseteq Nat \ {0}
ASSUME HeightAssumption == kMaxHeight \in Nat \ {0}

Head == 0                  \* head_, before every key
NULL == -1                 \* sorts after every key

VARIABLES next,            \* next[level][n]: the link of node n
          linked,          \* ghost: linked[level], the nodes in the list of a level
          max_height,
          writer,          \* Insert in progress
          reader,          \* each reader's search in progress, or its iterator
          seen             \* ghost: the keys in the list when a search began

vars == <<next, linked, max_height, writer, reader, seen>>

Levels == 0 .. kMaxHeight - 1
Nodes == Keys \cup {Head}
NoKey == NULL

Init ==
  /\ next = [l \in Levels |-> [n \in Nodes |-> NULL]]
  /\ linked = [l \in Levels |-> {}]
  /\ max_height = 1
  /\ writer = [key |-> NoKey, height |-> 0, level |-> 0]
  /\ reader = [r \in Readers |-> [op |-> "none", did |-> "none", target |-> NoKey,
                                x |-> Head, level |-> 0, node |-> NULL]]
  /\ seen = [r \in Readers |-> {}]

-----------------------------------------------------------------------------
\* Mutant: any earlier node of the level.
IsBefore(n, level, key) == n \in linked[level] \cup {Head} /\ n < key

(* The last node of a level before key.  FindGreaterOrEqual gives it for   *)
(* every level below max_height_, and Insert takes head_ above; only this  *)
(* thread changes the links it walks.                                      *)
IsPrev(n, level, key) ==
  /\ n \in linked[level] \cup {Head}
  /\ n < key
  /\ next[level][n] = NULL \/ next[level][n] >= key

(* Insert picks the height of the new node and raises max_height_.         *)
InsertStart ==
  /\ writer.key = NoKey
  /\ \E key \in Keys \ linked[0], height \in 1 .. kMaxHeight :
       /\ writer' = [key |-> key, height |-> height, level |-> 0]
       /\ max_height' = IF height > max_height THEN height ELSE max_height
  /\ UNCHANGED <<next, linked, reader, seen>>

(* The node is linked into its lists from the bottom up.                   *)
InsertLink ==
  LET l == writer.level
      key == writer.key
  IN
  /\ key # NoKey
  /\ \E prev \in Nodes :
       /\ IsPrev(prev, l, key)
       /\ next' = [next EXCEPT ![l] = [@ EXCEPT ![key] = next[l][prev], ![prev] = key]]
  /\ linked' = [linked EXCEPT ![l] = @ \cup {key}]
  /\ writer' = IF l + 1 = writer.height THEN [key |-> NoKey, height |-> 0, level |-> 0]
               ELSE [writer EXCEPT !.level = l + 1]
  /\ UNCHANGED <<max_height, reader, seen>>

-----------------------------------------------------------------------------
(* A search starts at head_, at the top of the list as the reader sees it. *)
StartSearch(r, op, target) ==
  /\ \E height \in 1 .. max_height :
       reader' = [reader EXCEPT ![r] = [op |-> op, did |-> "none", target |-> target,
                                        x |-> Head, level |-> height - 1, node |-> NULL]]
  /\ seen' = [seen EXCEPT ![r] = linked[0]]
  /\ UNCHANGED <<next, linked, max_height, writer>>

Seek(r) ==
  /\ reader[r].op = "none"
  /\ \E target \in Keys : StartSearch(r, "seek", target)

SeekToLast(r) ==
  /\ reader[r].op = "none"
  /\ StartSearch(r, "last", NoKey)

(* Iterator::Prev searches the list again.                                 *)
Prev(r) ==
  /\ reader[r].op = "none"
  /\ reader[r].node # NULL
  /\ StartSearch(r, "prev", reader[r].node)

(* Whether the search goes on past next on this level.                     *)
KeepsGoing(rd, n) == n # NULL /\ (rd.op = "last" \/ n < rd.target)

\* Mutant: stops on the level it starts on.
StepOnTop(r) ==
  LET rd == reader[r]
      n == next[rd.level][rd.x]
      found == IF rd.op = "seek" THEN n ELSE IF rd.x = Head THEN NULL ELSE rd.x
  IN
  /\ rd.op # "none"
  /\ reader' = [reader EXCEPT ![r] =
       IF KeepsGoing(rd, n) THEN [rd EXCEPT !.x = n]
       ELSE [rd EXCEPT !.op = "none", !.did = rd.op, !.node = found]]
  /\ UNCHANGED <<next, linked, max_height, writer, seen>>

\* Mutant: goes back to head_ on the next level, and stays on it.
StepRestarts(r) ==
  LET rd == reader[r]
      n == next[rd.level][rd.x]
      found == IF rd.op = "seek" THEN n ELSE IF rd.x = Head THEN NULL ELSE rd.x
  IN
  /\ rd.op # "none"
  /\ reader' = [reader EXCEPT ![r] =
       IF KeepsGoing(rd, n) THEN [rd EXCEPT !.x = n]
       ELSE IF rd.level > 0 THEN [rd EXCEPT !.x = Head]
       ELSE [rd EXCEPT !.op = "none", !.did = rd.op, !.node = found]]
  /\ UNCHANGED <<next, linked, max_height, writer, seen>>

(* One pass of the loop of FindGreaterOrEqual, FindLessThan or FindLast.   *)
Step(r) ==
  LET rd == reader[r]
      n == next[rd.level][rd.x]
      found == IF rd.op = "seek" THEN n ELSE IF rd.x = Head THEN NULL ELSE rd.x
  IN
  /\ rd.op # "none"
  /\ reader' = [reader EXCEPT ![r] =
       IF KeepsGoing(rd, n) THEN [rd EXCEPT !.x = n]
       ELSE IF rd.level > 0 THEN [rd EXCEPT !.level = rd.level - 1]
       ELSE [op |-> "none", did |-> rd.op, target |-> rd.target,
             x |-> rd.x, level |-> rd.level, node |-> found]]
  /\ UNCHANGED <<next, linked, max_height, writer, seen>>

(* SeekToFirst and Next load one pointer of the lowest level.              *)
Follow(r, n) ==
  /\ reader' = [reader EXCEPT ![r] = [op |-> "none", did |-> "next", target |-> n,
                                      x |-> Head, level |-> 0, node |-> next[0][n]]]
  /\ seen' = [seen EXCEPT ![r] = linked[0]]
  /\ UNCHANGED <<next, linked, max_height, writer>>

SeekToFirst(r) == reader[r].op = "none" /\ Follow(r, Head)
Advance(r) == reader[r].op = "none" /\ reader[r].node # NULL /\ Follow(r, reader[r].node)

Next ==
  \/ InsertStart \/ InsertLink
  \/ \E r \in Readers : \/ Seek(r) \/ SeekToLast(r) \/ SeekToFirst(r)
                         \/ Advance(r) \/ Prev(r) \/ Step(r)

Spec == Init /\ [][Next]_vars

(* A thread in the middle of a search goes on with it.                     *)
FairSpec == Spec /\ \A r \in Readers : WF_vars(Step(r))

-----------------------------------------------------------------------------
(* The state is of the right type.                                         *)
TypeOK ==
  /\ next \in [Levels -> [Nodes -> Keys \cup {NULL}]]
  /\ linked \in [Levels -> SUBSET Keys]
  /\ max_height \in 1 .. kMaxHeight
  /\ writer \in [key : Keys \cup {NoKey}, height : 0 .. kMaxHeight, level : Levels]
  /\ reader \in [Readers -> [op : {"none", "seek", "last", "prev"},
                             did : {"none", "seek", "last", "prev", "next"},
                             target : Nodes \cup {NoKey}, x : Nodes, level : Levels,
                             node : Keys \cup {NULL}]]
  /\ seen \in [Readers -> SUBSET Keys]

(* No key of S lies strictly between two nodes.                            *)
NoneBetween(S, n, m) == \A k \in S : ~(n < k /\ (m = NULL \/ k < m))

(* On every level the links run through the linked nodes in order, also    *)
(* while a node is being inserted, and a level holds no node that a level  *)
(* below does not: Insert links from the bottom up.                        *)
ListsSorted ==
  /\ \A l \in Levels : \A n \in linked[l] \cup {Head} :
       /\ next[l][n] = NULL \/ (next[l][n] \in linked[l] /\ n < next[l][n])
       /\ NoneBetween(linked[l], n, next[l][n])
  /\ \A l, m \in Levels : l <= m => linked[m] \subseteq linked[l]

(* What a reader finds while Insert runs: a key of the list on the right   *)
(* side of its target, and none that was in the list when it began to look *)
(* lies closer to the target.  A reader never misses an old key.           *)
ReadersCorrect ==
  \A r \in Readers :
    LET rd == reader[r] IN
    /\ rd.node # NULL => rd.node \in linked[0]
    /\ rd.did = "seek" =>
         /\ rd.node = NULL \/ rd.node >= rd.target
         /\ \A k \in seen[r] : ~(rd.target <= k /\ (rd.node = NULL \/ k < rd.node))
    /\ rd.did = "next" =>
         /\ rd.node = NULL \/ rd.node > rd.target
         /\ NoneBetween(seen[r], rd.target, rd.node)
    /\ rd.did = "prev" =>
         /\ rd.node < rd.target
         /\ \A k \in seen[r] : ~(rd.node < k /\ k < rd.target)
    /\ rd.did = "last" =>
         \A k \in seen[r] : k <= rd.node

(* Every search ends, however many inserts happen meanwhile.               *)
SearchesEnd == \A r \in Readers : []<>(reader[r].op = "none")

=============================================================================
