------------------------------ MODULE MCDBIter ------------------------------
(* Databases of a memtable, level-0 tables and level-1 tables.             *)
EXTENDS DBIter

MCKeys == {<<1, 1>>, <<1, 3>>, <<3>>}
MCHash(key) == FoldLeft(LAMBDA h, b : 5 * h + b, 0, key)

(* Write s has sequence number s.  The first two went to level 1, the next *)
(* three to a table of level 0, and the last is in the memtable.           *)
Writes == {w \in [1 .. 6 -> MCKeys \X {kTypeDeletion, kTypeValue}] :
             /\ w[1] = <<<<1, 1>>, kTypeValue>> /\ w[2] = <<<<3>>, kTypeValue>>
             /\ w[3][1] # <<3>> /\ w[3][2] = kTypeValue}
Entry(w, s) == AppendInternalKey(w[s][1], s, w[s][2])
Database(w, bad_, sequence_) ==
  [mem |-> {Entry(w, 6)},
   level0 |-> <<{Entry(w, s) : s \in 3 .. 5}>>,
   level1 |-> <<{Entry(w, 1)}, {Entry(w, 2)}>>,
   bad |-> bad_, sequence |-> sequence_]

(* Everything can be read, at the last or an earlier snapshot; or a block  *)
(* or a table cannot.                                                      *)
MCContents ==
  LET Some == {v \in Writes : v[6] = <<<<1, 3>>, kTypeValue>>}
  IN  {Database(w, {}, 6) : w \in Writes}
        \cup {Database(w, {}, 4) : w \in Some}
        \cup {Database(w, {b}, 6) : w \in Some, b \in {<<1, 1>>, <<1, Meta>>, <<2, Whole>>, <<3, 1>>}}

=============================================================================
