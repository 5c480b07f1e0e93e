------------------------------ MODULE MCDBImpl ------------------------------
(* Small instances of DBImpl and Repair.                                   *)
EXTENDS Repair

Put(k) == <<<<kTypeValue, k>>>>
Delete(k) == <<<<kTypeDeletion, k>>>>
AllKeys == {<<0, 0>>}

(* One client without reads or faults that writes a key at most n times.   *)
Writes(n) ==
  [batches |-> {Put(1)}, syncs |-> {FALSE}, sequences |-> n,
   snapshots |-> 0, views |-> 0, points |-> {}, ranges |-> 0,
   crashes |-> 0, errors |-> 0, closes |-> 0, faults |-> 0]

(* Reads and snapshots while two keys are flushed and compacted.           *)
Compactions ==
  [Writes(5) EXCEPT !.batches = {Put(1), Put(2) \o Delete(1)},
                    !.snapshots = 1, !.views = 1, !.points = {3}]

(* A key is written, deleted and recovered.                                *)
Faults ==
  [Writes(2) EXCEPT !.batches = {Put(1), Delete(1)}, !.syncs = BOOLEAN,
                    !.crashes = 2, !.errors = 1, !.closes = 1, !.faults = 3]

MCWorkloads == [compactions |-> Compactions, faults |-> Faults]

(* Writes, with and without sync, and a manual compaction.                 *)
MCCalls == [calls |-> [Writes(3) EXCEPT !.syncs = BOOLEAN, !.ranges = 1]]

(* The same, with an operation that fails.                                 *)
MCFailure == [failure |-> [Writes(3) EXCEPT !.syncs = BOOLEAN, !.ranges = 1,
                                            !.errors = 1, !.faults = 1]]

(* Snapshots between the writes of a key.                                  *)
MCSnapshots == [snapshots |-> [Writes(4) EXCEPT !.snapshots = 1, !.points = 0 .. 4]]

=============================================================================
