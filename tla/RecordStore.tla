---------------------------- MODULE RecordStore ----------------------------
(***************************************************************************)
(* What a heap file promises: it maps record ids to records.  After a      *)
(* crash each record id has one of the values it had since the file was    *)
(* last closed or opened, not necessarily the latest.                      *)
(***************************************************************************)
CONSTANTS Rid, Record, NoRecord

VARIABLES
  store,  \* the record of each record id
  had     \* the values of each record id since the file was closed or opened

Saved(s) == [rid \in Rid |-> {s[rid]}]

Empty == [rid \in Rid |-> NoRecord]

Init == store = Empty /\ had = Saved(Empty)

\* put_record, update_record and delete_record
Write(rid, value) ==
  /\ store' = [store EXCEPT ![rid] = value]
  /\ had' = [had EXCEPT ![rid] = @ \cup {value}]

Create == store' = Empty /\ had' = Saved(Empty)

Close == store' = store /\ had' = Saved(store)

Crash ==
  /\ \A rid \in Rid : store'[rid] \in had[rid]
  /\ store' = [rid \in Rid |-> store'[rid]]
  /\ had' = Saved(store')

Next ==
  \/ \E rid \in Rid, value \in Record \cup {NoRecord} : Write(rid, value)
  \/ Create
  \/ Close
  \/ Crash

Spec == Init /\ [][Next]_<<store, had>>

=============================================================================
