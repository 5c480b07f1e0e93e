--------------------------- MODULE HeapfileStore ---------------------------
(***************************************************************************)
(* The heap file with crashes as a store of records.  Two history          *)
(* variables record the contents of the file and the values that each      *)
(* record id had since the file was last closed, created or reopened after *)
(* a crash; neither influences the heap file.                              *)
(***************************************************************************)
EXTENDS HeapfileContents

VARIABLES store, had

storeVars == <<vars, store, had>>

StoreInit ==
  /\ Init
  /\ store = Contents
  /\ had = [rid \in Rid |-> {store[rid]}]

\* The file is on disk as it is in memory, or what was in memory is lost.
Settled == Create \/ Close \/ Crash

Unsettled ==
  \/ Open
  \/ ReadDirectory
  \/ \E rec \in Record : Put(rec)
  \/ \E rid \in Rids : Get(rid)
  \/ \E rid \in Rids, rec \in Record : Update(rid, rec)
  \/ \E rid \in Rids : Delete(rid)

StoreNext ==
  \/ /\ Settled
     /\ store' = Contents'
     /\ had' = [rid \in Rid |-> {store'[rid]}]
  \/ /\ Unsettled
     /\ store' = Contents'
     /\ had' = [rid \in Rid |-> had[rid] \cup {store'[rid]}]

StoreSpec == StoreInit /\ [][StoreNext]_storeVars /\ Fairness

Abstract == INSTANCE RecordStore

\* A heap file is a store of records: no step but create_heapfile changes more
\* than one record id, closing changes none, and a process that dies at any
\* write leaves for each record id a value it had since the last close.
ImplementsStore == Abstract!Spec

=============================================================================
