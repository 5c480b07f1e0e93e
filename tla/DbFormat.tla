------------------------------ MODULE DbFormat ------------------------------
(***************************************************************************)
(* LevelDB's internal keys (db/dbformat.h, db/dbformat.cc).  Every entry   *)
(* of a memtable or a table is a user key with the sequence number of the  *)
(* write that made it and the type of that write.  User keys are positive  *)
(* numbers here, compared as the user comparator would; 0 stands for the   *)
(* NULL that the code passes for an open end of a range.  The value of an  *)
(* entry is not modelled: sequence numbers are unique, so an entry stands  *)
(* for its value.                                                          *)
(***************************************************************************)
EXTENDS Integers, FiniteSets

NULL == 0

kTypeDeletion == 0
kTypeValue == 1
kValueTypeForSeek == kTypeValue

(* 2^56 - 1 in the code: larger than any sequence number a write gets.     *)
kMaxSequenceNumber == 1000

InternalKey(user_key, sequence, type) ==
  [user_key |-> user_key, sequence |-> sequence, type |-> type]

PackSequenceAndType(k) == 256 * k.sequence + k.type

(* Increasing user key, then decreasing sequence number and type.          *)
Before(a, b) ==
  \/ a.user_key < b.user_key
  \/ a.user_key = b.user_key /\ PackSequenceAndType(a) > PackSequenceAndType(b)

(* The first internal key a read at a snapshot may return.                 *)
LookupKey(user_key, sequence) ==
  InternalKey(user_key, sequence, kValueTypeForSeek)

(* A set of internal keys as the sequence a memtable or a table keeps.     *)
Sorted(S) ==
  [i \in 1 .. Cardinality(S) |->
     CHOOSE k \in S : Cardinality({j \in S : Before(j, k)}) = i - 1]

=============================================================================
