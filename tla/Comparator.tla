----------------------------- MODULE Comparator -----------------------------
(***************************************************************************)
(* Keys as bytes (util/comparator.cc, db/dbformat.cc).  A user key is a    *)
(* sequence of bytes.  An internal key is a user key followed by its tag,  *)
(* the packed sequence number and type, which stands for eight bytes.      *)
(***************************************************************************)
EXTENDS Integers, Sequences, SequencesExt, FiniteSets, FiniteSetsExt

CONSTANT MaxByte      \* 0xff

(* Slice::compare.                                                         *)
Shorter(a, b) == IF Len(a) < Len(b) THEN Len(a) ELSE Len(b)
CommonPrefix(a, b) ==
  LET differ == {i \in 1 .. Shorter(a, b) : a[i] # b[i]}
  IN  IF differ = {} THEN Shorter(a, b) ELSE Min(differ) - 1
Less(a, b) ==
  LET n == CommonPrefix(a, b) + 1
  IN  n <= Len(b) /\ (n > Len(a) \/ a[n] < b[n])

(* A key in [start, limit), made shorter where one byte has room.          *)
ShortestSeparator(start, limit) ==
  LET d == CommonPrefix(start, limit) + 1
  IN  IF /\ d <= Shorter(start, limit)
         /\ start[d] < MaxByte /\ start[d] + 1 < limit[d]
      THEN Append(SubSeq(start, 1, d - 1), start[d] + 1)
      ELSE start

(* A key >= key, cut after the first byte that can be incremented.         *)
ShortSuccessor(key) ==
  LET up == {i \in DOMAIN key : key[i] # MaxByte}
  IN  IF up = {} THEN key ELSE Append(SubSeq(key, 1, Min(up) - 1), key[Min(up)] + 1)

-----------------------------------------------------------------------------
kTypeDeletion == 0
kTypeValue == 1
kValueTypeForSeek == kTypeValue
kMaxSequenceNumber == 1000       \* 2^56 - 1: beyond any number in use

PackSequenceAndType(sequence, type) == 256 * sequence + type
AppendInternalKey(user_key, sequence, type) ==
  Append(user_key, PackSequenceAndType(sequence, type))

ExtractUserKey(k) == Front(k)
TagOf(k) == Last(k)
SequenceOf(k) == TagOf(k) \div 256
TypeOf(k) == TagOf(k) % 256

(* Increasing user key, then decreasing sequence number and type.          *)
Before(a, b) ==
  LET ua == ExtractUserKey(a)
      ub == ExtractUserKey(b)
  IN  Less(ua, ub) \/ (ua = ub /\ TagOf(a) > TagOf(b))

(* The user key is replaced only when it gets shorter and larger; it then  *)
(* takes the tag that sorts first among the keys with that user key.       *)
Shortened(key, user_key) ==
  IF Len(user_key) < Len(key) - 1 /\ Less(ExtractUserKey(key), user_key)
  THEN AppendInternalKey(user_key, kMaxSequenceNumber, kValueTypeForSeek)
  ELSE key

FindShortestSeparator(start, limit) ==
  Shortened(start, ShortestSeparator(ExtractUserKey(start), ExtractUserKey(limit)))
FindShortSuccessor(key) == Shortened(key, ShortSuccessor(ExtractUserKey(key)))

(* A set of internal keys in the order a table keeps them.                 *)
Sorted(S) ==
  [i \in 1 .. Cardinality(S) |->
     CHOOSE k \in S : Cardinality({j \in S : Before(j, k)}) = i - 1]

=============================================================================
