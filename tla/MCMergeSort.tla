---------------------------- MODULE MCMergeSort ----------------------------
(* Records of a letter and a number of two digits, sorted by the number,   *)
(* which the comparators cut to as many digits as the letter is long: two  *)
(* of the three records are equal to them.                                 *)
EXTENDS MergeSort, SortLibrary

ASSUME RecordSize == record_size = schema_record_size

\* The numbers of the instance fit in its ints.
ASSUME IntsSuffice == NoOverflow

MCSchema == <<[name |-> "name", type |-> "string", length |-> 1],
              [name |-> "year", type |-> "integer", length |-> 2]>>
MCSortingAttributes == <<"year">>

\* The records are known by their places here.
Row(letter, tens, units) == <<letter, 44, 48 + tens, 48 + units, 10>>
Rows == <<Row(98, 1, 0), Row(97, 1, 2), Row(97, 2, 0)>>

\* What the comparators return, as a table
Comparison ==
  [pair \in (DOMAIN Rows) \X (DOMAIN Rows) |-> qsort_cmp(Rows[pair[1]], Rows[pair[2]])] @@ <<>>
MCCompare(lhs, rhs) == Comparison[<<lhs, rhs>>]

\* 2-way merges of up to three runs of three with buffers of one record, so that
\* the first pass of seven records has two groups; of two runs with buffers of two
\* records; 3-way merges of two runs and an empty one; and too little memory
MCArguments ==
  [size : 0 .. 5 \cup {7}, mem_capacity : {15}, k : {2}]
    \cup [size : {7}, mem_capacity : {30}, k : {2}]
    \cup [size : {6}, mem_capacity : {20}, k : {3}]
    \cup [size : {4}, mem_capacity : {15}, k : {3}]

=============================================================================
