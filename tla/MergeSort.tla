----------------------------- MODULE MergeSort -----------------------------
(***************************************************************************)
(* The external merge sort of a2/msort.cc with mk_runs and RunIterator of  *)
(* a2/library.cc: sorted runs that fit in memory are written to one        *)
(* temporary file, and passes of k-way merges go back and forth between    *)
(* this file and another until the runs are one.                           *)
(*                                                                         *)
(* The records are compared by an operator that orders them, of which      *)
(* SortLibrary has the code's.  A file position counts records.  A Record  *)
(* of the code is a pointer into the read_buf of its iterator, and is      *)
(* modelled as one: buf[i] is a place in iterators[i].read_buf, or NULL.   *)
(***************************************************************************)
EXTENDS Integers, Sequences, FiniteSets

CONSTANTS
  Records,       \* the records that may be in the input
  Compare(_, _), \* qsort_cmp: negative, zero or positive
  Uninitialized, \* a record in the bytes of a new read_buf
  record_size,   \* bytes in a record
  Arguments,     \* bound: the sizes of the input, with the values of mem_capacity and k
  IntBits        \* width of an int

ASSUME RecordAssumption == Uninitialized \notin Records
\* qsort is given an order in which records may be equal.
ASSUME CompareAssumption ==
  \A a, b, c \in Records :
    /\ Compare(a, b) \in Int
    /\ Compare(a, b) < 0 <=> Compare(b, a) > 0
    /\ Compare(a, b) <= 0 /\ Compare(b, c) <= 0 => Compare(a, c) <= 0
ASSUME SizeAssumption == record_size \in Nat \ {0} /\ IntBits \in Nat \ {0}
\* assert(mem_capacity>0) and assert(k>1) of main
ASSUME ArgumentAssumption ==
  Arguments \subseteq [size : Nat, mem_capacity : Nat \ {0}, k : Nat \ {0, 1}]

VARIABLES
  input,               \* the records of the input file
  mem_capacity, k,     \* the arguments
  pc,                  \* "mk_runs", "pass", "group", "merge", "done" or "exit"
  in_at,               \* position in the input file
  tmp_in, tmp_out,     \* the temporary files: data and position
  num_records, n, offset, unprocessed,
  iterators, buf       \* of kway_merge, indexed from 0

args == <<input, mem_capacity, k>>
vars == <<args, pc, in_at, tmp_in, tmp_out, num_records, n, offset, unprocessed, iterators, buf>>

NULL == -1

-----------------------------------------------------------------------------
\* An int that overflows wraps around.
ToInt(x) == LET half == 2 ^ (IntBits - 1) IN ((x + half) % (2 * half)) - half

\* The ints hold the numbers of bytes in memory and the numbers of records that
\* the loops over n and offset count to.
NoOverflow ==
  \A a \in Arguments :
    \A x \in (0 .. a.mem_capacity) \cup (0 .. a.size * a.k * a.k + a.size) : ToInt(x) = x

run_length == mem_capacity \div record_size
buf_size == ToInt(mem_capacity \div (k + 1))
rec_per_buf == buf_size \div record_size

\* fwrite of a record at the position of a file
Write(file, rec) ==
  [data |-> IF file.at = Len(file.data) THEN Append(file.data, rec)
                                        ELSE [file.data EXCEPT ![file.at + 1] = rec],
   at |-> file.at + 1]

Rewind(file) == [data |-> file.data, at |-> 0]

Count(s, rec) == Cardinality({i \in DOMAIN s : s[i] = rec})

Sorted(s) == \A i, j \in DOMAIN s : i < j => Compare(s[i], s[j]) <= 0

Permutes(s, t) == \A rec \in Records : Count(s, rec) = Count(t, rec)

\* qsort leaves records that compare equal in any order.
Qsort(s) == {t \in [DOMAIN s -> Records] : Sorted(t) /\ Permutes(s, t)}

-----------------------------------------------------------------------------
\* RunIterator
NewRunIterator(start_pos, length) ==
  [start_pos |-> start_pos, run_length |-> length, pos |-> 0, buf_no |-> 0,
   read_buf |-> [j \in 0 .. rec_per_buf - 1 |-> Uninitialized]]

has_next(it) == it.pos < it.run_length

\* Where next fills its buffer from; fseek fails if this is negative.
SeekPos(it) == it.start_pos + it.buf_no * rec_per_buf

Refills(it) == it.pos % rec_per_buf = 0

\* Mutant: every buffer is read from the beginning of the run.
nextFromStart(it, data) ==
  LET from == it.start_pos
      fread == [j \in 0 .. rec_per_buf - 1 |->
                  IF from + j < Len(data) THEN data[from + j + 1] ELSE it.read_buf[j]]
  IN  [it EXCEPT !.pos = @ + 1,
                 !.buf_no = IF Refills(it) THEN @ + 1 ELSE @,
                 !.read_buf = IF Refills(it) THEN fread ELSE @]

\* A short fread leaves the rest of the buffer as it was.
next(it, data) ==
  LET from == SeekPos(it)
      fread == [j \in 0 .. rec_per_buf - 1 |->
                  IF from + j < Len(data) THEN data[from + j + 1] ELSE it.read_buf[j]]
  IN  [it EXCEPT !.pos = @ + 1,
                 !.buf_no = IF Refills(it) THEN @ + 1 ELSE @,
                 !.read_buf = IF Refills(it) THEN fread ELSE @]

\* `has_next() ? next() : NULL`: the iterator and the pointer
Advance(it, data) == IF has_next(it) THEN next(it, data) ELSE it
Fetched(it) == IF has_next(it) THEN it.pos % rec_per_buf ELSE NULL

\* fseek to a negative position ends the program.
SeekFails(it) == has_next(it) /\ Refills(it) /\ SeekPos(it) < 0

-----------------------------------------------------------------------------
Init ==
  /\ \E a \in Arguments :
       input \in [1 .. a.size -> Records] /\ mem_capacity = a.mem_capacity /\ k = a.k
  /\ pc = "mk_runs"
  /\ in_at = 0
  /\ tmp_in = [data |-> <<>>, at |-> 0]
  /\ tmp_out = [data |-> <<>>, at |-> 0]
  /\ num_records = 0 /\ n = 0 /\ offset = 0 /\ unprocessed = 0
  /\ iterators = <<>> /\ buf = <<>>

\* One round of the loop of mk_runs: a run is read, sorted and written.
MakeRun ==
  LET left == Len(input) - in_at
      rd == IF left < run_length THEN left ELSE run_length
  IN  /\ pc = "mk_runs" /\ rd # 0
      /\ \E run \in Qsort(SubSeq(input, in_at + 1, in_at + rd)) :
           tmp_out' = [data |-> tmp_out.data \o run, at |-> tmp_out.at + rd]
      /\ in_at' = in_at + rd
      /\ num_records' = ToInt(num_records + rd)
      /\ UNCHANGED <<args, pc, tmp_in, n, offset, unprocessed, iterators, buf>>

\* fread returns 0; the files are swapped and n starts as run_length.
RunsMade ==
  /\ pc = "mk_runs" /\ (in_at = Len(input) \/ run_length = 0)
  /\ tmp_in' = tmp_out /\ tmp_out' = tmp_in
  /\ n' = ToInt(run_length)
  /\ pc' = "pass"
  /\ UNCHANGED <<args, in_at, num_records, offset, unprocessed, iterators, buf>>

\* Mutant: stops when one more merge would do.
AnotherPassNeeded == n * k < num_records

\* The condition of the loop over n
MorePasses == n < ToInt(num_records * k)

StartPass ==
  /\ pc = "pass" /\ MorePasses
  /\ unprocessed' = num_records
  /\ offset' = 0
  /\ pc' = "group"
  /\ UNCHANGED <<args, in_at, tmp_in, tmp_out, num_records, n, iterators, buf>>

\* The temporary file becomes the output file.
CopyOut ==
  /\ pc = "pass" /\ ~ MorePasses
  /\ pc' = "done"
  /\ UNCHANGED <<args, in_at, tmp_in, tmp_out, num_records, n, offset, unprocessed, iterators, buf>>

\* Mutant: a last run that is not full is left out.
FullLength(left) == IF left < n THEN 0 ELSE n

\* `length` in the loop over the iterators, given `unprocessed`
Length(left) == IF left < n THEN left % n ELSE n

\* `unprocessed` before each round of that loop
Unprocessed ==
  LET left[i \in 0 .. k] ==
        IF i = 0 THEN unprocessed
                 ELSE IF left[i - 1] < n THEN 0 ELSE left[i - 1] - n
  IN  left

\* The iterators of k runs are made, and the first record of each is read.
StartMerge ==
  LET made == [i \in 0 .. k - 1 |-> NewRunIterator(ToInt(offset + i * n), Length(Unprocessed[i]))]
  IN  /\ pc = "group" /\ offset < num_records
      /\ IF rec_per_buf < 1 \/ \E i \in 0 .. k - 1 : SeekFails(made[i])
           THEN pc' = "exit" /\ UNCHANGED <<unprocessed, iterators, buf>>
           ELSE /\ pc' = "merge"
                /\ unprocessed' = Unprocessed[k]
                /\ iterators' = [i \in 0 .. k - 1 |-> Advance(made[i], tmp_in.data)]
                /\ buf' = [i \in 0 .. k - 1 |-> Fetched(made[i])]
      /\ UNCHANGED <<args, in_at, tmp_in, tmp_out, num_records, n, offset>>

\* The iterators that have a record, and that record
Holding == {i \in 0 .. k - 1 : buf[i] # NULL}
Held(i) == iterators[i].read_buf[buf[i]]

\* Mutant: the records are not compared.
first_idx == CHOOSE i \in Holding : \A j \in Holding : i <= j

\* RecordComparator
rec_cmp(lhs, rhs) == Compare(lhs, rhs) < 0

\* The loop replaces min_rec by a smaller record only.
min_idx ==
  CHOOSE i \in Holding : \A j \in Holding :
    IF j < i THEN rec_cmp(Held(i), Held(j)) ELSE ~rec_cmp(Held(j), Held(i))

\* One round of kway_merge: the least record is written and its successor read.
MergeStep ==
  LET least == min_idx
      it == iterators[least]
  IN  /\ pc = "merge" /\ Holding # {}
      /\ tmp_out' = Write(tmp_out, Held(least))
      /\ IF SeekFails(it)
           THEN pc' = "exit" /\ UNCHANGED <<iterators, buf>>
           ELSE /\ iterators' = [iterators EXCEPT ![least] = Advance(it, tmp_in.data)]
                /\ buf' = [buf EXCEPT ![least] = Fetched(it)]
                /\ UNCHANGED pc
      /\ UNCHANGED <<args, in_at, tmp_in, num_records, n, offset, unprocessed>>

\* The iterators are freed.
EndMerge ==
  /\ pc = "merge" /\ Holding = {}
  /\ offset' = ToInt(offset + ToInt(n * k))
  /\ pc' = "group"
  /\ iterators' = <<>> /\ buf' = <<>>
  /\ UNCHANGED <<args, in_at, tmp_in, tmp_out, num_records, n, unprocessed>>

\* Mutant: the length of the sorted segments is not updated.
EndPassSameLength ==
  /\ pc = "group" /\ offset >= num_records
  /\ tmp_in' = Rewind(tmp_out) /\ tmp_out' = Rewind(tmp_in)
  /\ pc' = "pass"
  /\ UNCHANGED <<args, in_at, num_records, n, offset, unprocessed, iterators, buf>>

EndPass ==
  /\ pc = "group" /\ offset >= num_records
  /\ tmp_in' = Rewind(tmp_out) /\ tmp_out' = Rewind(tmp_in)
  /\ n' = ToInt(n * k)
  /\ pc' = "pass"
  /\ UNCHANGED <<args, in_at, num_records, offset, unprocessed, iterators, buf>>

Next ==
  \/ MakeRun \/ RunsMade
  \/ StartPass \/ CopyOut
  \/ StartMerge \/ MergeStep \/ EndMerge
  \/ EndPass

\* msort is a sequential program: it does not stop before its end.
Spec == Init /\ [][Next]_vars /\ WF_vars(Next)

-----------------------------------------------------------------------------
Written == SubSeq(tmp_out.data, 1, tmp_out.at)

\* The places in tmp_in, from 1, of the records that iterator i still has to give
Pending(i) ==
  LET it == iterators[i]
      given == IF buf[i] = NULL THEN it.pos ELSE it.pos - 1
  IN  it.start_pos + given + 1 .. it.start_pos + it.run_length

\* The places in tmp_in of the records that are not yet in tmp_out
ToMerge ==
  IF pc = "group"
    THEN offset + 1 .. num_records
    ELSE (offset + n * k + 1 .. num_records) \cup UNION {Pending(i) : i \in 0 .. k - 1}

\* During a pass every record of the input is either in the output of the pass
\* or still ahead of the iterators, as often as in the input: however the last
\* runs of a pass and the read buffers are cut, none is lost or written twice.
Conserved ==
  pc \in {"group", "merge"} =>
    \A rec \in Records :
      Count(Written, rec) + Cardinality({p \in ToMerge : tmp_in.data[p] = rec})
        = Count(input, rec)

\* The record that a pointer in buf refers to is the one before the place that
\* its iterator has come to in the file: refilling read_buf has not changed it.
PointersCurrent ==
  pc = "merge" =>
    \A i \in Holding : Held(i) = tmp_in.data[iterators[i].start_pos + iterators[i].pos]

SegmentsSorted(s, m) ==
  \A i, j \in DOMAIN s : (i < j /\ (i - 1) \div m = (j - 1) \div m) => Compare(s[i], s[j]) <= 0

\* The comments of the loop over n: "n is the current length of sorted segments"
\* and, at the end of a pass, "tmp_out_fp is kn sorted".
PassesSort ==
  /\ pc \in {"pass", "group", "merge"} /\ n > 0 => SegmentsSorted(tmp_in.data, n)
  /\ pc \in {"group", "merge"} => SegmentsSorted(Written, n * k)

\* A sort that has memory for a record and ends has sorted its input.
OutputSorted ==
  (pc = "done" /\ run_length > 0) => Permutes(tmp_in.data, input) /\ Sorted(tmp_in.data)

\* msort comes to an end, or finds that it has not enough memory.
Terminates == <>(pc \in {"done", "exit"})

=============================================================================
